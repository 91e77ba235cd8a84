----------------------------- MODULE Accounting -----------------------------
(***************************************************************************)
(* What CAKE charges for a packet.  The socket filter computes it to know  *)
(* the share of ACKs in the upload (cake/accounting.h), from the framing   *)
(* that the daemon read from the qdisc (cake/cake.c, daemon/tcp.c); the    *)
(* controller takes the largest packet's charge as the time that sending   *)
(* it adds to a delay.                                                     *)
(***************************************************************************)
EXTENDS Integers, FiniteSetsExt

CONSTANTS
  CELL_PAYLOAD,   \* CAKE_ATM_CELL_PAYLOAD_BYTES
  CELL,           \* CAKE_ATM_CELL_BYTES
  PTM_BLOCK       \* CAKE_PTM_BLOCK_BYTES

ASSUME AccountingAssumption ==
  /\ {CELL_PAYLOAD, CELL, PTM_BLOCK} \subseteq Nat \ {0}
  /\ CELL_PAYLOAD <= CELL

Framings == {"NONE", "ATM", "PTM"}

\* What a qdisc's options say; the kernel leaves out what is not set, and RAW
\* is a flag.
parse_options(options) ==
  LET Given(name, value) == IF name \in DOMAIN options THEN options[name] ELSE value
  IN  [raw |-> "raw" \in DOMAIN options,
       overhead_bytes |-> Given("overhead_bytes", 0),
       mpu_bytes |-> Given("mpu_bytes", 0),
       atm_mode |-> Given("atm_mode", "NONE")]

Cells(bytes) == (bytes + CELL_PAYLOAD - 1) \div CELL_PAYLOAD
Blocks(bytes) == (bytes + PTM_BLOCK - 1) \div PTM_BLOCK

\* Mutant: the last cell is only charged when it is full.
cake_accounted_bytes_full(accounting, length, network_offset) ==
  LET link == IF accounting.raw THEN length ELSE length - network_offset
      bytes == Max({link + accounting.overhead_bytes, accounting.mpu_bytes})
  IN  CASE accounting.atm_mode = "ATM" -> (bytes \div CELL_PAYLOAD) * CELL
        [] accounting.atm_mode = "PTM" -> bytes + Blocks(bytes)
        [] OTHER -> bytes

\* The charge for one packet: RAW keeps the link header, and overhead, the
\* minimum and the framing apply to what is left.
cake_accounted_bytes(accounting, length, network_offset) ==
  LET link == IF accounting.raw THEN length ELSE length - network_offset
      bytes == Max({link + accounting.overhead_bytes, accounting.mpu_bytes})
  IN  CASE accounting.atm_mode = "ATM" -> Cells(bytes) * CELL
        [] accounting.atm_mode = "PTM" -> bytes + Blocks(bytes)
        [] OTHER -> bytes

\* The largest packet on the wire, as cake-autorate reads tc's text: what that
\* has no words for counts as the plain MTU, and the minimum as nothing.
cake_max_wire_packet_bits(accounting, mtu) ==
  LET wire == mtu + accounting.overhead_bytes
  IN  8 * (IF accounting.raw \/ accounting.overhead_bytes < 0
              \/ accounting.atm_mode \notin {"NONE", "ATM"}
           THEN mtu
           ELSE IF accounting.atm_mode = "ATM" THEN Cells(wire) * CELL ELSE wire)
=============================================================================
