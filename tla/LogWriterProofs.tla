-------------------------- MODULE LogWriterProofs --------------------------
(***************************************************************************)
(* The log writer implements LossyLog, for a ring and entries of any size,  *)
(* any number of entries and every interleaving of the two threads.  What   *)
(* it writes is kept by the log file through rotations, exports, failed     *)
(* copies and kills, for any number of lines and any size of the file.      *)
(***************************************************************************)
EXTENDS LogWriter, LogFile, FiniteSetTheorems, SequenceTheorems, TLAPS

EntryType == [id : Nat \ {0}, kind : Kinds, bytes : Nat]
LostType == [lines : Nat, syslog : Nat, export : BOOLEAN, reset : BOOLEAN]
OutputType ==
  [kind : Requests] \cup [kind : {"NOTE"}, lines : Nat, syslog : Nat]
    \cup [kind : Kinds, id : Nat]

WriterTypeOK ==
  /\ asked \in Seq(Kinds) /\ settled \in Nat /\ out \in Seq(OutputType)
  /\ queue \in Seq(EntryType)
  /\ overwritten \in LostType
  /\ hand \in [entry : [id : Nat, kind : Kinds], overwritten : LostType]
  /\ pc \in {"LOOKING", "WAITING", "WRITING", "ENDED"}
  /\ stop \in BOOLEAN
  /\ main \in {"USING", "STOPPING", "JOINED", "LEFT", "EXITED"}

\* The entries first..last of a sequence that are of a kind, and what a loss of
\* them all comes to.
Of(s, first, last, kind) == {i \in first .. last : s[i] = kind}
CountIn(s, first, last, kind) == Cardinality(Of(s, first, last, kind))
OneIn(s, first, last, kind) == \E i \in first .. last : s[i] = kind

LossIn(s, first, last) ==
  [lines |-> CountIn(s, first, last, "LINE"), syslog |-> CountIn(s, first, last, "SYSLOG"),
   export |-> OneIn(s, first, last, "EXPORT"), reset |-> OneIn(s, first, last, "RESET")]

\* The last entry that is no longer in the ring, and the last that was taken.
LeftRing == Len(asked) - Len(queue)
Taken == IF hand.entry.id = 0 THEN settled ELSE hand.entry.id

\* The ring holds the entries asked for last.
RingIsTail ==
  /\ Len(queue) <= Len(asked)
  /\ \A i \in 1 .. Len(queue) :
       queue[i].id = LeftRing + i /\ queue[i].kind = asked[LeftRing + i]

\* What was overwritten since an entry was taken is counted, and nothing else.
LossCounted ==
  /\ Taken <= LeftRing
  /\ queue = <<>> => Taken = LeftRing
  /\ overwritten = LossIn(asked, Taken + 1, LeftRing)

\* The writer's hand is empty, or it holds an entry and what is missing before it.
HandTrue ==
  /\ pc # "WRITING" => hand = EMPTY_HAND
  /\ hand.entry.id = 0 => hand = EMPTY_HAND
  /\ hand.entry.id # 0 =>
       /\ hand.entry.id \in settled + 1 .. Len(asked)
       /\ hand.entry.kind = asked[hand.entry.id]
       /\ hand.overwritten = LossIn(asked, settled + 1, hand.entry.id - 1)

\* The writer ends with an empty ring, after the last entry was asked for.
EndIsLast ==
  /\ stop => main # "USING"
  /\ pc = "ENDED" => stop /\ queue = <<>>
  /\ main = "JOINED" => pc = "ENDED"

WriterInv == WriterTypeOK /\ RingIsTail /\ LossCounted /\ HandTrue /\ EndIsLast

-----------------------------------------------------------------------------
(* Counting.                                                                *)

\* A count is a natural number, and positive when there is one to count.
LEMMA CountNat ==
  ASSUME NEW s, NEW first \in Int, NEW last \in Int, NEW kind
  PROVE  /\ IsFiniteSet(Of(s, first, last, kind))
         /\ CountIn(s, first, last, kind) \in Nat
         /\ (CountIn(s, first, last, kind) > 0 <=> OneIn(s, first, last, kind))
  <1>1. IsFiniteSet(first .. last)
    BY FS_Interval
  <1>2. Of(s, first, last, kind) \subseteq first .. last
    BY DEF Of
  <1>3. IsFiniteSet(Of(s, first, last, kind))
    BY <1>1, <1>2, FS_Subset
  <1>4. /\ CountIn(s, first, last, kind) \in Nat
        /\ (CountIn(s, first, last, kind) = 0 <=> Of(s, first, last, kind) = {})
    BY <1>3, FS_CardinalityType, FS_EmptySet DEF CountIn
  <1>5. Of(s, first, last, kind) # {} <=> OneIn(s, first, last, kind)
    BY DEF Of, OneIn
  <1> QED BY <1>3, <1>4, <1>5

\* There is nothing to count in an empty interval.
LEMMA CountNone ==
  ASSUME NEW s, NEW first \in Int, NEW last \in Int, last < first, NEW kind
  PROVE  CountIn(s, first, last, kind) = 0 /\ OneIn(s, first, last, kind) = FALSE
  <1>1. first .. last = {}
    OBVIOUS
  <1>2. Of(s, first, last, kind) = {} /\ OneIn(s, first, last, kind) = FALSE
    BY <1>1, Zenon DEF Of, OneIn
  <1> QED BY <1>2, FS_EmptySet DEF CountIn

\* Counts of adjoining intervals add up.
LEMMA CountSplit ==
  ASSUME NEW s, NEW first \in Int, NEW middle \in Int, NEW last \in Int,
         first <= middle + 1, middle <= last, NEW kind
  PROVE  /\ CountIn(s, first, last, kind) =
              CountIn(s, first, middle, kind) + CountIn(s, middle + 1, last, kind)
         /\ (OneIn(s, first, last, kind)
               <=> OneIn(s, first, middle, kind) \/ OneIn(s, middle + 1, last, kind))
  <1> DEFINE below == Of(s, first, middle, kind)
             above == Of(s, middle + 1, last, kind)
  <1>1. middle + 1 \in Int
    OBVIOUS
  <1>2. IsFiniteSet(below) /\ IsFiniteSet(above)
    BY <1>1, CountNat
  <1>3. Of(s, first, last, kind) = below \cup above /\ below \cap above = {}
    BY DEF Of
  <1>4. Cardinality(below \cup above)
          = Cardinality(below) + Cardinality(above) - Cardinality(below \cap above)
    BY <1>2, FS_Union, Zenon
  <1>5. /\ Cardinality(below) \in Nat /\ Cardinality(above) \in Nat
        /\ Cardinality(below \cap above) = 0
    BY <1>2, <1>3, FS_CardinalityType, FS_EmptySet
  <1>6. CountIn(s, first, last, kind)
          = CountIn(s, first, middle, kind) + CountIn(s, middle + 1, last, kind)
    BY <1>3, <1>4, <1>5 DEF CountIn
  <1>7. first .. last = (first .. middle) \cup (middle + 1 .. last)
    OBVIOUS
  <1>8. OneIn(s, first, last, kind)
          <=> (OneIn(s, first, middle, kind) \/ OneIn(s, middle + 1, last, kind))
    BY <1>7, Zenon DEF OneIn
  <1> QED BY <1>6, <1>8, Zenon

\* The first n entries of another sequence are those after offset here.
LEMMA CountShift ==
  ASSUME NEW s, NEW offset \in Nat, NEW n \in Nat, NEW t, NEW kind,
         \A i \in 1 .. n : t[i] = s[offset + i]
  PROVE  /\ CountIn(t, 1, n, kind) = CountIn(s, offset + 1, offset + n, kind)
         /\ (OneIn(t, 1, n, kind) <=> OneIn(s, offset + 1, offset + n, kind))
  <1> DEFINE here == Of(s, offset + 1, offset + n, kind)
             there == Of(t, 1, n, kind)
             shift == [i \in there |-> offset + i]
  <1>1. /\ \A i \in there : i \in Int /\ offset + i \in here
        /\ \A j \in here : j - offset \in there /\ offset + (j - offset) = j
    BY DEF Of
  <1>2. ExistsBijection(there, here)
    <2> HIDE DEF here, there
    <2>1. shift \in [there -> here]
      BY <1>1
    <2>2. \A i, j \in there : shift[i] = shift[j] => i = j
      BY <1>1
    <2>3. \A j \in here : \E i \in there : shift[i] = j
      BY <1>1
    <2> HIDE DEF shift
    <2>4. shift \in Bijection(there, here)
      BY <2>1, <2>2, <2>3 DEF Bijection, Injection, IsInjective, Surjection
    <2> QED BY <2>4 DEF ExistsBijection
  <1>3. IsFiniteSet(there)
    BY CountNat
  <1>4. Cardinality(here) = Cardinality(there)
    BY <1>2, <1>3, FS_Bijection, Zenon
  <1>5. (here = {} <=> there = {})
    <2> HIDE DEF here, there
    <2> QED BY <1>1
  <1>6. /\ (OneIn(t, 1, n, kind) <=> there # {})
        /\ (OneIn(s, offset + 1, offset + n, kind) <=> here # {})
    BY DEF OneIn, Of
  <1> HIDE DEF here, there
  <1>7. OneIn(t, 1, n, kind) <=> OneIn(s, offset + 1, offset + n, kind)
    BY <1>5, <1>6
  <1> QED BY <1>4, <1>7 DEF CountIn, here, there

\* What is asked for later changes no count of what was asked before.
LEMMA LossKept ==
  ASSUME NEW s \in Seq(Kinds), NEW kind \in Kinds, NEW first \in Nat \ {0},
         NEW last \in Int, last <= Len(s)
  PROVE  LossIn(Append(s, kind), first, last) = LossIn(s, first, last)
  <1>1. \A i \in first .. last : Append(s, kind)[i] = s[i]
    OBVIOUS
  <1>2. ASSUME NEW k
        PROVE  Of(Append(s, kind), first, last, k) = Of(s, first, last, k)
    BY <1>1, Zenon DEF Of
  <1>3. ASSUME NEW k
        PROVE  CountIn(Append(s, kind), first, last, k) = CountIn(s, first, last, k)
    BY <1>2, Zenon DEF CountIn
  <1>4. ASSUME NEW k
        PROVE  OneIn(Append(s, kind), first, last, k) = OneIn(s, first, last, k)
    BY <1>1, Zenon DEF OneIn
  <1> QED BY <1>3, <1>4, Zenon DEF LossIn

\* No loss is reported for an empty interval.
LEMMA LossNone ==
  ASSUME NEW s, NEW first \in Int
  PROVE  LossIn(s, first, first - 1) = NOTHING_OVERWRITTEN
  <1>1. first - 1 \in Int /\ first - 1 < first
    OBVIOUS
  <1>2. \A k : /\ CountIn(s, first, first - 1, k) = 0
              /\ OneIn(s, first, first - 1, k) = FALSE
    BY <1>1, CountNone, Zenon
  <1> QED BY <1>2, Zenon DEF LossIn, NOTHING_OVERWRITTEN

\* A loss has the type of the counters the writer keeps.
LEMMA LossTyped ==
  ASSUME NEW s, NEW first \in Int, NEW last \in Int
  PROVE  LossIn(s, first, last) \in LostType
  <1>1. \A k : /\ CountIn(s, first, last, k) \in Nat
              /\ OneIn(s, first, last, k) \in BOOLEAN
    BY CountNat DEF OneIn
  <1> HIDE DEF OneIn
  <1> QED BY <1>1 DEF LossIn, LostType

\* overwrite_oldest adds what it overwrites.
LEMMA LossAdds ==
  ASSUME NEW s \in Seq(Kinds), NEW q \in Seq(EntryType),
         NEW first \in Nat \ {0}, NEW last \in Nat, NEW n \in 0 .. Len(q),
         first <= last + 1,
         \A i \in 1 .. Len(q) : q[i].kind = s[last + i]
  PROVE  overwrite_oldest(LossIn(s, first, last), SubSeq(q, 1, n))
           = LossIn(s, first, last + n)
  <1> DEFINE lost == SubSeq(q, 1, n)
             kinds == [i \in 1 .. n |-> lost[i].kind]
  <1>1. DOMAIN lost = 1 .. n /\ \A i \in 1 .. n : lost[i] = q[i]
    OBVIOUS
  <1>2. \A i \in 1 .. n : kinds[i] = s[last + i]
    BY <1>1
  <1>3. n \in Nat /\ last + n \in Int /\ last <= last + n
    OBVIOUS
  <1>4. ASSUME NEW k
        PROVE  /\ {i \in DOMAIN lost : lost[i].kind = k} = Of(kinds, 1, n, k)
               /\ ((\E i \in DOMAIN lost : lost[i].kind = k) <=> OneIn(kinds, 1, n, k))
    BY <1>1, Zenon DEF Of, OneIn
  <1>5. ASSUME NEW k
        PROVE  /\ CountIn(kinds, 1, n, k) = CountIn(s, last + 1, last + n, k)
               /\ (OneIn(kinds, 1, n, k) <=> OneIn(s, last + 1, last + n, k))
    <2> HIDE DEF kinds
    <2> QED BY <1>2, <1>3, CountShift, Zenon
  <1>6. ASSUME NEW k
        PROVE  /\ CountIn(s, first, last + n, k)
                    = CountIn(s, first, last, k) + CountIn(s, last + 1, last + n, k)
               /\ (OneIn(s, first, last + n, k)
                     <=> OneIn(s, first, last, k) \/ OneIn(s, last + 1, last + n, k))
    <2> DEFINE new == last + n
    <2>1. first \in Int /\ last \in Int /\ new \in Int /\ last <= new
      OBVIOUS
    <2> HIDE DEF new
    <2>2. /\ CountIn(s, first, new, k)
              = CountIn(s, first, last, k) + CountIn(s, last + 1, new, k)
          /\ (OneIn(s, first, new, k)
                <=> OneIn(s, first, last, k) \/ OneIn(s, last + 1, new, k))
      BY <2>1, CountSplit
    <2> QED BY <2>2, Zenon DEF new
  <1> HIDE DEF lost, kinds
  <1>7. ASSUME NEW k
        PROVE  CountIn(s, first, last, k)
                 + Cardinality({i \in DOMAIN lost : lost[i].kind = k})
                 = CountIn(s, first, last + n, k)
    BY <1>4, <1>5, <1>6 DEF CountIn
  <1>8. ASSUME NEW k
        PROVE  (OneIn(s, first, last, k) \/ \E i \in DOMAIN lost : lost[i].kind = k)
                 = OneIn(s, first, last + n, k)
    <2>1. (OneIn(s, first, last, k) \/ \E i \in DOMAIN lost : lost[i].kind = k)
            <=> OneIn(s, first, last + n, k)
      BY <1>4, <1>5, <1>6, Zenon
    <2> QED BY <2>1, Zenon DEF OneIn
  <1>9. overwrite_oldest(LossIn(s, first, last), lost) = LossIn(s, first, last + n)
    BY <1>7, <1>8, Zenon DEF overwrite_oldest, LossIn
  <1> QED BY <1>9 DEF lost

-----------------------------------------------------------------------------
(* The invariant.                                                           *)

\* The invariant holds before the first entry.
LEMMA InitInv == Init => WriterInv
  <1> SUFFICES ASSUME Init PROVE WriterInv
    OBVIOUS
  <1> USE DEF Init
  <1>1. WriterTypeOK
    <2>1. /\ NOTHING_OVERWRITTEN \in LostType
          /\ EMPTY_HAND \in [entry : [id : Nat, kind : Kinds], overwritten : LostType]
      BY DEF LostType, Kinds, EMPTY_HAND, NO_ENTRY, NOTHING_OVERWRITTEN
    <2>2. /\ <<>> \in Seq(Kinds) /\ <<>> \in Seq(OutputType)
          /\ <<>> \in Seq(EntryType)
      OBVIOUS
    <2>3. /\ overwritten \in LostType
          /\ hand \in [entry : [id : Nat, kind : Kinds], overwritten : LostType]
      BY <2>1, Zenon
    <2>4. settled \in Nat /\ stop \in BOOLEAN
      OBVIOUS
    <2> QED BY <2>2, <2>3, <2>4, Zenon DEF WriterTypeOK
  <1>2. RingIsTail
    BY DEF RingIsTail
  <1>3. LeftRing = 0 /\ Taken = 0
    BY DEF LeftRing, Taken, EMPTY_HAND, NO_ENTRY
  <1>4. LossIn(asked, 1, 0) = NOTHING_OVERWRITTEN
    <2>1. LossIn(asked, 1, 1 - 1) = NOTHING_OVERWRITTEN
      BY LossNone, 1 \in Int, Zenon
    <2> QED BY <2>1
  <1>5. LossCounted
    BY <1>3, <1>4 DEF LossCounted
  <1>6. HandTrue /\ EndIsLast
    BY DEF HandTrue, EndIsLast, EMPTY_HAND, NO_ENTRY
  <1> QED BY <1>1, <1>2, <1>5, <1>6 DEF WriterInv

\* The main thread queues an entry, over the oldest ones if it has to.
LEMMA QueueInv ==
  ASSUME WriterInv, NEW kind \in Kinds, NEW bytes \in Nat, writer_queue(kind, bytes)
  PROVE  WriterInv'
  <1> USE DEF WriterInv
  <1>1. PICK n \in 0 .. Len(queue) :
          /\ overwritten' = overwrite_oldest(overwritten, SubSeq(queue, 1, n))
          /\ queue' = Append(SubSeq(queue, n + 1, Len(queue)),
                            [id |-> Len(asked) + 1, kind |-> kind, bytes |-> bytes])
    BY DEF writer_queue
  <1>2. /\ asked' = Append(asked, kind) /\ main = "USING"
        /\ UNCHANGED <<settled, out, hand, pc, stop, main>>
    BY DEF writer_queue
  <1>3. /\ asked \in Seq(Kinds) /\ queue \in Seq(EntryType) /\ settled \in Nat
        /\ hand \in [entry : [id : Nat, kind : Kinds], overwritten : LostType]
    BY DEF WriterTypeOK
  <1>4. /\ asked' \in Seq(Kinds) /\ Len(asked') = Len(asked) + 1
        /\ \A i \in 1 .. Len(asked) : asked'[i] = asked[i]
        /\ asked'[Len(asked) + 1] = kind
    BY <1>2, <1>3, AppendProperties
  <1> DEFINE kept == SubSeq(queue, n + 1, Len(queue))
             entry == [id |-> Len(asked) + 1, kind |-> kind, bytes |-> bytes]
  <1>5. /\ kept \in Seq(EntryType) /\ Len(kept) = Len(queue) - n
        /\ \A i \in 1 .. Len(queue) - n : kept[i] = queue[n + i]
    BY <1>3
  <1>6. entry \in EntryType /\ entry.id = Len(asked) + 1 /\ entry.kind = kind
    BY <1>3 DEF EntryType
  <1> HIDE DEF kept, entry
  <1>7. queue' = Append(kept, entry)
    BY <1>1 DEF kept, entry
  <1>8. /\ queue' \in Seq(EntryType) /\ Len(queue') = Len(queue) - n + 1
        /\ queue' # <<>>
        /\ \A i \in 1 .. Len(queue) - n : queue'[i] = queue[n + i]
        /\ queue'[Len(queue) - n + 1] = entry
    <2>0. kept \in Seq(EntryType) /\ entry \in EntryType
      BY <1>5, <1>6
    <2>1. /\ Append(kept, entry) \in Seq(EntryType)
          /\ Append(kept, entry) # <<>>
          /\ Len(Append(kept, entry)) = Len(kept) + 1
          /\ \A i \in 1 .. Len(kept) : Append(kept, entry)[i] = kept[i]
          /\ Append(kept, entry)[Len(kept) + 1] = entry
      BY <2>0, AppendProperties, Zenon
    <2>2. Len(queue) - n \in Nat
      BY <1>3
    <2> QED BY <1>5, <1>7, <2>1, <2>2
  <1>9. /\ Len(queue) <= Len(asked) /\ LeftRing \in Nat
        /\ LeftRing' = LeftRing + n /\ LeftRing + n \in Nat
        /\ LeftRing + n <= Len(asked)
        /\ Taken' = Taken /\ Taken \in Nat /\ Taken <= LeftRing
    <2>1. Len(queue) <= Len(asked) /\ Taken <= LeftRing
      BY DEF RingIsTail, LossCounted
    <2>2. Taken' = Taken /\ Taken \in Nat
      BY <1>2, <1>3 DEF Taken
    <2>3. LeftRing' = LeftRing + n /\ LeftRing \in Nat
      <3>1. Len(asked') = Len(asked) + 1 /\ Len(queue') = Len(queue) - n + 1
        BY <1>4, <1>8
      <3>2. Len(asked) \in Nat /\ Len(queue) \in Nat
        BY <1>3
      <3> DEFINE a == Len(asked)
                 q == Len(queue)
      <3>3. LeftRing' = (a + 1) - (q - n + 1) /\ LeftRing = a - q
        BY <3>1 DEF LeftRing
      <3> HIDE DEF a, q, WriterInv
      <3> QED BY <2>1, <3>2, <3>3 DEF a, q
    <2> QED BY <1>3, <2>1, <2>2, <2>3 DEF LeftRing
  <1>10. RingIsTail'
    <2>1. ASSUME NEW i \in 1 .. Len(queue')
          PROVE  queue'[i].id = LeftRing' + i /\ queue'[i].kind = asked'[LeftRing' + i]
      <3> DEFINE m == Len(queue)
      <3>0. m \in Nat /\ n \in 0 .. m /\ i \in 1 .. m - n + 1
        BY <1>3, <1>8
      <3>1. CASE i = Len(queue) - n + 1
        <4>1. LeftRing' + i = Len(asked) + 1
          BY <1>3, <1>9, <3>0, <3>1 DEF LeftRing
        <4> QED BY <1>4, <1>6, <1>8, <3>1, <4>1
      <3>2. CASE i # Len(queue) - n + 1
        <4>1. i \in 1 .. Len(queue) - n /\ n + i \in 1 .. Len(queue)
          <5> HIDE DEF m
          <5>1. i # m - n + 1
            BY <3>2 DEF m
          <5>2. i \in 1 .. m - n /\ n + i \in 1 .. m
            BY <3>0, <5>1
          <5> QED BY <5>2 DEF m
        <4>2. /\ queue[n + i].id = LeftRing + (n + i)
              /\ queue[n + i].kind = asked[LeftRing + (n + i)]
          BY <4>1 DEF RingIsTail
        <4>3. LeftRing + (n + i) \in 1 .. Len(asked)
          BY <1>3, <1>9, <4>1 DEF LeftRing
        <4>4. asked'[LeftRing + (n + i)] = asked[LeftRing + (n + i)]
          BY <1>4, <4>3
        <4>5. LeftRing' + i = LeftRing + (n + i)
          BY <1>9, <4>1
        <4> QED BY <1>8, <4>1, <4>2, <4>4, <4>5
      <3> QED BY <3>1, <3>2
    <2>2. Len(queue') <= Len(asked')
      BY <1>3, <1>4, <1>8, <1>9
    <2> QED BY <2>1, <2>2 DEF RingIsTail
  <1>11. overwritten' = LossIn(asked', Taken' + 1, LeftRing')
    <2>1. overwritten = LossIn(asked, Taken + 1, LeftRing)
      BY DEF LossCounted
    <2>2. \A i \in 1 .. Len(queue) : queue[i].kind = asked[LeftRing + i]
      BY DEF RingIsTail
    <2>3. Taken + 1 \in Nat \ {0} /\ Taken + 1 <= LeftRing + 1
      BY <1>9
    <2>4. overwritten' = LossIn(asked, Taken + 1, LeftRing + n)
      BY <1>1, <1>3, <1>9, <2>1, <2>2, <2>3, LossAdds
    <2>5. LossIn(Append(asked, kind), Taken + 1, LeftRing + n)
            = LossIn(asked, Taken + 1, LeftRing + n)
      BY <1>3, <1>9, <2>3, LossKept
    <2> QED BY <1>2, <1>9, <2>4, <2>5
  <1>12. LossCounted'
    BY <1>8, <1>9, <1>11 DEF LossCounted
  <1>13. HandTrue'
    <2>1. ASSUME hand.entry.id # 0
          PROVE  /\ hand.entry.id \in settled + 1 .. Len(asked')
                 /\ hand.entry.kind = asked'[hand.entry.id]
                 /\ hand.overwritten = LossIn(asked', settled + 1, hand.entry.id - 1)
      <3>1. /\ hand.entry.id \in settled + 1 .. Len(asked)
            /\ hand.entry.kind = asked[hand.entry.id]
            /\ hand.overwritten = LossIn(asked, settled + 1, hand.entry.id - 1)
        BY <2>1 DEF HandTrue
      <3>2. /\ hand.entry.id \in 1 .. Len(asked)
            /\ settled + 1 \in Nat \ {0} /\ hand.entry.id - 1 \in Int
            /\ hand.entry.id - 1 <= Len(asked)
        BY <1>3, <3>1
      <3>3. LossIn(Append(asked, kind), settled + 1, hand.entry.id - 1)
              = LossIn(asked, settled + 1, hand.entry.id - 1)
        BY <1>3, <3>2, LossKept
      <3> QED BY <1>2, <1>3, <1>4, <3>1, <3>2, <3>3
    <2> QED BY <1>2, <2>1 DEF HandTrue, EMPTY_HAND, NO_ENTRY, NOTHING_OVERWRITTEN
  <1>14. EndIsLast'
    BY <1>2 DEF EndIsLast
  <1>15. WriterTypeOK'
    <2>1. overwritten' \in LostType
      <3>1. Taken' + 1 \in Int /\ LeftRing' \in Int
        BY <1>9
      <3> QED BY <1>11, <3>1, LossTyped
    <2> QED BY <1>2, <1>4, <1>8, <2>1 DEF WriterTypeOK
  <1> QED BY <1>10, <1>12, <1>13, <1>14, <1>15

\* The steps that only move one of the two threads.
LEMMA MoveInv ==
  ASSUME WriterInv, UNCHANGED <<asked, settled, out, queue, overwritten, hand>>,
         WriterTypeOK', EndIsLast', pc' # "WRITING" => hand = EMPTY_HAND
  PROVE  WriterInv'
  <1>1. LeftRing' = LeftRing /\ Taken' = Taken
    BY DEF LeftRing, Taken
  <1>2. RingIsTail' /\ LossCounted'
    BY <1>1 DEF WriterInv, RingIsTail, LossCounted
  <1>3. HandTrue'
    BY DEF WriterInv, HandTrue, EMPTY_HAND, NO_ENTRY, NOTHING_OVERWRITTEN
  <1> QED BY <1>2, <1>3 DEF WriterInv

\* The steps of the main thread that ask for the end keep the invariant.
LEMMA MainInv == ASSUME WriterInv, AskStop \/ Join \/ Exit PROVE WriterInv'
  <1>1. UNCHANGED <<asked, settled, out, queue, overwritten, hand, pc>>
    BY DEF AskStop, Join, Exit
  <1>2. WriterTypeOK'
    BY <1>1 DEF WriterInv, WriterTypeOK, AskStop, Join, Exit
  <1>3. EndIsLast'
    BY <1>1 DEF WriterInv, EndIsLast, AskStop, Join, Exit
  <1>4. pc' # "WRITING" => hand = EMPTY_HAND
    BY <1>1 DEF WriterInv, HandTrue
  <1> QED BY <1>1, <1>2, <1>3, <1>4, MoveInv

\* The writer takes an entry, or wakes to an empty ring.
LEMMA TakeInv ==
  ASSUME WriterInv, pc \in {"LOOKING", "WAITING"}, TakeEntry,
         UNCHANGED <<asked, settled, out, stop, main>>
  PROVE  WriterInv'
  <1> USE DEF WriterInv
  <1>1. /\ asked \in Seq(Kinds) /\ queue \in Seq(EntryType) /\ settled \in Nat
        /\ overwritten \in LostType
    BY DEF WriterTypeOK
  <1>2. hand = EMPTY_HAND /\ Taken = settled
    BY DEF HandTrue, Taken, EMPTY_HAND, NO_ENTRY
  <1>3. /\ Len(queue) <= Len(asked) /\ LeftRing \in Nat /\ settled <= LeftRing
        /\ LeftRing = Len(asked) - Len(queue)
        /\ overwritten = LossIn(asked, settled + 1, LeftRing)
        /\ (queue = <<>> => settled = LeftRing)
    BY <1>1, <1>2 DEF RingIsTail, LossCounted, LeftRing
  <1>4. overwritten' = NOTHING_OVERWRITTEN /\ pc' = "WRITING"
    BY DEF TakeEntry
  <1>5. EndIsLast'
    BY <1>4 DEF EndIsLast
  <1>6. NOTHING_OVERWRITTEN \in LostType
    BY DEF NOTHING_OVERWRITTEN, LostType
  <1>7. CASE queue = <<>>
    <2>1. LossIn(asked, settled + 1, (settled + 1) - 1) = NOTHING_OVERWRITTEN
      BY <1>1, settled + 1 \in Int, LossNone
    <2>2. overwritten = NOTHING_OVERWRITTEN
      BY <1>1, <1>3, <1>7, <2>1
    <2>3. hand' = EMPTY_HAND /\ queue' = queue
      BY <1>7, <2>2 DEF TakeEntry, EMPTY_HAND
    <2>4. LeftRing' = LeftRing /\ Taken' = Taken
      BY <1>2, <2>3 DEF LeftRing, Taken
    <2>5. WriterTypeOK'
      BY <1>2, <1>4, <1>6, <2>3 DEF WriterTypeOK
    <2>6. RingIsTail' /\ LossCounted'
      BY <1>4, <2>2, <2>3, <2>4 DEF RingIsTail, LossCounted
    <2>7. HandTrue'
      BY <2>3 DEF HandTrue, EMPTY_HAND, NO_ENTRY
    <2> QED BY <1>5, <2>5, <2>6, <2>7
  <1>8. CASE queue # <<>>
    <2>1. /\ queue' = Tail(queue)
          /\ hand' = [entry |-> [id |-> Head(queue).id, kind |-> Head(queue).kind],
                      overwritten |-> overwritten]
      BY <1>8 DEF TakeEntry
    <2>2. Len(queue) \in Nat \ {0} /\ Head(queue) = queue[1]
      BY <1>1, <1>8
    <2>3. /\ queue' \in Seq(EntryType) /\ Len(queue') = Len(queue) - 1
          /\ \A i \in 1 .. Len(queue) - 1 : queue'[i] = queue[i + 1]
      BY <1>1, <1>8, <2>1, HeadTailProperties
    <2>4. /\ hand'.entry.id = LeftRing + 1
          /\ hand'.entry.kind = asked[LeftRing + 1]
          /\ hand'.overwritten = overwritten
      BY <2>1, <2>2 DEF RingIsTail
    <2>5. LeftRing' = LeftRing + 1 /\ LeftRing + 1 <= Len(asked)
      BY <1>1, <1>3, <2>2, <2>3 DEF LeftRing
    <2>6. Taken' = LeftRing + 1
      BY <1>3, <2>4 DEF Taken
    <2>7. RingIsTail'
      <3>1. ASSUME NEW i \in 1 .. Len(queue')
            PROVE  /\ queue'[i].id = LeftRing' + i
                   /\ queue'[i].kind = asked[LeftRing' + i]
        <4>1. i + 1 \in 1 .. Len(queue) /\ queue'[i] = queue[i + 1]
          BY <2>2, <2>3
        <4>2. /\ queue[i + 1].id = LeftRing + (i + 1)
              /\ queue[i + 1].kind = asked[LeftRing + (i + 1)]
          BY <4>1 DEF RingIsTail
        <4>3. LeftRing + (i + 1) = LeftRing' + i
          BY <1>3, <2>5, <4>1
        <4> QED BY <4>1, <4>2, <4>3
      <3>2. Len(queue') <= Len(asked)
        BY <1>1, <1>3, <2>2, <2>3
      <3> QED BY <3>1, <3>2 DEF RingIsTail
    <2>8. LossIn(asked, (LeftRing + 1) + 1, ((LeftRing + 1) + 1) - 1) = NOTHING_OVERWRITTEN
      BY <1>3, (LeftRing + 1) + 1 \in Int, LossNone
    <2>9. ((LeftRing + 1) + 1) - 1 = LeftRing + 1
      BY <1>3
    <2>10. LossCounted'
      BY <1>3, <1>4, <2>5, <2>6, <2>8, <2>9 DEF LossCounted
    <2>11. HandTrue'
      <3>1. (LeftRing + 1) - 1 = LeftRing /\ LeftRing + 1 \in settled + 1 .. Len(asked)
        BY <1>1, <1>3, <2>5
      <3> QED BY <1>3, <1>4, <2>4, <3>1 DEF HandTrue
    <2>12. WriterTypeOK'
      <3>1. asked[LeftRing + 1] \in Kinds
        BY <1>1, <1>3, <2>5
      <3>2. hand' \in [entry : [id : Nat, kind : Kinds], overwritten : LostType]
        BY <1>1, <1>3, <2>1, <2>4, <3>1
      <3> QED BY <1>4, <1>6, <2>3, <3>2 DEF WriterTypeOK
    <2> QED BY <1>5, <2>7, <2>10, <2>11, <2>12
  <1> QED BY <1>7, <1>8

\* The top of the writer's loop and the end of its wait keep the invariant.
LEMMA LoopInv == ASSUME WriterInv, LoopTop \/ WaitEnds PROVE WriterInv'
  <1>1. ASSUME LoopTop, ~TakeEntry PROVE WriterInv'
    <2>1. /\ UNCHANGED <<asked, settled, out, queue, overwritten, hand, stop, main>>
          /\ \/ pc' = "ENDED" /\ ends(queue)
             \/ pc' = "WAITING"
          /\ pc = "LOOKING"
      BY <1>1 DEF LoopTop
    <2>2. WriterTypeOK'
      BY <2>1 DEF WriterInv, WriterTypeOK
    <2>3. EndIsLast'
      BY <2>1 DEF WriterInv, EndIsLast, ends
    <2>4. pc' # "WRITING" => hand = EMPTY_HAND
      BY <2>1 DEF WriterInv, HandTrue
    <2> QED BY <2>1, <2>2, <2>3, <2>4, MoveInv
  <1>2. ASSUME LoopTop, TakeEntry PROVE WriterInv'
    BY <1>2, TakeInv DEF LoopTop
  <1>3. ASSUME WaitEnds PROVE WriterInv'
    BY <1>3, TakeInv DEF WaitEnds
  <1> QED BY <1>1, <1>2, <1>3

-----------------------------------------------------------------------------
(* What one round writes is what LossyLog settles.                          *)

\* The abstract log counts what the writer counts.
LEMMA LogCount ==
  ASSUME NEW first, NEW last, NEW k
  PROVE  Log!Count(first, last, k) = CountIn(asked, first, last, k)
  BY DEF Log!Count, CountIn, Of, Cardinality, Log!Cardinality

\* Appending is associative.
LEMMA Regroup == \A s, t, u \in Seq(OutputType) : (s \o t) \o u = s \o (t \o u)
  <1> SUFFICES ASSUME NEW T PROVE \A s, t, u \in Seq(T) : (s \o t) \o u = s \o (t \o u)
    OBVIOUS
  <1> QED BY ConcatAssociative

\* Output appended to output is output.
LEMMA Appended == \A s, t \in Seq(OutputType) : s \o t \in Seq(OutputType)
  <1> SUFFICES ASSUME NEW T PROVE \A s, t \in Seq(T) : s \o t \in Seq(T)
    OBVIOUS
  <1> QED BY ConcatProperties

\* A write with an entry in hand settles it, after what was skipped before it.
LEMMA WriteSettles ==
  ASSUME WriterInv, Write, hand.entry.id # 0
  PROVE  /\ Log!Settle(hand.entry.id) /\ hand.entry.id \in 1 .. Len(asked)
         /\ out' \in Seq(OutputType)
  <1> DEFINE id == hand.entry.id
             lost == hand.overwritten
             exported == IF lost.export THEN <<[kind |-> "EXPORT"]>> ELSE <<>>
             emptied == IF lost.reset THEN <<[kind |-> "RESET"]>> ELSE <<>>
             note == Log!Note(lost.lines, lost.syslog)
             entry == <<[kind |-> asked[id], id |-> id]>>
  <1>1. /\ asked \in Seq(Kinds) /\ out \in Seq(OutputType) /\ settled \in Nat
        /\ hand \in [entry : [id : Nat, kind : Kinds], overwritten : LostType]
    BY DEF WriterInv, WriterTypeOK
  <1>2. /\ id \in settled + 1 .. Len(asked) /\ hand.entry.kind = asked[id]
        /\ lost = LossIn(asked, settled + 1, id - 1)
    BY DEF WriterInv, HandTrue
  <1>3. id \in 1 .. Len(asked) /\ asked[id] \in Kinds /\ id \in Nat
    BY <1>1, <1>2
  <1>4. hand.entry # NO_ENTRY
    BY DEF NO_ENTRY
  <1>5. lost.lines \in Nat /\ lost.syslog \in Nat
    BY <1>1 DEF LostType
  <1>6. /\ exported \in Seq(OutputType) /\ emptied \in Seq(OutputType)
        /\ note \in Seq(OutputType) /\ entry \in Seq(OutputType)
    <2>1. /\ [kind |-> "EXPORT"] \in OutputType /\ [kind |-> "RESET"] \in OutputType
          /\ [kind |-> "NOTE", lines |-> lost.lines, syslog |-> lost.syslog]
               \in OutputType
          /\ [kind |-> asked[id], id |-> id] \in OutputType
      <3> HIDE DEF id, lost
      <3> QED BY <1>3, <1>5 DEF OutputType, Requests
    <2>2. \A e \in OutputType : <<e>> \in Seq(OutputType)
      OBVIOUS
    <2>3. <<>> \in Seq(OutputType)
      OBVIOUS
    <2> HIDE DEF id, lost
    <2>4. note \in Seq(OutputType)
      BY <2>1, <2>2, <2>3, Zenon DEF Log!Note
    <2> QED BY <2>1, <2>2, <2>3, <2>4, Zenon
  <1>7. /\ Log!Once("EXPORT", Log!Count(settled + 1, id - 1, "EXPORT")) = exported
        /\ Log!Once("RESET", Log!Count(settled + 1, id - 1, "RESET")) = emptied
        /\ Log!Note(Log!Count(settled + 1, id - 1, "LINE"),
                    Log!Count(settled + 1, id - 1, "SYSLOG")) = note
    <2>1. \A k : Log!Count(settled + 1, id - 1, k) = CountIn(asked, settled + 1, id - 1, k)
      BY LogCount, Zenon
    <2>2. settled + 1 \in Int /\ id - 1 \in Int
      BY <1>1, <1>3
    <2>3. \A k : CountIn(asked, settled + 1, id - 1, k) > 0
                   <=> OneIn(asked, settled + 1, id - 1, k)
      BY <2>2, CountNat, Zenon
    <2>4. /\ (lost.export <=> OneIn(asked, settled + 1, id - 1, "EXPORT"))
          /\ (lost.reset <=> OneIn(asked, settled + 1, id - 1, "RESET"))
          /\ lost.lines = CountIn(asked, settled + 1, id - 1, "LINE")
          /\ lost.syslog = CountIn(asked, settled + 1, id - 1, "SYSLOG")
      <3> HIDE DEF id, lost
      <3> QED BY <1>2 DEF LossIn
    <2> HIDE DEF id, lost
    <2> QED BY <2>1, <2>3, <2>4, Zenon DEF Log!Once
  <1>8. Written(hand) = ((exported \o emptied) \o note) \o entry
    <2>1. [kind |-> hand.entry.kind, id |-> hand.entry.id] = [kind |-> asked[id], id |-> id]
      BY <1>2
    <2> QED BY <1>4, <2>1, Zenon DEF Written
  <1>9. Log!Skipped(settled + 1, id - 1) = (exported \o emptied) \o note
    <2> HIDE DEF id, exported, emptied, note
    <2> QED BY <1>7, Zenon DEF Log!Skipped
  <1> HIDE DEF id, lost, exported, emptied, note, entry
  <1>10. /\ (exported \o emptied) \o note \in Seq(OutputType)
         /\ ((exported \o emptied) \o note) \o entry \in Seq(OutputType)
    <2>1. \A s, t \in Seq(OutputType) : s \o t \in Seq(OutputType)
      BY Appended
    <2>2. exported \o emptied \in Seq(OutputType)
      BY <1>6, <2>1, Zenon
    <2>3. (exported \o emptied) \o note \in Seq(OutputType)
      BY <1>6, <2>1, <2>2, Zenon
    <2> QED BY <1>6, <2>1, <2>3, Zenon
  <1>11. out \o (((exported \o emptied) \o note) \o entry)
           = (out \o ((exported \o emptied) \o note)) \o entry
    <2> DEFINE before == (exported \o emptied) \o note
    <2>1. before \in Seq(OutputType)
      BY <1>10
    <2> HIDE DEF before
    <2>2. out \in Seq(OutputType) /\ entry \in Seq(OutputType)
      BY <1>1, <1>6
    <2>3. (out \o before) \o entry = out \o (before \o entry)
      BY <2>1, <2>2, Regroup, Zenon
    <2> QED BY <2>3, Zenon DEF before
  <1>12. out' = out \o Written(hand) /\ settled' = id /\ asked' = asked
    BY <1>4 DEF Write, id
  <1>13. out' \in Seq(OutputType)
    <2>1. Written(hand) \in Seq(OutputType)
      BY <1>8, <1>10, Zenon
    <2>2. out \o Written(hand) \in Seq(OutputType)
      BY <1>1, <2>1, Appended, Zenon
    <2> QED BY <1>12, <2>2, Zenon
  <1>14. out' = out \o Log!Skipped(settled + 1, id - 1) \o <<[kind |-> asked[id], id |-> id]>>
    BY <1>8, <1>9, <1>11, <1>12 DEF entry
  <1>15. Log!Settle(id)
    BY <1>2, <1>12, <1>14 DEF Log!Settle
  <1> QED BY <1>3, <1>13, <1>15 DEF id

\* A write with an empty hand writes nothing.
LEMMA WriteStutters ==
  ASSUME WriterInv, Write, hand.entry.id = 0
  PROVE  UNCHANGED <<asked, settled, out>>
  <1>1. hand = EMPTY_HAND /\ hand.entry = NO_ENTRY /\ out \in Seq(OutputType)
    BY DEF WriterInv, HandTrue, WriterTypeOK, EMPTY_HAND
  <1>2. Log!Note(0, 0) = <<>>
    BY DEF Log!Note
  <1>3. Written(hand) = ((<<>> \o <<>>) \o <<>>) \o <<>>
    BY <1>1, <1>2 DEF Written, EMPTY_HAND, NOTHING_OVERWRITTEN
  <1>4. Written(hand) = <<>>
    BY <1>3
  <1>5. out \o <<>> = out
    BY <1>1
  <1> QED BY <1>1, <1>4, <1>5 DEF Write

\* Writing one entry keeps the invariant.
LEMMA WriteInv == ASSUME WriterInv, Write PROVE WriterInv'
  <1>1. /\ pc = "WRITING" /\ hand' = EMPTY_HAND /\ pc' = "LOOKING"
        /\ UNCHANGED <<asked, queue, overwritten, stop, main>>
        /\ settled' = IF hand.entry = NO_ENTRY THEN settled ELSE hand.entry.id
    BY DEF Write
  <1>2. LeftRing' = LeftRing
    BY <1>1 DEF LeftRing
  <1>3. settled' = Taken /\ Taken \in Nat
    <2>1. hand.entry.id = 0 <=> hand.entry = NO_ENTRY
      BY DEF WriterInv, HandTrue, EMPTY_HAND, NO_ENTRY
    <2> QED BY <1>1, <2>1 DEF Taken, WriterInv, WriterTypeOK
  <1>4. Taken' = Taken
    BY <1>1, <1>3 DEF Taken, EMPTY_HAND, NO_ENTRY
  <1>5. EMPTY_HAND \in [entry : [id : Nat, kind : Kinds], overwritten : LostType]
    BY DEF EMPTY_HAND, NO_ENTRY, NOTHING_OVERWRITTEN, LostType, Kinds
  <1>6. out' \in Seq(OutputType)
    BY WriteSettles, WriteStutters DEF WriterInv, WriterTypeOK
  <1>7. WriterTypeOK'
    BY <1>1, <1>3, <1>5, <1>6 DEF WriterInv, WriterTypeOK
  <1>8. RingIsTail' /\ LossCounted'
    BY <1>1, <1>2, <1>4 DEF WriterInv, RingIsTail, LossCounted
  <1>9. HandTrue'
    BY <1>1 DEF HandTrue, EMPTY_HAND, NO_ENTRY
  <1>10. EndIsLast'
    BY <1>1 DEF WriterInv, EndIsLast
  <1> QED BY <1>7, <1>8, <1>9, <1>10 DEF WriterInv

-----------------------------------------------------------------------------
(* The theorems.                                                            *)

\* The assumptions on the constants, as the proofs use them.
LEMMA EntriesTyped ==
  EntryBytes \subseteq Nat /\ RequestBytes \in Nat /\ Requests \subseteq Kinds
    /\ {"LINE", "SYSLOG"} \subseteq Kinds
  BY WriterAssumption DEF Requests, Kinds

\* A stutter keeps the invariant.
LEMMA WriterStutter == ASSUME WriterInv, UNCHANGED vars PROVE WriterInv'
  <1>1. UNCHANGED <<asked, settled, out, queue, overwritten, hand, pc, stop, main>>
    BY DEF vars
  <1>2. LeftRing' = LeftRing /\ Taken' = Taken
    BY <1>1 DEF LeftRing, Taken
  <1> QED BY <1>1, <1>2 DEF WriterInv, WriterTypeOK, RingIsTail, LossCounted, HandTrue,
        EndIsLast, EMPTY_HAND, NO_ENTRY, NOTHING_OVERWRITTEN

\* Every step of the two threads, and every stutter, keeps the invariant.
LEMMA WriterStep == ASSUME WriterInv, [Next]_vars PROVE WriterInv'
  <1>1. ASSUME NEW kind \in {"LINE", "SYSLOG"}, NEW bytes \in EntryBytes,
               writer_queue(kind, bytes)
        PROVE  WriterInv'
    BY <1>1, QueueInv, EntriesTyped
  <1>2. ASSUME NEW kind \in Requests, writer_queue(kind, RequestBytes) PROVE WriterInv'
    BY <1>2, QueueInv, EntriesTyped
  <1>3. ASSUME AskStop \/ Join \/ Exit PROVE WriterInv'
    BY <1>3, MainInv
  <1>4. ASSUME LoopTop \/ WaitEnds PROVE WriterInv'
    BY <1>4, LoopInv
  <1>5. ASSUME Write PROVE WriterInv'
    BY <1>5, WriteInv
  <1>6. ASSUME UNCHANGED vars PROVE WriterInv'
    BY <1>6, WriterStutter
  <1> QED BY <1>1, <1>2, <1>3, <1>4, <1>5, <1>6, Zenon DEF Next, Main, Writer

\* Whatever the order of the two threads' steps, the ring holds the entries
\* asked for last, and what was overwritten is counted exactly between the
\* entry the writer has and the first in the ring (logging/writer.c).
THEOREM WriterInvariance == Spec => []WriterInv
  <1>1. WriterInv /\ [Next]_vars => WriterInv'
    BY WriterStep
  <1> QED BY InitInv, <1>1, PTL DEF Spec

\* Every step of the two threads is a step of the promise, or changes nothing
\* it speaks of.
LEMMA StepKeepsPromise ==
  ASSUME WriterInv, [Next]_vars PROVE [Log!Next]_<<asked, settled, out>>
  <1>1. ASSUME NEW kind \in Kinds, NEW bytes, writer_queue(kind, bytes) PROVE Log!Next
    <2>1. Log!Ask(kind)
      BY <1>1 DEF writer_queue, Log!Ask
    <2> QED BY <2>1 DEF Log!Next, Log!Kinds, Kinds
  <1>2. ASSUME NEW kind \in {"LINE", "SYSLOG"}, NEW bytes \in EntryBytes,
               writer_queue(kind, bytes)
        PROVE  Log!Next
    BY <1>1, <1>2, EntriesTyped
  <1>3. ASSUME NEW kind \in Requests, writer_queue(kind, RequestBytes) PROVE Log!Next
    BY <1>1, <1>3, EntriesTyped
  <1>4. ASSUME AskStop \/ Join \/ Exit \/ LoopTop \/ WaitEnds
        PROVE  UNCHANGED <<asked, settled, out>>
    BY <1>4 DEF AskStop, Join, Exit, LoopTop, WaitEnds
  <1>5. ASSUME Write PROVE Log!Next \/ UNCHANGED <<asked, settled, out>>
    <2>1. CASE hand.entry.id = 0
      BY <1>5, <2>1, WriteStutters
    <2>2. CASE hand.entry.id # 0
      <3>1. Log!Settle(hand.entry.id) /\ hand.entry.id \in 1 .. Len(asked)
        BY <1>5, <2>2, WriteSettles
      <3> QED BY <3>1 DEF Log!Next
    <2> QED BY <2>1, <2>2
  <1>6. ASSUME UNCHANGED vars PROVE UNCHANGED <<asked, settled, out>>
    BY <1>6 DEF vars
  <1> QED BY <1>2, <1>3, <1>4, <1>5, <1>6, Zenon DEF Next, Main, Writer

\* The writer keeps the promise of LossyLog: entries are carried out in order
\* and once, and each one that is overwritten is counted, or carried out, in
\* the place where it went missing (the comment at logging/writer.c:25-33).
THEOREM WriterKeepsPromise == Spec => KeepsPromise
  <1>1. Init => Log!Init
    BY DEF Init, Log!Init
  <1>2. WriterInv /\ [Next]_vars => [Log!Next]_<<asked, settled, out>>
    BY StepKeepsPromise
  <1> QED BY <1>1, <1>2, WriterInvariance, PTL DEF Spec, KeepsPromise, Log!Spec

\* A writer that was joined has left nothing: everything asked for is written,
\* counted or carried out, and nothing is in its hand (writer_stop).
THEOREM JoinedWasSettled == Spec => []JoinedIsSettled
  <1>1. WriterInv => JoinedIsSettled
    <2> SUFFICES ASSUME WriterInv, main = "JOINED" PROVE JoinedIsSettled
      BY DEF JoinedIsSettled
    <2>1. queue = <<>> /\ hand = EMPTY_HAND
      BY DEF WriterInv, EndIsLast, HandTrue
    <2>2. Taken = settled /\ LeftRing = Len(asked) /\ Taken = LeftRing
      BY <2>1 DEF Taken, LeftRing, EMPTY_HAND, NO_ENTRY, WriterInv, LossCounted, WriterTypeOK
    <2>3. settled \in Nat /\ settled = Len(asked)
      BY <2>2 DEF WriterInv, WriterTypeOK
    <2>4. overwritten = LossIn(asked, settled + 1, (settled + 1) - 1)
      <3>1. (settled + 1) - 1 = LeftRing
        BY <2>2, <2>3
      <3> QED BY <2>2, <3>1 DEF WriterInv, LossCounted
    <2>5. overwritten = NOTHING_OVERWRITTEN
      BY <2>3, <2>4, settled + 1 \in Int, LossNone
    <2> QED BY <2>1, <2>3, <2>5 DEF JoinedIsSettled
  <1> QED BY <1>1, WriterInvariance, PTL

-----------------------------------------------------------------------------
(* The log file: what it keeps stays in order, whichever copies fail and   *)
(* wherever the process is killed.                                         *)

FileType ==
  [open : BOOLEAN, buffer : Seq(Nat), size : Nat,
   step : {"IDLE", "ROTATE", "COPY", "TRUNCATE", "RESET"}]
LoggedType ==
  [last : Nat, current : SUBSET Nat, ended : SUBSET Nat, failures : Nat]

LogFileTypeOK ==
  /\ log_file \in FileType
  /\ active \in Seq(Nat) /\ previous \in Seq(Nat)
  /\ export \in [lines : Seq(Nat), good : BOOLEAN]
  /\ logged \in LoggedType

\* The lines of a file are in the order they were written, headers aside.
Rising(file) ==
  \A i, j \in 1 .. Len(file) :
    i < j /\ file[i] # HEADER /\ file[j] # HEADER => file[i] < file[j]

Before(earlier, later) == \A a \in earlier, b \in later : a < b

\* Active file, buffer and previous file hold lines up to last, in order: a line
\* of the previous file is older than all the others, or one of the active file's.
InOrder(file, buffer, old, last) ==
  /\ Rising(file) /\ Rising(buffer) /\ Rising(old)
  /\ Before(Lines(file), Lines(buffer))
  /\ Lines(file) \cup Lines(buffer) \cup Lines(old) \subseteq 1 .. last
  /\ \A a \in Lines(old) :
       a \in Lines(file) \/ Before({a}, Lines(file) \cup Lines(buffer))

\* What is current is what the active file and the buffer hold.
CurrentHeld == logged.current = Lines(active) \cup Lines(log_file.buffer)

\* What the steps of a rotation have done so far.
StepsDone ==
  /\ ~log_file.open => log_file.buffer = << >> /\ log_file.step = "IDLE"
  /\ log_file.step \in {"COPY", "TRUNCATE"} => log_file.buffer = << >>
  /\ log_file.step = "COPY" => logged.ended = {}
  /\ log_file.step = "TRUNCATE" => previous = active

LogFileInv ==
  /\ LogFileTypeOK
  /\ InOrder(active, log_file.buffer, previous, logged.last)
  /\ CurrentHeld
  /\ StepsDone
  /\ EndedKept

\* What a file holds, place by place.
LEMMA SomePlace ==
  ASSUME NEW s \in Seq(Nat), NEW n
  PROVE  n \in ToSet(s) <=> \E i \in 1 .. Len(s) : s[i] = n
  <1>1. DOMAIN s = 1 .. Len(s) OBVIOUS
  <1> QED BY <1>1 DEF ToSet

\* The lines of two files, one behind the other.
LEMMA LinesConcat ==
  ASSUME NEW s \in Seq(Nat), NEW t \in Seq(Nat)
  PROVE  s \o t \in Seq(Nat) /\ Lines(s \o t) = Lines(s) \cup Lines(t)
  <1>1. /\ s \o t \in Seq(Nat) /\ Len(s \o t) = Len(s) + Len(t)
        /\ \A i \in 1 .. Len(s) + Len(t) :
             (s \o t)[i] = IF i <= Len(s) THEN s[i] ELSE t[i - Len(s)]
    BY ConcatProperties
  <1>2. ASSUME NEW n \in ToSet(s \o t) PROVE n \in ToSet(s) \cup ToSet(t)
    <2>1. PICK i \in 1 .. Len(s) + Len(t) : (s \o t)[i] = n BY <1>1, <1>2, SomePlace
    <2>2. CASE i <= Len(s) BY <1>1, <2>1, <2>2 DEF ToSet
    <2>3. CASE i > Len(s)
      <3>1. i - Len(s) \in 1 .. Len(t) /\ t[i - Len(s)] = n BY <1>1, <2>1, <2>3
      <3>2. QED BY <3>1 DEF ToSet
    <2> QED BY <2>1, <2>2, <2>3
  <1>3. ASSUME NEW n \in ToSet(s) PROVE n \in ToSet(s \o t)
    <2>1. PICK i \in 1 .. Len(s) : s[i] = n BY <1>3, SomePlace
    <2>2. i \in 1 .. Len(s \o t) /\ (s \o t)[i] = n BY <1>1, <2>1
    <2> QED BY <1>1, <2>2, SomePlace
  <1>4. ASSUME NEW n \in ToSet(t) PROVE n \in ToSet(s \o t)
    <2>1. PICK i \in 1 .. Len(t) : t[i] = n BY <1>4 DEF ToSet
    <2>2. i + Len(s) \in 1 .. Len(s \o t) /\ (s \o t)[i + Len(s)] = n BY <1>1, <2>1
    <2> QED BY <1>1, <2>2, SomePlace
  <1>5. ToSet(s \o t) = ToSet(s) \cup ToSet(t) BY <1>2, <1>3, <1>4
  <1> QED BY <1>1, <1>5 DEF Lines

\* A file of one line and one of none.
LEMMA LinesShort ==
  /\ << >> \in Seq(Nat) /\ Lines(<< >>) = {} /\ Rising(<< >>)
  /\ \A n \in Nat : <<n>> \in Seq(Nat) /\ Lines(<<n>>) = {n} \ {HEADER} /\ Rising(<<n>>)
  BY DEF Lines, ToSet, Rising, HEADER

\* The lines of a file are numbers.
LEMMA LinesNat ==
  ASSUME NEW s \in Seq(Nat)
  PROVE  /\ Lines(s) \subseteq Nat \ {HEADER}
         /\ \A i \in 1 .. Len(s) : s[i] # HEADER => s[i] \in Lines(s)
  BY DEF Lines, ToSet, HEADER

\* Two files in order, one behind the other, are in order when they do not overlap.
LEMMA RisingConcat ==
  ASSUME NEW s \in Seq(Nat), NEW t \in Seq(Nat), Rising(s), Rising(t),
         Before(Lines(s), Lines(t))
  PROVE  Rising(s \o t)
  <1>1. /\ Len(s \o t) = Len(s) + Len(t)
        /\ \A i \in 1 .. Len(s) + Len(t) :
             (s \o t)[i] = IF i <= Len(s) THEN s[i] ELSE t[i - Len(s)]
    BY ConcatProperties
  <1> SUFFICES ASSUME NEW i \in 1 .. Len(s) + Len(t), NEW j \in 1 .. Len(s) + Len(t), i < j,
                      (s \o t)[i] # HEADER, (s \o t)[j] # HEADER
               PROVE  (s \o t)[i] < (s \o t)[j]
    BY <1>1 DEF Rising
  <1>2. Len(s) \in Nat /\ Len(t) \in Nat OBVIOUS
  <1>3. CASE j <= Len(s)
    <2>1. i \in 1 .. Len(s) /\ j \in 1 .. Len(s) BY <1>2, <1>3
    <2>2. (s \o t)[i] = s[i] /\ (s \o t)[j] = s[j] BY <1>1, <1>2, <1>3
    <2> QED BY <2>1, <2>2 DEF Rising
  <1>4. CASE i <= Len(s) /\ j > Len(s)
    <2>1. i \in 1 .. Len(s) /\ j - Len(s) \in 1 .. Len(t) BY <1>2, <1>4
    <2>2. (s \o t)[i] = s[i] /\ (s \o t)[j] = t[j - Len(s)] BY <1>1, <1>2, <1>4
    <2>3. s[i] \in Lines(s) /\ t[j - Len(s)] \in Lines(t) BY <2>1, <2>2, LinesNat
    <2> QED BY <2>2, <2>3 DEF Before
  <1>5. CASE i > Len(s)
    <2>1. /\ i - Len(s) \in 1 .. Len(t) /\ j - Len(s) \in 1 .. Len(t)
          /\ i - Len(s) < j - Len(s)
      BY <1>2, <1>5
    <2>2. (s \o t)[i] = t[i - Len(s)] /\ (s \o t)[j] = t[j - Len(s)] BY <1>1, <1>2, <1>5
    <2> QED BY <2>1, <2>2 DEF Rising
  <1> QED BY <1>2, <1>3, <1>4, <1>5

\* A copy, whole or cut short, holds lines of the file in their order.
LEMMA CopyOrder ==
  ASSUME NEW s \in Seq(Nat), NEW copy \in Copies(s)
  PROVE  /\ copy \in Seq(Nat) /\ Lines(copy) \subseteq Lines(s)
         /\ Rising(s) => Rising(copy)
  <1>1. PICK k \in 0 .. Len(s) : copy = SubSeq(s, 1, k) BY DEF Copies
  <1>2. /\ copy \in Seq(Nat) /\ Len(copy) = k
        /\ \A i \in 1 .. k : copy[i] = s[i]
    BY <1>1
  <1>3. 1 .. k \subseteq 1 .. Len(s) OBVIOUS
  <1>4. Lines(copy) \subseteq Lines(s) BY <1>2, <1>3 DEF Lines, ToSet
  <1>5. Rising(s) => Rising(copy) BY <1>2, <1>3 DEF Rising
  <1> QED BY <1>2, <1>4, <1>5

\* A flush moves the buffer behind the active file.
LEMMA OrderFlushed ==
  ASSUME NEW file \in Seq(Nat), NEW buffer \in Seq(Nat), NEW old \in Seq(Nat),
         NEW last \in Nat, InOrder(file, buffer, old, last)
  PROVE  InOrder(file \o buffer, << >>, old, last)
  <1>1. /\ Lines(file \o buffer) = Lines(file) \cup Lines(buffer)
        /\ Rising(file \o buffer)
    BY LinesConcat, RisingConcat DEF InOrder
  <1> QED BY <1>1, LinesShort DEF InOrder, Before

\* A new line goes into the buffer, behind all there is.
LEMMA OrderWritten ==
  ASSUME NEW file \in Seq(Nat), NEW buffer \in Seq(Nat), NEW old \in Seq(Nat),
         NEW last \in Nat, InOrder(file, buffer, old, last)
  PROVE  /\ InOrder(file, Append(buffer, last + 1), old, last + 1)
         /\ Append(buffer, last + 1) \in Seq(Nat)
         /\ Lines(Append(buffer, last + 1)) = Lines(buffer) \cup {last + 1}
  <1>1. last + 1 \in Nat /\ HEADER # last + 1 BY DEF HEADER
  <1>2. /\ <<last + 1>> \in Seq(Nat) /\ Lines(<<last + 1>>) = {last + 1}
        /\ Rising(<<last + 1>>)
    BY <1>1, LinesShort
  <1>3. Append(buffer, last + 1) = buffer \o <<last + 1>>
    BY <1>1, AppendIsConcat
  <1>4. Lines(buffer) \cup Lines(file) \cup Lines(old) \subseteq 1 .. last BY DEF InOrder
  <1>5. Before(Lines(buffer), Lines(<<last + 1>>))
    <2> SUFFICES ASSUME NEW a \in Lines(buffer), NEW b \in Lines(<<last + 1>>) PROVE a < b
      BY DEF Before
    <2>1. b = last + 1 /\ a \in 1 .. last BY <1>2, <1>4
    <2> QED BY <2>1
  <1>6. /\ buffer \o <<last + 1>> \in Seq(Nat)
        /\ Lines(buffer \o <<last + 1>>) = Lines(buffer) \cup {last + 1}
        /\ Rising(buffer \o <<last + 1>>)
    <2>1. Rising(buffer) BY DEF InOrder
    <2> QED BY <1>2, <1>5, <2>1, LinesConcat, RisingConcat
  <1> DEFINE more == buffer \o <<last + 1>>
  <1>7. more \in Seq(Nat) /\ Lines(more) = Lines(buffer) \cup {last + 1} /\ Rising(more)
    BY <1>6
  <1> HIDE DEF more
  <1>8. Before(Lines(file), Lines(more)) BY <1>4, <1>7 DEF InOrder, Before
  <1>9. \A a \in Lines(old) :
          a \in Lines(file) \/ Before({a}, Lines(file) \cup Lines(more))
    BY <1>4, <1>7 DEF InOrder, Before
  <1>10. Lines(file) \cup Lines(more) \cup Lines(old) \subseteq 1 .. (last + 1)
    BY <1>4, <1>7
  <1>11. InOrder(file, more, old, last + 1) BY <1>7, <1>8, <1>9, <1>10 DEF InOrder
  <1> QED BY <1>3, <1>6, <1>11 DEF more

\* It adds its number to what the buffer holds.
LEMMA LinesWritten ==
  ASSUME NEW buffer \in Seq(Nat), NEW last \in Nat
  PROVE  Lines(Append(buffer, last + 1)) = Lines(buffer) \cup {last + 1}
  <1>1. last + 1 \in Nat /\ HEADER # last + 1 BY DEF HEADER
  <1>2. <<last + 1>> \in Seq(Nat) /\ Lines(<<last + 1>>) = {last + 1}
    BY <1>1, LinesShort
  <1>3. Append(buffer, last + 1) = buffer \o <<last + 1>> BY <1>1, AppendIsConcat
  <1>4. Lines(buffer \o <<last + 1>>) = Lines(buffer) \cup Lines(<<last + 1>>)
    BY <1>2, LinesConcat
  <1> QED BY <1>2, <1>3, <1>4

\* Without a buffer it goes behind the active file at once.
LEMMA OrderWrittenThrough ==
  ASSUME NEW file \in Seq(Nat), NEW old \in Seq(Nat), NEW last \in Nat,
         InOrder(file, << >>, old, last), NEW line, line = last + 1
  PROVE  /\ InOrder(file \o <<line>>, << >>, old, line)
         /\ file \o <<line>> \in Seq(Nat)
         /\ Lines(file \o <<line>>) = Lines(file) \cup {line}
  <1> DEFINE none == << >>
             only == Append(none, last + 1)
  <1>1. none \in Seq(Nat) /\ InOrder(file, none, old, last) /\ Lines(none) = {}
    BY LinesShort
  <1>2. only = <<line>> OBVIOUS
  <1> HIDE DEF none
  <1>3. /\ InOrder(file, only, old, last + 1) /\ only \in Seq(Nat)
        /\ Lines(only) = Lines(none) \cup {last + 1}
    <2>1. InOrder(file, none, old, last) => InOrder(file, only, old, last + 1)
      BY <1>1, OrderWritten
    <2>2. only \in Seq(Nat) BY <1>1, OrderWritten
    <2>3. Lines(only) = Lines(none) \cup {last + 1} BY <1>1, LinesWritten
    <2> QED BY <1>1, <2>1, <2>2, <2>3
  <1> HIDE DEF only
  <1>4. /\ InOrder(file \o only, << >>, old, last + 1) /\ file \o only \in Seq(Nat)
        /\ Lines(file \o only) = Lines(file) \cup Lines(only)
    BY <1>3, OrderFlushed, LinesConcat
  <1> QED BY <1>1, <1>2, <1>3, <1>4

\* What is lost or given up disturbs no order: the buffer, or the previous file.
LEMMA OrderDropped ==
  ASSUME NEW file \in Seq(Nat), NEW buffer \in Seq(Nat), NEW old \in Seq(Nat),
         NEW last \in Nat, InOrder(file, buffer, old, last)
  PROVE  /\ InOrder(file, << >>, old, last) /\ InOrder(file, buffer, << >>, last)
         /\ InOrder(<<HEADER>>, << >>, old, last)
         /\ Lines(file) \cap Lines(buffer) = {}
  <1>1. /\ Lines(<<HEADER>>) = {} /\ Rising(<<HEADER>>) /\ Lines(<< >>) = {}
        /\ Rising(<< >>)
    BY LinesShort DEF HEADER
  <1>2. InOrder(file, << >>, old, last) /\ InOrder(file, buffer, << >>, last)
    BY <1>1 DEF InOrder, Before
  <1>3. InOrder(<<HEADER>>, << >>, old, last) BY <1>1 DEF InOrder, Before
  <1>4. Lines(file) \cap Lines(buffer) = {}
    <2> SUFFICES ASSUME NEW a \in Lines(file), a \in Lines(buffer) PROVE FALSE OBVIOUS
    <2>1. a < a BY DEF InOrder, Before
    <2>2. a \in Nat BY LinesNat
    <2> QED BY <2>1, <2>2
  <1> QED BY <1>2, <1>3, <1>4

\* A copy of the active file takes the place of the previous one.
LEMMA OrderCopied ==
  ASSUME NEW file \in Seq(Nat), NEW old \in Seq(Nat), NEW last \in Nat,
         InOrder(file, << >>, old, last), NEW copy \in Copies(file)
  PROVE  InOrder(file, << >>, copy, last)
  <1>1. Lines(copy) \subseteq Lines(file) /\ Rising(copy) BY CopyOrder DEF InOrder
  <1> QED BY <1>1 DEF InOrder

\* The headers of the next start are no lines.
LEMMA OrderOpened ==
  ASSUME NEW file \in Seq(Nat), NEW old \in Seq(Nat), NEW last \in Nat,
         InOrder(file, << >>, old, last)
  PROVE  /\ InOrder(file, <<HEADER>>, old, last)
         /\ InOrder(Append(file, HEADER), << >>, old, last)
         /\ Lines(Append(file, HEADER)) = Lines(file)
         /\ Lines(<<HEADER>>) = {} /\ Lines(<< >>) = {}
         /\ Append(file, HEADER) \in Seq(Nat)
  <1>1. /\ Lines(<<HEADER>>) = {} /\ Rising(<<HEADER>>) /\ Lines(<< >>) = {}
        /\ <<HEADER>> \in Seq(Nat) /\ HEADER \in Nat
    BY LinesShort DEF HEADER
  <1>2. InOrder(file, <<HEADER>>, old, last) BY <1>1 DEF InOrder, Before
  <1>3. Append(file, HEADER) = file \o <<HEADER>> BY <1>1, AppendIsConcat
  <1>4. InOrder(file \o <<HEADER>>, << >>, old, last) BY <1>1, <1>2, OrderFlushed
  <1>5. Lines(file \o <<HEADER>>) = Lines(file) /\ file \o <<HEADER>> \in Seq(Nat)
    <2> DEFINE header == <<HEADER>>
    <2>1. header \in Seq(Nat) /\ Lines(header) = {} BY <1>1
    <2> HIDE DEF header
    <2>2. /\ file \o header \in Seq(Nat)
          /\ Lines(file \o header) = Lines(file) \cup Lines(header)
      BY <2>1, LinesConcat
    <2> QED BY <2>1, <2>2 DEF header
  <1> QED BY <1>1, <1>2, <1>3, <1>4, <1>5

\* A log that has just been opened is in order.
LEMMA LogFileInitInv == LogFileInit => LogFileInv
  <1> SUFFICES ASSUME LogFileInit PROVE LogFileInv OBVIOUS
  <1> USE LinesShort
  <1>1. LogFileTypeOK
    BY DEF LogFileInit, LogFileTypeOK, OpenedFile, FileType, LoggedType
  <1>2. InOrder(active, log_file.buffer, previous, logged.last)
    BY DEF LogFileInit, OpenedFile, InOrder, Before
  <1>3. CurrentHeld /\ StepsDone /\ EndedKept
    BY DEF LogFileInit, OpenedFile, CurrentHeld, StepsDone, EndedKept
  <1> QED BY <1>1, <1>2, <1>3 DEF LogFileInv

\* The parts of the invariant that the steps keep needing.
LEMMA LogFileFacts ==
  ASSUME LogFileInv
  PROVE  /\ log_file \in FileType /\ log_file.buffer \in Seq(Nat)
         /\ active \in Seq(Nat) /\ previous \in Seq(Nat)
         /\ active \o log_file.buffer \in Seq(Nat)
         /\ logged \in LoggedType /\ logged.last \in Nat /\ logged.failures \in Nat
         /\ InOrder(active, log_file.buffer, previous, logged.last)
         /\ InOrder(active \o log_file.buffer, << >>, previous, logged.last)
         /\ Lines(active \o log_file.buffer) = Lines(active) \cup Lines(log_file.buffer)
         /\ Lines(<< >>) = {} /\ << >> \in Seq(Nat)
  <1>1. /\ log_file \in FileType /\ log_file.buffer \in Seq(Nat)
        /\ active \in Seq(Nat) /\ previous \in Seq(Nat)
        /\ logged \in LoggedType /\ logged.last \in Nat /\ logged.failures \in Nat
        /\ InOrder(active, log_file.buffer, previous, logged.last)
    BY DEF LogFileInv, LogFileTypeOK, FileType, LoggedType
  <1>2. InOrder(active \o log_file.buffer, << >>, previous, logged.last)
    BY <1>1, OrderFlushed
  <1>3. /\ active \o log_file.buffer \in Seq(Nat)
        /\ Lines(active \o log_file.buffer) = Lines(active) \cup Lines(log_file.buffer)
    BY <1>1, LinesConcat
  <1> QED BY <1>1, <1>2, <1>3, LinesShort

\* A line is written, into the buffer or through to the file.
LEMMA SinkInv == ASSUME LogFileInv, NEW line \in 1 .. MaxLines, Sink(line) PROVE LogFileInv'
  <1> DEFINE buffer == log_file.buffer
             flushed == active \o buffer
             current == logged.current
  <1>1. /\ log_file \in FileType /\ buffer \in Seq(Nat) /\ active \in Seq(Nat)
        /\ previous \in Seq(Nat) /\ flushed \in Seq(Nat) /\ logged \in LoggedType
        /\ logged.last \in Nat /\ line = logged.last + 1 /\ line \in Nat
        /\ InOrder(active, buffer, previous, logged.last)
        /\ InOrder(flushed, << >>, previous, logged.last)
        /\ Lines(flushed) = Lines(active) \cup Lines(buffer)
        /\ Lines(<< >>) = {} /\ << >> \in Seq(Nat)
    BY LogFileFacts DEF Sink
  <1>2. /\ current = Lines(active) \cup Lines(buffer)
        /\ current \in SUBSET Nat /\ log_file.open /\ log_file.step = "IDLE"
    BY DEF LogFileInv, CurrentHeld, LogFileTypeOK, LoggedType, Sink, Idle
  <1>3. /\ logged' \in LoggedType /\ logged'.last = line
        /\ logged'.current = current \cup {line} /\ logged'.ended = logged.ended
        /\ previous' = previous /\ export' = export
    BY <1>1, <1>2 DEF Sink, LoggedType
  <1> DEFINE kept == IF Buffered THEN Append(buffer, line) ELSE << >>
             step == IF LogMaximumSize > 0 /\ log_file.size + 1 > LogMaximumSize
                     THEN "ROTATE" ELSE "IDLE"
             size == log_file.size + 1
  <1>4. kept \in Seq(Nat) /\ size \in Nat /\ step \in {"ROTATE", "IDLE"} BY <1>1 DEF FileType
  <1>5. log_file' = [log_file EXCEPT !.buffer = kept, !.size = size, !.step = step]
    BY DEF Sink
  <1> HIDE DEF step, size
  <1>6. /\ log_file' \in FileType /\ log_file'.buffer = kept /\ log_file'.open
        /\ log_file'.step = step
    <2> HIDE DEF kept
    <2> QED BY <1>1, <1>2, <1>4, <1>5 DEF FileType
  <1>7. /\ InOrder(active', log_file'.buffer, previous', logged'.last)
        /\ Lines(active') \cup Lines(log_file'.buffer) = current \cup {line}
        /\ active' \in Seq(Nat)
    <2>1. CASE Buffered
      <3>1. active' = active /\ kept = Append(buffer, line) BY <2>1 DEF Sink
      <3>2. /\ InOrder(active, Append(buffer, line), previous, line)
            /\ Lines(Append(buffer, line)) = Lines(buffer) \cup {line}
        BY <1>1, OrderWritten
      <3> HIDE DEF kept, buffer, current
      <3> QED BY <1>1, <1>2, <1>3, <1>6, <3>1, <3>2
    <2>2. CASE ~Buffered
      <3>1. active' = flushed \o <<line>> /\ kept = << >> BY <2>2 DEF Sink
      <3> HIDE DEF flushed
      <3>2. /\ InOrder(flushed \o <<line>>, << >>, previous, line)
            /\ flushed \o <<line>> \in Seq(Nat)
            /\ Lines(flushed \o <<line>>) = Lines(flushed) \cup {line}
        BY <1>1, OrderWrittenThrough
      <3> HIDE DEF kept, buffer, current
      <3> QED BY <1>1, <1>2, <1>3, <1>6, <3>1, <3>2
    <2> QED BY <2>1, <2>2
  <1> HIDE DEF kept, buffer, flushed, current
  <1>8. LogFileTypeOK'
    BY <1>1, <1>3, <1>6, <1>7 DEF LogFileTypeOK, LogFileInv
  <1>9. CurrentHeld' /\ StepsDone' /\ EndedKept'
    BY <1>2, <1>3, <1>4, <1>6, <1>7 DEF LogFileInv, CurrentHeld, StepsDone, EndedKept
  <1> QED BY <1>7, <1>8, <1>9 DEF LogFileInv

\* A flush, by itself or as the beginning of a rotation or of an export.
LEMMA FlushInv ==
  ASSUME LogFileInv, Flush \/ RotateOpen \/ \E fails \in BOOLEAN : Export(fails)
  PROVE  LogFileInv'
  <1> DEFINE flushed == active \o log_file.buffer
             now_ended == IF RotateOpen THEN {} ELSE logged.ended
             step == IF RotateOpen THEN "COPY" ELSE "IDLE"
  <1>1. /\ log_file \in FileType /\ active \in Seq(Nat)
        /\ previous \in Seq(Nat) /\ flushed \in Seq(Nat) /\ logged \in LoggedType
        /\ logged.last \in Nat
        /\ InOrder(flushed, << >>, previous, logged.last)
        /\ Lines(flushed) = Lines(active) \cup Lines(log_file.buffer)
        /\ Lines(<< >>) = {} /\ << >> \in Seq(Nat)
    BY LogFileFacts
  <1>2. InOrder(flushed, << >>, << >>, logged.last)
    <2> HIDE DEF flushed
    <2> QED BY <1>1, OrderDropped
  <1>3. active' = flushed /\ log_file.open BY DEF Flush, RotateOpen, Export, Idle
  <1>4. /\ log_file' \in FileType /\ log_file'.buffer = << >> /\ log_file'.open
        /\ log_file'.step = "COPY" \/ log_file'.step = "IDLE"
        /\ RotateOpen <=> log_file'.step = "COPY"
    <2>1. CASE RotateOpen BY <1>1, <2>1 DEF RotateOpen, FileType
    <2>2. CASE Flush
      <3>1. ~RotateOpen BY <2>2 DEF Flush, RotateOpen, Idle
      <3> QED BY <1>1, <2>2, <3>1 DEF Flush, FileType, Idle
    <2>3. CASE \E fails \in BOOLEAN : Export(fails)
      <3>1. ~RotateOpen BY <2>3 DEF Export, RotateOpen, Idle
      <3> QED BY <1>1, <2>3, <3>1 DEF Export, FileType, Idle
    <2> QED BY <2>1, <2>2, <2>3
  <1>5. /\ logged' \in LoggedType /\ logged'.last = logged.last
        /\ logged'.current = logged.current
        /\ \/ RotateOpen /\ logged'.ended = {} /\ previous' = << >>
           \/ ~RotateOpen /\ logged'.ended = logged.ended /\ previous' = previous
        /\ export' \in [lines : Seq(Nat), good : BOOLEAN]
    <2>1. CASE RotateOpen
      BY <1>1, <2>1 DEF RotateOpen, LoggedType, LogFileInv, LogFileTypeOK
    <2>2. CASE Flush
      <3>1. ~RotateOpen BY <2>2 DEF Flush, RotateOpen, Idle
      <3> QED BY <1>1, <2>2, <3>1 DEF Flush, LoggedType, LogFileInv, LogFileTypeOK
    <2>3. CASE \E fails \in BOOLEAN : Export(fails)
      <3>1. PICK fails \in BOOLEAN : Export(fails) BY <2>3
      <3>2. ~RotateOpen BY <3>1 DEF Export, RotateOpen, Idle
      <3>3. previous' = previous BY <3>1 DEF Export
      <3>4. /\ logged' \in LoggedType /\ logged'.last = logged.last
            /\ logged'.current = logged.current /\ logged'.ended = logged.ended
        <4>1. Failed(fails) \in Nat BY <1>1 DEF Failed, LoggedType
        <4> DEFINE failures == Failed(fails)
        <4> HIDE DEF failures
        <4>2. failures \in Nat BY <4>1 DEF failures
        <4>3. logged' = [logged EXCEPT !.failures = failures] BY <3>1 DEF Export, failures
        <4> QED BY <1>1, <4>2, <4>3 DEF LoggedType
      <3>5. export' \in [lines : Seq(Nat), good : BOOLEAN]
        <4>1. PICK copy \in IF fails THEN Copies(Exported) ELSE {Exported} :
                export' = [lines |-> copy, good |-> ~fails]
          BY <3>1 DEF Export
        <4>2. Exported \in Seq(Nat)
          BY LogFileFacts, LinesConcat DEF Exported
        <4>3. copy \in Seq(Nat)
          <5> HIDE DEF Exported
          <5> QED BY <4>1, <4>2, CopyOrder
        <4> QED BY <4>1, <4>3
      <3> QED BY <3>2, <3>3, <3>4, <3>5
    <2> QED BY <2>1, <2>2, <2>3
  <1> HIDE DEF flushed
  <1>6. LogFileTypeOK' BY <1>1, <1>3, <1>4, <1>5 DEF LogFileTypeOK
  <1>7. InOrder(active', log_file'.buffer, previous', logged'.last)
    BY <1>1, <1>2, <1>3, <1>4, <1>5
  <1>8. CurrentHeld' BY <1>1, <1>3, <1>4, <1>5 DEF LogFileInv, CurrentHeld
  <1>9. StepsDone' BY <1>4, <1>5 DEF StepsDone
  <1>10. EndedKept' BY <1>5 DEF LogFileInv, EndedKept
  <1> QED BY <1>6, <1>7, <1>8, <1>9, <1>10 DEF LogFileInv

\* A rotation copies the active file over the previous one, in whole or in part.
LEMMA RotateCopyInv ==
  ASSUME LogFileInv, NEW fails \in BOOLEAN, RotateCopy(fails)
  PROVE  LogFileInv'
  <1>1. /\ log_file \in FileType /\ active \in Seq(Nat) /\ previous \in Seq(Nat)
        /\ logged \in LoggedType /\ logged.last \in Nat
        /\ log_file.buffer = << >> /\ logged.ended = {} /\ log_file.open
        /\ InOrder(active, << >>, previous, logged.last)
        /\ export \in [lines : Seq(Nat), good : BOOLEAN]
        /\ logged.current = Lines(active) \cup Lines(<< >>)
    BY LogFileFacts DEF LogFileInv, LogFileTypeOK, StepsDone, RotateCopy, CurrentHeld
  <1>2. active \in Copies(active)
    <2>1. SubSeq(active, 1, Len(active)) = active /\ Len(active) \in 0 .. Len(active)
      BY <1>1, SubSeqFull
    <2> QED BY <2>1 DEF Copies
  <1>3. previous' \in Copies(active) /\ (~fails => previous' = active)
    BY <1>2 DEF RotateCopy
  <1>4. previous' \in Seq(Nat) BY <1>1, <1>3, CopyOrder
  <1>5. InOrder(active, << >>, previous', logged.last) BY <1>1, <1>3, OrderCopied
  <1>6. active' = active /\ export' = export BY DEF RotateCopy
  <1> DEFINE failures == Failed(fails)
             step == IF fails THEN "IDLE" ELSE "TRUNCATE"
  <1>7. failures \in Nat /\ step \in {"IDLE", "TRUNCATE"} /\ (step = "TRUNCATE" => ~fails)
    BY <1>1 DEF Failed, LoggedType
  <1>8. /\ logged' = [logged EXCEPT !.failures = failures]
        /\ log_file' = [log_file EXCEPT !.step = step]
    BY DEF RotateCopy
  <1> HIDE DEF failures, step
  <1>9. /\ logged' \in LoggedType /\ logged'.last = logged.last
        /\ logged'.current = logged.current /\ logged'.ended = {}
    BY <1>1, <1>7, <1>8 DEF LoggedType
  <1>10. /\ log_file' \in FileType /\ log_file'.buffer = << >> /\ log_file'.open
         /\ log_file'.step = step
    BY <1>1, <1>7, <1>8 DEF FileType
  <1>11. LogFileTypeOK' BY <1>1, <1>4, <1>6, <1>9, <1>10 DEF LogFileTypeOK
  <1>12. InOrder(active', log_file'.buffer, previous', logged'.last)
    BY <1>5, <1>6, <1>9, <1>10
  <1>13. CurrentHeld' BY <1>1, <1>6, <1>9, <1>10 DEF CurrentHeld
  <1>14. StepsDone' BY <1>3, <1>6, <1>7, <1>10 DEF StepsDone
  <1>15. EndedKept' BY <1>9 DEF EndedKept
  <1> QED BY <1>11, <1>12, <1>13, <1>14, <1>15 DEF LogFileInv

\* The active file is emptied, after a whole copy or by a reset.
LEMMA TruncateInv ==
  ASSUME LogFileInv, RotateTruncate \/ ResetTruncate
  PROVE  LogFileInv'
  <1>1. /\ log_file \in FileType /\ active \in Seq(Nat) /\ previous \in Seq(Nat)
        /\ log_file.buffer \in Seq(Nat)
        /\ logged \in LoggedType /\ logged.last \in Nat /\ log_file.open
        /\ InOrder(active, log_file.buffer, previous, logged.last)
        /\ export \in [lines : Seq(Nat), good : BOOLEAN]
        /\ Lines(<< >>) = {} /\ << >> \in Seq(Nat)
    BY LogFileFacts DEF LogFileInv, LogFileTypeOK, RotateTruncate, ResetTruncate
  <1>2. InOrder(<<HEADER>>, << >>, previous, logged.last) BY <1>1, OrderDropped
  <1>3. Lines(<<HEADER>>) = {} /\ <<HEADER>> \in Seq(Nat) BY LinesShort DEF HEADER
  <1>4. active' = <<HEADER>> /\ export' = export /\ previous' = previous
    BY DEF RotateTruncate, ResetTruncate
  <1>5. /\ log_file' \in FileType /\ log_file'.buffer = << >> /\ log_file'.open
        /\ log_file'.step = "IDLE"
    <2>1. log_file' = [log_file EXCEPT !.buffer = << >>, !.size = 1, !.step = "IDLE"]
      BY DEF RotateTruncate, ResetTruncate
    <2> QED BY <1>1, <2>1 DEF FileType
  <1>6. /\ logged' \in LoggedType /\ logged'.last = logged.last /\ logged'.current = {}
        /\ logged'.ended \subseteq Lines(previous)
    <2>1. CASE RotateTruncate
      <3>1. /\ log_file.step = "TRUNCATE"
            /\ logged' = [logged EXCEPT !.current = {}, !.ended = logged.current]
        BY <2>1 DEF RotateTruncate
      <3>2. previous = active /\ log_file.buffer = << >>
        BY <3>1 DEF LogFileInv, StepsDone
      <3>3. logged.current = Lines(previous)
        BY <1>1, <3>2 DEF LogFileInv, CurrentHeld
      <3>4. /\ logged' \in LoggedType /\ logged'.last = logged.last /\ logged'.current = {}
            /\ logged'.ended = logged.current
        BY <1>1, <3>1 DEF LoggedType
      <3> QED BY <3>3, <3>4
    <2>2. CASE ResetTruncate
      <3>1. logged' = [logged EXCEPT !.current = {}] BY <2>2 DEF ResetTruncate
      <3>2. logged.ended \subseteq Lines(previous) BY DEF LogFileInv, EndedKept
      <3> QED BY <1>1, <3>1, <3>2 DEF LoggedType
    <2> QED BY <2>1, <2>2
  <1>7. LogFileTypeOK' BY <1>1, <1>3, <1>4, <1>5, <1>6 DEF LogFileTypeOK
  <1>8. InOrder(active', log_file'.buffer, previous', logged'.last)
    BY <1>2, <1>4, <1>5, <1>6
  <1>9. CurrentHeld' BY <1>1, <1>3, <1>4, <1>5, <1>6 DEF CurrentHeld
  <1>10. StepsDone' BY <1>5 DEF StepsDone
  <1>11. EndedKept' BY <1>4, <1>6 DEF EndedKept
  <1> QED BY <1>7, <1>8, <1>9, <1>10, <1>11 DEF LogFileInv

\* A rotation falls due, or a reset empties the previous file.
LEMMA BeginsInv == ASSUME LogFileInv, RotateByAge \/ ResetPrevious PROVE LogFileInv'
  <1>1. /\ log_file \in FileType /\ active \in Seq(Nat) /\ previous \in Seq(Nat)
        /\ log_file.buffer \in Seq(Nat) /\ << >> \in Seq(Nat)
        /\ logged \in LoggedType /\ logged.last \in Nat
        /\ InOrder(active, log_file.buffer, previous, logged.last)
        /\ export \in [lines : Seq(Nat), good : BOOLEAN]
    BY LogFileFacts DEF LogFileInv, LogFileTypeOK
  <1>2. InOrder(active, log_file.buffer, << >>, logged.last) BY <1>1, OrderDropped
  <1>3. active' = active /\ export' = export /\ log_file.open
    BY DEF RotateByAge, ResetPrevious, Idle
  <1>4. /\ log_file' \in FileType /\ log_file'.buffer = log_file.buffer /\ log_file'.open
        /\ log_file'.step \in {"ROTATE", "RESET"}
    BY <1>1 DEF RotateByAge, ResetPrevious, FileType, Idle
  <1>5. /\ logged' \in LoggedType /\ logged'.last = logged.last
        /\ logged'.current = logged.current
        /\ \/ previous' = << >> /\ logged'.ended = {}
           \/ previous' = previous /\ logged'.ended = logged.ended
    BY <1>1 DEF RotateByAge, ResetPrevious, LoggedType
  <1>6. LogFileTypeOK' BY <1>1, <1>3, <1>4, <1>5 DEF LogFileTypeOK
  <1>7. InOrder(active', log_file'.buffer, previous', logged'.last)
    BY <1>1, <1>2, <1>3, <1>4, <1>5
  <1>8. CurrentHeld' BY <1>3, <1>4, <1>5 DEF LogFileInv, CurrentHeld
  <1>9. StepsDone' BY <1>4 DEF StepsDone
  <1>10. EndedKept' BY <1>5 DEF LogFileInv, EndedKept
  <1> QED BY <1>6, <1>7, <1>8, <1>9, <1>10 DEF LogFileInv

\* The process is killed with what was in its buffer, which is in no file.
LEMMA LogKilledInv == ASSUME LogFileInv, LogKilled PROVE LogFileInv'
  <1>1. /\ log_file \in FileType /\ active \in Seq(Nat) /\ previous \in Seq(Nat)
        /\ log_file.buffer \in Seq(Nat) /\ << >> \in Seq(Nat) /\ Lines(<< >>) = {}
        /\ logged \in LoggedType /\ logged.last \in Nat
        /\ InOrder(active, log_file.buffer, previous, logged.last)
        /\ export \in [lines : Seq(Nat), good : BOOLEAN]
    BY LogFileFacts DEF LogFileInv, LogFileTypeOK
  <1>2. /\ InOrder(active, << >>, previous, logged.last)
        /\ Lines(active) \cap Lines(log_file.buffer) = {}
    BY <1>1, OrderDropped
  <1>3. active' = active /\ export' = export /\ previous' = previous
    BY DEF LogKilled
  <1>4. /\ log_file' \in FileType /\ log_file'.buffer = << >> /\ ~log_file'.open
        /\ log_file'.step = "IDLE"
    BY <1>1 DEF LogKilled, FileType
  <1> DEFINE left == logged.current \ Lines(log_file.buffer)
             failures == logged.failures + 1
  <1>5. left = Lines(active) \cup Lines(<< >>)
    BY <1>1, <1>2 DEF LogFileInv, CurrentHeld
  <1>6. left \in SUBSET Nat /\ failures \in Nat BY <1>1 DEF LoggedType
  <1>7. logged' = [logged EXCEPT !.failures = failures, !.current = left] BY DEF LogKilled
  <1> HIDE DEF left, failures
  <1>8. /\ logged' \in LoggedType /\ logged'.last = logged.last
        /\ logged'.current = left /\ logged'.ended = logged.ended
    BY <1>1, <1>6, <1>7 DEF LoggedType
  <1>9. LogFileTypeOK' BY <1>1, <1>3, <1>4, <1>8 DEF LogFileTypeOK
  <1>10. InOrder(active', log_file'.buffer, previous', logged'.last)
    BY <1>2, <1>3, <1>4, <1>8
  <1>11. CurrentHeld' BY <1>3, <1>4, <1>5, <1>8 DEF CurrentHeld
  <1>12. StepsDone' BY <1>4 DEF StepsDone
  <1>13. EndedKept' BY <1>3, <1>8 DEF LogFileInv, EndedKept
  <1> QED BY <1>9, <1>10, <1>11, <1>12, <1>13 DEF LogFileInv

\* The next start appends its headers.
LEMMA LogOpenedInv == ASSUME LogFileInv, LogOpened PROVE LogFileInv'
  <1>1. /\ active \in Seq(Nat) /\ previous \in Seq(Nat)
        /\ logged \in LoggedType /\ logged.last \in Nat
        /\ log_file.buffer = << >>
        /\ InOrder(active, << >>, previous, logged.last)
        /\ export \in [lines : Seq(Nat), good : BOOLEAN]
        /\ logged.current = Lines(active) \cup Lines(<< >>)
    BY LogFileFacts DEF LogFileInv, LogFileTypeOK, LogOpened, StepsDone, CurrentHeld
  <1>2. /\ InOrder(active, <<HEADER>>, previous, logged.last)
        /\ InOrder(Append(active, HEADER), << >>, previous, logged.last)
        /\ Lines(Append(active, HEADER)) = Lines(active)
        /\ Lines(<<HEADER>>) = {} /\ Lines(<< >>) = {}
        /\ Append(active, HEADER) \in Seq(Nat)
    BY <1>1, OrderOpened
  <1>3. <<HEADER>> \in Seq(Nat) /\ << >> \in Seq(Nat) BY LinesShort DEF HEADER
  <1> DEFINE kept == IF Buffered THEN <<HEADER>> ELSE << >>
             size == Len(active) + 1
  <1>4. kept \in Seq(Nat) /\ size \in Nat BY <1>1, <1>3
  <1>5. log_file' = [OpenedFile(size) EXCEPT !.buffer = kept] BY DEF LogOpened
  <1>6. /\ InOrder(active', kept, previous, logged.last)
        /\ Lines(active') \cup Lines(kept) = logged.current /\ active' \in Seq(Nat)
    BY <1>1, <1>2 DEF LogOpened
  <1> HIDE DEF kept, size
  <1>7. /\ log_file' \in FileType /\ log_file'.buffer = kept /\ log_file'.open
        /\ log_file'.step = "IDLE"
    BY <1>4, <1>5 DEF OpenedFile, FileType
  <1>8. export' = export /\ previous' = previous /\ logged' = logged BY DEF LogOpened
  <1>9. LogFileTypeOK' BY <1>1, <1>6, <1>7, <1>8 DEF LogFileTypeOK
  <1>10. InOrder(active', log_file'.buffer, previous', logged'.last)
    BY <1>6, <1>7, <1>8
  <1>11. CurrentHeld' BY <1>6, <1>7, <1>8 DEF CurrentHeld
  <1>12. StepsDone' BY <1>7 DEF StepsDone
  <1>13. EndedKept' BY <1>8 DEF LogFileInv, EndedKept
  <1> QED BY <1>9, <1>10, <1>11, <1>12, <1>13 DEF LogFileInv

\* Every step keeps the invariant, whether it copies all, a part, or dies over it.
LEMMA LogFileStep == ASSUME LogFileInv, [LogFileNext]_logVars PROVE LogFileInv'
  <1>1. CASE LogFileNext
    <2>1. ASSUME NEW line \in 1 .. MaxLines, Sink(line) PROVE LogFileInv'
      BY <2>1, SinkInv
    <2>2. CASE Flush \/ RotateOpen \/ \E fails \in BOOLEAN : Export(fails)
      BY <2>2, FlushInv
    <2>3. ASSUME NEW fails \in BOOLEAN, RotateCopy(fails) PROVE LogFileInv'
      BY <2>3, RotateCopyInv
    <2>4. CASE RotateTruncate \/ ResetTruncate BY <2>4, TruncateInv
    <2>5. CASE RotateByAge \/ ResetPrevious BY <2>5, BeginsInv
    <2>6. CASE LogKilled BY <2>6, LogKilledInv
    <2>7. CASE LogOpened BY <2>7, LogOpenedInv
    <2> QED BY <1>1, <2>1, <2>2, <2>3, <2>4, <2>5, <2>6, <2>7 DEF LogFileNext
  <1>2. CASE UNCHANGED logVars
    BY <1>2 DEF logVars, LogFileInv, LogFileTypeOK, CurrentHeld, StepsDone, EndedKept
  <1> QED BY <1>1, <1>2

\* Putting one file behind another is associative.
LEMMA FilesRegroup == \A s, t, u \in Seq(Nat) : (s \o t) \o u = s \o (t \o u)
  <1> SUFFICES ASSUME NEW T PROVE \A s, t, u \in Seq(T) : (s \o t) \o u = s \o (t \o u)
    OBVIOUS
  <1> QED BY ConcatAssociative

\* What an export that succeeds holds: the previous file, the active one, the buffer.
LEMMA ExportWhole ==
  ASSUME LogFileInv, LogFileNext, export' # export, export'.good
  PROVE  export'.lines = Exported
  <1>1. PICK fails \in BOOLEAN : Export(fails)
    BY DEF LogFileNext, Sink, Flush, RotateByAge, RotateOpen, RotateCopy, RotateTruncate,
           ResetPrevious, ResetTruncate, LogKilled, LogOpened
  <1>2. PICK copy \in IF fails THEN Copies(Exported) ELSE {Exported} :
          export' = [lines |-> copy, good |-> ~fails]
    BY <1>1 DEF Export
  <1> QED BY <1>2

\* An export that succeeds is complete and in order, but for what an unfinished
\* rotation has copied.
LEMMA ExportStep ==
  ASSUME LogFileInv, LogFileNext, export' # export, export'.good
  PROVE  /\ logged.current \cup logged.ended \subseteq Lines(export'.lines)
         /\ \A i, j \in 1 .. Len(export'.lines) :
              LET a == export'.lines[i]
                  b == export'.lines[j]
              IN (i < j /\ a # HEADER /\ b # HEADER /\ a >= b)
                   => {a, b} \subseteq logged.current /\ a \in Lines(previous)
  <1> DEFINE kept == active \o log_file.buffer
             all == previous \o kept
  <1>1. /\ active \in Seq(Nat) /\ log_file.buffer \in Seq(Nat) /\ previous \in Seq(Nat)
        /\ kept \in Seq(Nat) /\ Lines(kept) = logged.current
        /\ InOrder(kept, << >>, previous, logged.last)
        /\ logged.ended \subseteq Lines(previous)
        /\ Lines(active) \subseteq Lines(kept)
        /\ InOrder(active, log_file.buffer, previous, logged.last)
    BY LogFileFacts DEF LogFileInv, CurrentHeld, EndedKept
  <1>2. export'.lines = all
    <2>1. (previous \o active) \o log_file.buffer = previous \o kept
      BY <1>1, FilesRegroup, Zenon
    <2> QED BY <2>1, ExportWhole DEF Exported
  <1>3. \A a \in Lines(previous), b \in Lines(kept) : a >= b => a \in Lines(kept)
    BY <1>1, LinesNat DEF InOrder, Before
  <1>4. Rising(kept) /\ Rising(previous) BY <1>1 DEF InOrder
  <1> HIDE DEF kept
  <1>5. /\ Len(all) = Len(previous) + Len(kept)
        /\ \A i \in 1 .. Len(previous) + Len(kept) :
             all[i] = IF i <= Len(previous) THEN previous[i] ELSE kept[i - Len(previous)]
        /\ Lines(all) = Lines(previous) \cup Lines(kept) /\ all \in Seq(Nat)
    BY <1>1, ConcatProperties, LinesConcat
  <1> HIDE DEF all
  <1>6. logged.current \cup logged.ended \subseteq Lines(all) BY <1>1, <1>5
  <1>7. ASSUME NEW i \in 1 .. Len(all), NEW j \in 1 .. Len(all), i < j,
               all[i] # HEADER, all[j] # HEADER, all[i] >= all[j]
        PROVE  {all[i], all[j]} \subseteq logged.current /\ all[i] \in Lines(previous)
    <2>1. Len(previous) \in Nat /\ Len(kept) \in Nat BY <1>1
    <2>2. CASE j <= Len(previous)
      <3>1. i \in 1 .. Len(previous) /\ j \in 1 .. Len(previous) BY <1>5, <1>7, <2>1, <2>2
      <3>2. all[i] = previous[i] /\ all[j] = previous[j] BY <1>5, <2>1, <2>2, <3>1
      <3>3. previous[i] \in Nat /\ previous[j] \in Nat BY <1>1, <3>1
      <3>4. previous[i] < previous[j] BY <1>4, <1>7, <3>1, <3>2 DEF Rising
      <3> QED BY <1>7, <3>2, <3>3, <3>4
    <2>3. CASE i > Len(previous)
      <3> DEFINE m == i - Len(previous)
                 n == j - Len(previous)
      <3>1. m \in 1 .. Len(kept) /\ n \in 1 .. Len(kept) /\ m < n
        BY <1>5, <1>7, <2>1, <2>3
      <3>2. all[i] = kept[m] /\ all[j] = kept[n] BY <1>5, <1>7, <2>1, <2>3
      <3> HIDE DEF m, n
      <3>3. kept[m] \in Nat /\ kept[n] \in Nat BY <1>1, <3>1
      <3>4. kept[m] < kept[n] BY <1>4, <1>7, <3>1, <3>2 DEF Rising
      <3> QED BY <1>7, <3>2, <3>3, <3>4
    <2>4. CASE i <= Len(previous) /\ j > Len(previous)
      <3> DEFINE n == j - Len(previous)
      <3>1. i \in 1 .. Len(previous) /\ n \in 1 .. Len(kept) BY <1>5, <1>7, <2>1, <2>4
      <3>2. all[i] = previous[i] /\ all[j] = kept[n] BY <1>5, <1>7, <2>1, <2>4
      <3> HIDE DEF n
      <3>3. all[i] \in Lines(previous) /\ all[j] \in Lines(kept)
        BY <1>1, <1>7, <3>1, <3>2, LinesNat
      <3> QED BY <1>1, <1>3, <1>7, <3>3
    <2> QED BY <1>5, <1>7, <2>1, <2>2, <2>3, <2>4
  <1> QED BY <1>2, <1>6, <1>7

-----------------------------------------------------------------------------
\* The invariant of the log file holds in every reachable state, for a file of any
\* size and any number of lines, failed copies and kills.
THEOREM LogFileInvariance == LogFileSpec => []LogFileInv
  <1> QED BY LogFileInitInv, LogFileStep, PTL DEF LogFileSpec

\* What is kept is kept, and what is exported of it is all, in order: only what is
\* in the buffer is ever lost (rotate_log_file, log_export_file, log_reset_file).
THEOREM LogIsKept == LogFileSpec => LogKept
  <1>1. LogFileInv => CurrentKept /\ EndedKept
    BY DEF LogFileInv, CurrentHeld, CurrentKept
  <1>2. LogFileInv /\ [LogFileNext]_logVars =>
          [(export' # export /\ export'.good) =>
             /\ logged.current \cup logged.ended \subseteq Lines(export'.lines)
             /\ \A i, j \in 1..Len(export'.lines):
                  LET a == export'.lines[i]
                      b == export'.lines[j]
                  IN (i < j /\ a # HEADER /\ b # HEADER /\ a >= b)
                       => {a, b} \subseteq logged.current
                          /\ a \in Lines(previous)]_logVars
    BY ExportStep
  <1> QED BY <1>1, <1>2, LogFileInvariance, PTL DEF LogFileSpec, LogKept, ExportComplete
=============================================================================
