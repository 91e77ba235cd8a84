----------------------------- MODULE MCMeasuring -----------------------------
(***************************************************************************)
(* Small instances of the parts that find the links, measure them and write *)
(* their rates.  How links, pingers and activity act on each other is the   *)
(* subject of Daemon; here each is checked alone, with all it does itself:  *)
(* "part" names the one a behaviour is about, and the others rest.          *)
(***************************************************************************)
EXTENDS Links, Shaper, Reflectors, ChildPingers, PingerOutput

CONSTANT Parts  \* the parts the run is about

VARIABLE part

measuringVars == <<part, vars, shaperVars, reflectorVars, childVars, outputVars>>

MCHandles == {1, 2}

\* A start that matters only to its own part is the same for the others.
MeasuringInit ==
  /\ part \in Parts
  /\ Init /\ ShaperInit /\ ReflectorsInit /\ ChildInit /\ OutputInit
  /\ part # "links" => kernel = [d \in Direction |-> NONE]
  /\ part # "shaper" => qdisc = [s \in Side |-> [id |-> 1, rate |-> UNLIMITED]]
  /\ part # "shaper" => control = [s \in Side |-> [rate |-> MinimumRate, pending |-> TRUE]]
  /\ reflectors.order = [k \in Reflector |-> k]
  /\ part # "children" => method = "FPING"
  /\ part # "output" => pipe.method = "FPING"

\* Reflectors are checked twice: "health" leaves the delays alone, which judging
\* silence does not look at, and "delay" leaves the health timer no choice.
HealthNext ==
  \/ \E judged \in BOOLEAN, chosen \in {NO_SLOT} \cup Slot : HealthTimer(judged, chosen)
  \/ \E slot \in Slot : Reply(slot, 0, 0, TRUE)
  \/ \E grace \in {0, ReplyGrace} : Restarted(grace)

DelayNext ==
  \/ HealthTimer(FALSE, NO_SLOT)
  \/ \E slot \in Slot, owd \in ReplyDelays, age \in 0 .. 1 : Reply(slot, owd, age, FALSE)

PingersPart ==
  \/ part = "children" /\ ChildNext /\ UNCHANGED outputVars
  \/ part = "output" /\ OutputNext /\ UNCHANGED childVars

ReflectorsPart ==
  \/ part = "health" /\ HealthNext
  \/ part = "delay" /\ DelayNext

MeasuringNext ==
  /\ UNCHANGED part
  /\ \/ /\ part = "links" /\ Next
        /\ UNCHANGED <<shaperVars, reflectorVars, childVars, outputVars>>
     \/ /\ part = "shaper" /\ ShaperNext
        /\ UNCHANGED <<vars, reflectorVars, childVars, outputVars>>
     \/ ReflectorsPart /\ UNCHANGED <<vars, shaperVars, childVars, outputVars>>
     \/ PingersPart /\ UNCHANGED <<vars, shaperVars, reflectorVars>>

\* The fairness each part's own specification states (Fairness, ShaperFairness,
\* ChildFairness), where it is the chosen one.
MeasuringFairness ==
  /\ WF_vars(part = "links" /\ Subscribe)
  /\ WF_vars(part = "links" /\ FirstObserve(NoFailure))
  /\ WF_vars(part = "links" /\ Tick(NoFailure))
  /\ WF_vars(part = "links" /\ QdiscEvents(NoFailure))
  /\ WF_vars(part = "links" /\ Overrun)
  /\ WF_shaperVars(part = "shaper" /\ ObserveCake(FALSE))
  /\ WF_childVars(part = "children" /\ StopTimer)
  /\ WF_childVars(part = "children" /\ ChildTime)
  /\ \A c \in Child :
       WF_childVars(part = "children" /\ c \in session.killed /\ ChildExits(c))

MeasuringSpec ==
  MeasuringInit /\ [][MeasuringNext]_measuringVars /\ MeasuringFairness

\* Rediscovered, for the behaviours in which the daemon and its kernel take part.
LinksRediscovered == part = "links" => Rediscovered
=============================================================================
