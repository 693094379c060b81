------------------------------ MODULE DetectCall ------------------------------
(***************************************************************************)
(* The two ways to start a detection: detect(), which opens a connection   *)
(* of its own for it, and SolarfocusClient.detect(), over the connection   *)
(* that the client has or opens and keeps (detect.py, client.py).          *)
(***************************************************************************)
EXTENDS Detect

(* What Detect knows of the tables of the library is what they say.        *)
Table == INSTANCE Layout
AsOf(component, v, s) == Table!LaterOf(v, Table!LaidOutAsOf(component, s))
ASSUME TablesAssumption == \A v \in Versions, s \in Systems :
  /\ \A c \in Components : Available(c, v, s) <=> Table!SpecAvailable(Table!Specs[c], v, s)
  /\ StateOffset("heating_circuits", v, s) =
       Table!OffsetFor(Table!HeatingCircuit.state, AsOf("HeatingCircuit", v, s))
  /\ StateOffset("buffers", v, s) = Table!OffsetFor(Table!Buffer.state, AsOf("Buffer", v, s))

VARIABLES way,    \* whose connection it is: "own" or the "client's"
          link,   \* the connection: "open" or "closed"
          stage   \* "connect", then "probe", then "over"

callVars == <<vars, way, link, stage>>

CallInit == /\ Init
            /\ way \in {"own", "client's"}
            /\ link \in {"open", "closed"}
            /\ way = "own" => link = "closed"
            /\ stage = "connect"

(* connect() does nothing where there is a connection.                     *)
Connects == /\ stage = "connect"
            /\ link' = "open" /\ stage' = "probe"
            /\ UNCHANGED <<vars, way>>

(* It raises before the try: there is nothing to close.                    *)
ConnectFails == /\ stage = "connect" /\ link = "closed"
                /\ Raises
                /\ stage' = "over"
                /\ UNCHANGED <<way, link>>

Probes == /\ stage = "probe"
          /\ Probe
          /\ UNCHANGED <<way, link, stage>>

(* A timeout, a lost connection, or the caller cancels.                    *)
Breaks == /\ stage = "probe"
          /\ Raises
          /\ link' \in {"open", "closed"}
          /\ UNCHANGED <<way, stage>>

(* The connection closed once the Detection is there.                      *)
EndsOnReturn == /\ stage = "probe" /\ at.step \in {"done", "raised"}
                /\ stage' = "over"
                /\ link' = IF way = "own" /\ at.step = "done" THEN "closed" ELSE link
                /\ UNCHANGED <<vars, way>>

(* The finally of detect(); the client keeps what it has.                  *)
Ends == /\ stage = "probe" /\ at.step \in {"done", "raised"}
        /\ stage' = "over"
        /\ link' = IF way = "own" THEN "closed" ELSE link
        /\ UNCHANGED <<vars, way>>

CallNext == Connects \/ ConnectFails \/ Probes \/ Breaks \/ Ends

CallSpec == CallInit /\ [][CallNext]_callVars

(* The event loop runs the task, the controller or the timeout answers     *)
(* every request, and nothing obliges anyone to break the call off.        *)
CallFairSpec == CallSpec /\ WF_callVars(Connects) /\ WF_callVars(Probes) /\ WF_callVars(Ends)

-----------------------------------------------------------------------------
CallOver == stage = "over"

(* detect.py:250-264, client.py:181-190: however a run ends, at whichever  *)
(* probe, detect() leaves no socket behind (a controller has few of them), *)
(* and a run over the client's connection has not closed it.               *)
LinkAsPromised == CallOver =>
  /\ way = "own" => link = "closed"
  /\ way = "client's" /\ at.step = "done" => link = "open"

(* Why: past the connecting, a run that was not broken off is connected.   *)
LinkInv == /\ way \in {"own", "client's"} /\ link \in {"open", "closed"}
           /\ stage = "connect" => at.step = "marker" /\ (way = "own" => link = "closed")
           /\ stage = "probe" /\ at.step # "raised" => link = "open"
           /\ LinkAsPromised
CallInv == DetectInv /\ LinkInv

(* detect.py:275-337: a call ends, whatever the controller answers: every  *)
(* probe is asked twice at most, and no probe leads back to another.       *)
CallEnds == <>CallOver
=============================================================================
