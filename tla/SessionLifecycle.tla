-------------------------- MODULE SessionLifecycle --------------------------
(***************************************************************************)
(* What the session registry, the stream handlers and the worker queue     *)
(* promise together, without tasks, queues or sockets: a session id is     *)
(* held by at most one connection, a connection holds at most one, and an  *)
(* utterance that was handed to the worker keeps its session until the     *)
(* worker is done with it.                                                 *)
(***************************************************************************)
CONSTANTS Conn, Sid, NoConn

VARIABLES
  holder,   \* the connection holding a session id, or NoConn
  phase,    \* "free", "open" before end_audio, "busy" after it
  inWorker  \* session ids with an utterance queued or running

vars == <<holder, phase, inWorker>>

Init ==
  /\ holder = [s \in Sid |-> NoConn]
  /\ phase = [s \in Sid |-> "free"]
  /\ inWorker = {}

\* start_audio is accepted.
Open(s, c) ==
  /\ phase[s] = "free"
  /\ \A t \in Sid : holder[t] # c
  /\ holder' = [holder EXCEPT ![s] = c]
  /\ phase' = [phase EXCEPT ![s] = "open"]
  /\ UNCHANGED inWorker

\* end_audio ends the upload; the queue takes the utterance or does not.
Submit(s) ==
  /\ phase[s] = "open"
  /\ phase' = [phase EXCEPT ![s] = "busy"]
  /\ inWorker' \in {inWorker \cup {s}, inWorker}
  /\ UNCHANGED holder

\* The worker has finished the utterance.
Processed(s) ==
  /\ s \in inWorker
  /\ inWorker' = inWorker \ {s}
  /\ UNCHANGED <<holder, phase>>

\* Timeout, malformed audio, disconnect, answer or error.
Free(s) ==
  /\ phase[s] # "free"
  /\ s \notin inWorker
  /\ holder' = [holder EXCEPT ![s] = NoConn]
  /\ phase' = [phase EXCEPT ![s] = "free"]
  /\ UNCHANGED inWorker

Next ==
  \E s \in Sid : \/ \E c \in Conn : Open(s, c)
                 \/ Submit(s) \/ Processed(s) \/ Free(s)

Spec == Init /\ [][Next]_vars

\* An answer is owed for every completed utterance.
FairSpec == Spec /\ \A s \in Sid : WF_vars(Processed(s))
                                   /\ WF_vars(phase[s] = "busy" /\ Free(s))
=============================================================================
