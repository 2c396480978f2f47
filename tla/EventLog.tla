------------------------------- MODULE EventLog -------------------------------
(***************************************************************************)
(* What an event bus promises ("ordered semantic fact delivery",            *)
(* docs/design/DRAGONGOD-DOMINATUS-PARITY.md): one log that only grows, and *)
(* readers that each walk through it with a cursor of their own.  A read    *)
(* answers the next event of the kind it asks for and passes over events of *)
(* other kinds only; it may answer that there is none when there was none   *)
(* in the log as it was when the read began.                                *)
(***************************************************************************)
EXTENDS Integers, Sequences

CONSTANTS
  Readers,
  Kinds,
  Capacity,
  NoCursor,   \* cursor of a reader that has none yet
  NoCall,     \* `before` of a reader that is not in a call
  NoKind,     \* `asked` of a reader that is not in a call
  None        \* the answer Missing

VARIABLES
  log,      \* the events published
  cursor,   \* events each reader has gone past
  before,   \* length of the log when a reader's call began, or NoCall
  asked,    \* the kind a reader's call asks for
  answer    \* what each reader's last call answered

vars == <<log, cursor, before, asked, answer>>

Init ==
  /\ log = << >>
  /\ cursor = [r \in Readers |-> NoCursor]
  /\ before = [r \in Readers |-> NoCall]
  /\ asked = [r \in Readers |-> NoKind]
  /\ answer = [r \in Readers |-> None]

Publish(kind) ==
  /\ Len(log) < Capacity
  /\ log' = Append(log, [id |-> Len(log) + 1, kind |-> kind])
  /\ UNCHANGED <<cursor, before, asked, answer>>

OpenCursor(r) ==
  /\ cursor[r] = NoCursor
  /\ \E start \in {0, Len(log)} : cursor' = [cursor EXCEPT ![r] = start]
  /\ UNCHANGED <<log, before, asked, answer>>

Ask(r, kind) ==
  /\ cursor[r] # NoCursor
  /\ before[r] = NoCall
  /\ before' = [before EXCEPT ![r] = Len(log)]
  /\ asked' = [asked EXCEPT ![r] = kind]
  /\ UNCHANGED <<log, cursor, answer>>

NoneOfKind(kind, from, to) == \A i \in from + 1 .. to : log[i].kind # kind

Give(r, kind, to) ==
  /\ to \in cursor[r] + 1 .. Len(log)
  /\ NoneOfKind(kind, cursor[r], to - 1)
  /\ log[to].kind = kind
  /\ cursor' = [cursor EXCEPT ![r] = to]
  /\ answer' = [answer EXCEPT ![r] = log[to]]

GiveNone(r, kind, to) ==
  /\ to \in before[r] .. Len(log)
  /\ to >= cursor[r]
  /\ NoneOfKind(kind, cursor[r], to)
  /\ cursor' = [cursor EXCEPT ![r] = to]
  /\ answer' = [answer EXCEPT ![r] = None]

Reply(r) ==
  /\ before[r] # NoCall
  /\ before' = [before EXCEPT ![r] = NoCall]
  /\ asked' = [asked EXCEPT ![r] = NoKind]
  /\ UNCHANGED log
  /\ \E to \in 0 .. Len(log) : Give(r, asked[r], to) \/ GiveNone(r, asked[r], to)

Next ==
  \/ \E kind \in Kinds : Publish(kind)
  \/ \E r \in Readers : OpenCursor(r) \/ Reply(r) \/ \E kind \in Kinds : Ask(r, kind)

Spec == Init /\ [][Next]_vars
=============================================================================
