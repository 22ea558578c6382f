------------------------- MODULE GrpcEventServerProofs -------------------------
(***************************************************************************)
(* Proofs about GrpcEventServer, for any number of calls and uuids.        *)
(***************************************************************************)
EXTENDS GrpcEventServer, FiniteSetTheorems, TLAPS

Objects == [rpc : Rpcs, status : {"PROCESS", "FINISH"}, call : Calls \cup {NoCall}]
Values == Calls \cup {None, Moved}
Steps == {"find", "wait", "erase", "finish", "gone"}

CallsType ==
  /\ uuid \in [Calls -> Uuids \cup {Bad, Event, Unset}]
  /\ answer \in [Calls -> {"none", "OK", "INVALID_ARGUMENT", "DEADLINE_EXCEEDED", "UNAVAILABLE"}]
  /\ inQ \subseteq Calls

ObjectsType ==
  /\ obj \in Seq(Objects)
  /\ alive \subseteq DOMAIN obj /\ listening \subseteq DOMAIN obj
  /\ cq \subseteq [tag : DOMAIN obj, ok : BOOLEAN]
  /\ cur \in [Threads -> 0..Len(obj)]

EntriesType ==
  /\ entry \in Seq(Values)
  /\ table \in [Uuids -> 0..Len(entry)]
  /\ writer = << >> \/ \E c \in Calls, e \in 1..Len(entry) : writer = << c, e >>

WaitersType ==
  waiter \subseteq [self : DOMAIN obj, at : Steps, entry : 0..Len(entry), result : Values]

ControlType ==
  /\ serverUp \in BOOLEAN /\ cqShut \in BOOLEAN /\ running \in BOOLEAN
  /\ rpc \in {"loop", "next", "exited"}
  /\ mpc \in {"up", "shutdown", "closer", "drain", "join", "stopped"}

TypeOK == CallsType /\ ObjectsType /\ EntriesType /\ WaitersType /\ ControlType

------------------------------------------------------------------------------
(***************************************************************************)
(* The objects.  Each is in one stage: it listens, its tag is queued, a    *)
(* thread is in its Proceed, a detached thread waits for its reply, or it  *)
(* is done with.                                                           *)
(***************************************************************************)
Queued(i) == \E e \in cq : e.tag = i
Process(i) == obj[i].status = "PROCESS"

ListenersOK ==
  \A i \in listening : serverUp /\ i \in alive /\ Process(i) /\ obj[i].call = NoCall /\ ~Queued(i)

TagsOK ==
  /\ \A e \in cq : e.tag \in alive
  /\ \A e \in cq : e.ok => obj[e.tag].call # NoCall
  /\ \A e \in cq : ~e.ok => obj[e.tag].call = NoCall /\ ~serverUp
  /\ \A e, f \in cq : e.tag = f.tag => e = f

ServingOK ==
  /\ \A t \in Threads : cur[t] # 0 =>
       /\ cur[t] \in alive /\ Process(cur[t]) /\ obj[cur[t]].call # NoCall
       /\ ~Queued(cur[t])
  /\ \A s, t \in Threads : cur[s] # 0 /\ cur[s] = cur[t] => s = t

WaitersOK ==
  /\ \A w \in waiter : obj[w.self].call # NoCall /\ UuidOf(w) \in Uuids
  /\ \A w \in waiter : w.at # "gone" =>
       /\ w.self \in alive /\ Process(w.self) /\ ~Queued(w.self)
       /\ \A t \in Threads : cur[t] # w.self
  /\ \A w \in waiter : w.at = "gone" => ~Process(w.self)
  /\ \A v, w \in waiter : v.self = w.self => v = w

CallsOK ==
  /\ \A i, j \in DOMAIN obj : obj[i].call # NoCall /\ obj[i].call = obj[j].call => i = j
  /\ \A i \in DOMAIN obj : obj[i].call # NoCall =>
       uuid[obj[i].call] # Unset /\ obj[i].rpc = RpcOf(obj[i].call)
  /\ \A i \in DOMAIN obj : obj[i].call # NoCall /\ Process(i) => answer[obj[i].call] = "none"
  /\ serverUp => \A c \in Calls : ~Matched(c) => answer[c] = "none"

StopOK ==
  /\ serverUp <=> mpc = "up"
  /\ cqShut => mpc \in {"drain", "join", "stopped"}
  /\ mpc \in {"closer", "drain", "join", "stopped"} =>
       \A i \in DOMAIN obj : Process(i) => obj[i].call = NoCall
  /\ mpc \in {"join", "stopped"} => cq = {}

(***************************************************************************)
(* The object of an RPC that takes its next call.                          *)
(***************************************************************************)
Taker(i) == i \in listening \/ (Process(i) /\ Tag(i, TRUE) \in cq)

TakersOK ==
  serverUp => \A r \in Rpcs :
    /\ \E i \in DOMAIN obj : obj[i].rpc = r /\ Taker(i)
    /\ \A i, j \in DOMAIN obj : obj[i].rpc = r /\ obj[j].rpc = r /\ Taker(i) /\ Taker(j) => i = j

ObjectsOK ==
  ListenersOK /\ TagsOK /\ ServingOK /\ WaitersOK /\ CallsOK /\ StopOK

------------------------------------------------------------------------------
(***************************************************************************)
(* The replies.  A reply is in one place, and only after its call was      *)
(* handed to the service.                                                  *)
(***************************************************************************)
Handed(c) ==
  \E i \in DOMAIN obj : obj[i].call = c /\ (~Process(i) \/ \E w \in waiter : w.self = i)

Writing(c) == writer # << >> /\ writer[1] = c

HandedOK ==
  \A c \in Calls : c \in inQ \/ Writing(c) \/ c \in Replied => Handed(c)

OnceOK ==
  /\ \A c \in inQ : ~Writing(c) /\ c \notin Replied
  /\ \A c \in Calls : Writing(c) => c \notin Replied
  /\ \A e, f \in DOMAIN entry : entry[e] = entry[f] /\ entry[e] \in Calls => e = f
  /\ \A e \in DOMAIN entry, w \in waiter : w.result \in Calls => entry[e] # w.result
  /\ \A v, w \in waiter : v.result \in Calls /\ v.result = w.result => v = w

(***************************************************************************)
(* Every entry belongs to one uuid, though the code does not say in the    *)
(* entry to which.                                                         *)
(***************************************************************************)
Owns(own) ==
  /\ own \in Seq(Uuids) /\ Len(own) = Len(entry)
  /\ \A u \in Uuids : table[u] # 0 => own[table[u]] = u
  /\ \A w \in waiter : w.entry # 0 => own[w.entry] = UuidOf(w)
  /\ writer # << >> => own[writer[2]] = uuid[writer[1]]
  /\ \A e \in DOMAIN entry : entry[e] \in Calls => own[e] = uuid[entry[e]]

OwnersOK ==
  /\ \E own \in Seq(Uuids) : Owns(own)
  /\ \A w \in waiter : w.result \in Calls => uuid[w.result] = UuidOf(w)
  /\ \A c \in inQ : uuid[c] \in Uuids \cup {Event}

(***************************************************************************)
(* A value that was moved away was taken by somebody of the same uuid.     *)
(***************************************************************************)
MovedOK ==
  /\ \A e \in DOMAIN entry : entry[e] = Moved =>
       \E v \in waiter : v.entry = e /\ v.at \notin {"find", "wait"}
  /\ \A w \in waiter : w.at \in {"find", "wait"} => w.result = None
  /\ \A w \in waiter : w.at = "wait" => w.entry # 0
  /\ \A w \in waiter : Unique(obj[w.self].call) => w.result # Moved

(***************************************************************************)
(* While the only call of a uuid waits, its entry stays in the table.      *)
(***************************************************************************)
YoungOK ==
  \A w \in waiter : w.at \in {"find", "wait"} /\ Unique(obj[w.self].call) =>
    /\ w.at = "wait" => table[UuidOf(w)] = w.entry
    /\ Writing(obj[w.self].call) => table[UuidOf(w)] = writer[2]
    /\ \A e \in DOMAIN entry : entry[e] = obj[w.self].call => table[UuidOf(w)] = e

RepliesOK == HandedOK /\ OnceOK /\ OwnersOK /\ MovedOK /\ YoungOK

ServerInvariant == TypeOK /\ ObjectsOK /\ TakersOK /\ RepliesOK

------------------------------------------------------------------------------
(***************************************************************************)
(* Tags, and what an assignment to an object leaves alone.                 *)
(***************************************************************************)
LEMMA TagFacts ==
  ASSUME NEW i
  PROVE  /\ Tag(i, TRUE).tag = i /\ Tag(i, TRUE).ok
         /\ Tag(i, FALSE).tag = i /\ ~Tag(i, FALSE).ok
BY DEF Tag

StatusSet(o, i, p) ==
         /\ p \in Seq(Objects) /\ Len(p) = Len(o) /\ DOMAIN p = DOMAIN o
         /\ p[i].status = "FINISH"
         /\ \A j \in DOMAIN o : p[j].call = o[j].call /\ p[j].rpc = o[j].rpc
         /\ \A j \in DOMAIN o : j # i => p[j] = o[j]

LEMMA StatusUpdate ==
  ASSUME NEW o \in Seq(Objects), NEW i \in DOMAIN o
  PROVE  StatusSet(o, i, [o EXCEPT ![i].status = "FINISH"])
<1> DEFINE p == [o EXCEPT ![i].status = "FINISH"]
<1>1. PICK x : x = [o[i] EXCEPT !.status = "FINISH"]
  OBVIOUS
<1>2. o[i] \in Objects
  OBVIOUS
<1>3. x \in Objects /\ x.status = "FINISH" /\ x.call = o[i].call /\ x.rpc = o[i].rpc
  BY <1>1, <1>2 DEF Objects
<1>4. p = [o EXCEPT ![i] = x]
  BY <1>1
<1>5. QED
  BY <1>3, <1>4 DEF StatusSet

CallSet(o, i, c, p) ==
         /\ p \in Seq(Objects) /\ Len(p) = Len(o) /\ DOMAIN p = DOMAIN o
         /\ p[i].call = c
         /\ \A j \in DOMAIN o : p[j].status = o[j].status /\ p[j].rpc = o[j].rpc
         /\ \A j \in DOMAIN o : j # i => p[j] = o[j]

LEMMA CallUpdate ==
  ASSUME NEW o \in Seq(Objects), NEW i \in DOMAIN o, NEW c \in Calls
  PROVE  CallSet(o, i, c, [o EXCEPT ![i].call = c])
<1> DEFINE p == [o EXCEPT ![i].call = c]
<1>1. PICK x : x = [o[i] EXCEPT !.call = c]
  OBVIOUS
<1>2. o[i] \in Objects
  OBVIOUS
<1>3. x \in Objects /\ x.call = c /\ x.status = o[i].status /\ x.rpc = o[i].rpc
  BY <1>1, <1>2 DEF Objects
<1>4. p = [o EXCEPT ![i] = x]
  BY <1>1
<1>5. QED
  BY <1>3, <1>4 DEF CallSet

Appended(o, r, p) ==
         /\ p \in Seq(Objects) /\ Len(p) = Len(o) + 1
         /\ DOMAIN p = DOMAIN o \cup {Len(o) + 1} /\ Len(o) + 1 \notin DOMAIN o
         /\ p[Len(o) + 1] = Listener(r)
         /\ \A j \in DOMAIN o : p[j] = o[j]

LEMMA ObjectAppend ==
  ASSUME NEW o \in Seq(Objects), NEW r \in Rpcs
  PROVE  Appended(o, r, Append(o, Listener(r)))
<1>1. Listener(r) \in Objects
  BY DEF Listener, Objects
<1>2. QED
  BY <1>1 DEF Appended

LEMMA NumberFacts ==
  /\ NoCall \notin Calls /\ None \notin Calls /\ Moved \notin Calls /\ None # Moved
  /\ Bad \notin Uuids /\ Event \notin Uuids /\ Unset \notin Uuids
  /\ Unset # Bad /\ Unset # Event /\ Bad # Event
BY CallsAssumption DEF NoCall, None, Moved, Calls, Bad, Event, Unset

LEMMA TypeFacts ==
  ASSUME TypeOK
  PROVE  /\ DOMAIN obj = 1..Len(obj) /\ Len(obj) \in Nat /\ Len(entry) \in Nat
         /\ \A i \in DOMAIN obj : obj[i] \in Objects
         /\ \A i \in DOMAIN obj : obj[i].call # NoCall => obj[i].call \in Calls
         /\ \A e \in cq : e.tag \in DOMAIN obj /\ e.ok \in BOOLEAN
         /\ \A t \in Threads : cur[t] # 0 => cur[t] \in DOMAIN obj
         /\ \A w \in waiter : /\ w.self \in DOMAIN obj /\ w.at \in Steps
                              /\ w.entry \in 0..Len(entry) /\ w.result \in Values
<1> USE DEF TypeOK
<1>1. DOMAIN obj = 1..Len(obj) /\ Len(obj) \in Nat /\ Len(entry) \in Nat
  BY DEF ObjectsType, EntriesType
<1>2. \A i \in DOMAIN obj : obj[i] \in Objects
  BY DEF ObjectsType
<1>3. \A i \in DOMAIN obj : obj[i].call # NoCall => obj[i].call \in Calls
  BY <1>2 DEF Objects
<1>4. \A e \in cq : e.tag \in DOMAIN obj /\ e.ok \in BOOLEAN
  BY DEF ObjectsType
<1>5. \A t \in Threads : cur[t] # 0 => cur[t] \in DOMAIN obj
  BY <1>1 DEF ObjectsType
<1>6. \A w \in waiter : /\ w.self \in DOMAIN obj /\ w.at \in Steps
                        /\ w.entry \in 0..Len(entry) /\ w.result \in Values
  BY DEF WaitersType
<1>7. QED
  BY <1>1, <1>2, <1>3, <1>4, <1>5, <1>6

------------------------------------------------------------------------------
(***************************************************************************)
(* The objects, action by action.                                          *)
(***************************************************************************)
LEMMA CallObjects ==
  ASSUME ServerInvariant, NEW c \in Calls, Call(c)
  PROVE  TypeOK' /\ ObjectsOK' /\ TakersOK'
<1> USE DEF ServerInvariant, ObjectsOK
<1>1. /\ uuid[c] = Unset
      /\ UNCHANGED <<obj, alive, listening, cq, serverUp, cqShut, running, cur, rpc, mpc, waiter>>
      /\ UNCHANGED <<table, entry, inQ, writer>>
  BY DEF Call, threadVars, dispatcherVars, serviceVars
<1>2. /\ \A d \in Calls : d # c => uuid'[d] = uuid[d]
      /\ \A d \in Calls : d # c => answer'[d] = answer[d]
      /\ serverUp => answer' = answer
  BY DEF Call, TypeOK, CallsType
<1>3. \A i \in DOMAIN obj : obj[i].call # c
  BY <1>1, NumberFacts DEF CallsOK
<1>4. TypeOK'
  <2>1. CallsType'
    BY <1>1 DEF Call, TypeOK, CallsType
  <2>2. QED
    BY <1>1, <2>1 DEF TypeOK, ObjectsType, EntriesType, WaitersType, ControlType
<1>5. ListenersOK' /\ TagsOK' /\ ServingOK' /\ StopOK' /\ TakersOK'
  <2>1. ListenersOK' /\ TagsOK'
    BY <1>1 DEF ListenersOK, TagsOK, Process, Queued
  <2>2. ServingOK' /\ StopOK'
    BY <1>1 DEF ServingOK, StopOK, Process, Queued
  <2>3. TakersOK'
    <3>1. \A j : Taker(j)' <=> Taker(j)
      BY <1>1 DEF Process, Taker
    <3>2. QED
      BY <1>1, <3>1 DEF TakersOK
  <2>4. QED
    BY <2>1, <2>2, <2>3
<1>6. WaitersOK'
  BY <1>1, <1>2, <1>3, TypeFacts DEF WaitersOK, Process, Queued, UuidOf
<1>7. CallsOK'
  BY <1>1, <1>2, <1>3, TypeFacts DEF CallsOK, Process, RpcOf, Matched
<1>8. QED
  BY <1>4, <1>5, <1>6, <1>7

LEMMA MatchObjects ==
  ASSUME ServerInvariant, NEW c \in Calls, Match(c)
  PROVE  TypeOK' /\ ObjectsOK' /\ TakersOK'
<1> USE DEF ServerInvariant, ObjectsOK
<1>1. /\ serverUp /\ uuid[c] # Unset /\ ~Matched(c)
      /\ UNCHANGED <<uuid, answer, alive, serverUp, cqShut, running, cur, rpc, mpc, waiter>>
      /\ UNCHANGED <<table, entry, inQ, writer>>
  BY DEF Match, threadVars, dispatcherVars, serviceVars
<1>2. PICK i \in listening : /\ obj[i].rpc = RpcOf(c) /\ listening' = listening \ {i}
                             /\ obj' = [obj EXCEPT ![i].call = c]
                             /\ cq' = cq \cup {Tag(i, TRUE)}
  BY DEF Match
<1>3. /\ i \in DOMAIN obj /\ obj \in Seq(Objects) /\ i \in alive /\ Process(i)
      /\ obj[i].call = NoCall /\ ~Queued(i)
  BY DEF TypeOK, ObjectsType, ListenersOK
<1>4. /\ obj' \in Seq(Objects) /\ Len(obj') = Len(obj) /\ DOMAIN obj' = DOMAIN obj
      /\ obj'[i].call = c
      /\ \A j \in DOMAIN obj : obj'[j].status = obj[j].status /\ obj'[j].rpc = obj[j].rpc
      /\ \A j \in DOMAIN obj : j # i => obj'[j] = obj[j]
  <2>1. CallSet(obj, i, c, obj')
    BY <1>2, <1>3, CallUpdate
  <2>2. QED
    BY <2>1 DEF CallSet
<1>4a. /\ \A x \in cq' : x \in cq \/ x = Tag(i, TRUE)
       /\ \A j : j # i => (Queued(j)' <=> Queued(j))
       /\ \A e \in cq : e.tag # i
  BY <1>2, <1>3, TagFacts DEF Queued
<1>4b. /\ \A j \in DOMAIN obj : obj[j].call # c
       /\ \A t \in Threads : cur[t] # i
       /\ \A w \in waiter : w.self # i
       /\ c # NoCall
  BY <1>1, <1>3, NumberFacts, TypeFacts DEF Matched, ServingOK, WaitersOK
<1>5. TypeOK'
  <2>1. ObjectsType'
    <3>1. Tag(i, TRUE) \in [tag : DOMAIN obj', ok : BOOLEAN]
      BY <1>3, <1>4 DEF Tag
    <3>2. \A x \in cq' : x \in [tag : DOMAIN obj', ok : BOOLEAN]
      BY <1>4, <1>4a, <3>1 DEF TypeOK, ObjectsType
    <3>3. QED
      BY <1>1, <1>2, <1>4, <3>2 DEF TypeOK, ObjectsType
  <2>2. QED
    BY <1>1, <1>4, <2>1 DEF TypeOK, CallsType, EntriesType, WaitersType, ControlType
<1>6. ListenersOK'
  BY <1>1, <1>2, <1>4, <1>4a DEF ListenersOK, Process, TypeOK, ObjectsType
<1>7. TagsOK'
  <2>1. \A x \in cq' : x.tag \in alive' /\ (x.ok => obj'[x.tag].call # NoCall)
    <3>1. \A x \in cq : x.tag \in alive /\ (x.ok => obj[x.tag].call # NoCall)
      BY DEF TagsOK
    <3>2. \A x \in cq : obj'[x.tag] = obj[x.tag]
      BY <1>4, <1>4a, TypeFacts
    <3>3. Tag(i, TRUE).tag \in alive /\ obj'[Tag(i, TRUE).tag].call # NoCall
      BY <1>3, <1>4, <1>4b, TagFacts
    <3>4. QED
      BY <1>1, <1>4a, <3>1, <3>2, <3>3
  <2>2. \A x \in cq' : ~x.ok => obj'[x.tag].call = NoCall /\ ~serverUp'
    BY <1>1, <1>4, <1>4a, TypeFacts, TagFacts DEF TagsOK
  <2>3. \A x, y \in cq' : x.tag = y.tag => x = y
    BY <1>4a, TagFacts, Zenon DEF TagsOK
  <2>4. QED
    BY <2>1, <2>2, <2>3 DEF TagsOK
<1>8. ServingOK'
  BY <1>1, <1>4, <1>4a, <1>4b, TypeFacts DEF ServingOK, Process
<1>9. WaitersOK'
  BY <1>1, <1>4, <1>4a, <1>4b, TypeFacts DEF WaitersOK, Process, UuidOf
<1>10. CallsOK'
  <2>1. \A j, k \in DOMAIN obj' : obj'[j].call # NoCall /\ obj'[j].call = obj'[k].call => j = k
    BY <1>4, <1>4b DEF CallsOK
  <2>2. \A j \in DOMAIN obj' : obj'[j].call # NoCall =>
          /\ uuid'[obj'[j].call] # Unset
          /\ obj'[j].rpc = (IF uuid'[obj'[j].call] = Event THEN "Send" ELSE "Request")
    BY <1>1, <1>2, <1>4 DEF CallsOK, RpcOf
  <2>3. answer[c] = "none"
    BY <1>1 DEF CallsOK
  <2>4. \A j \in DOMAIN obj' : obj'[j].call # NoCall /\ Process(j)' =>
          answer'[obj'[j].call] = "none"
    BY <1>1, <1>4, <2>3 DEF CallsOK, Process
  <2>5. \A d \in Calls : ~Matched(d)' => ~Matched(d)
    BY <1>3, <1>4, NumberFacts DEF Matched
  <2>6. QED
    BY <1>1, <2>1, <2>2, <2>4, <2>5 DEF CallsOK, RpcOf
<1>11. StopOK'
  BY <1>1 DEF StopOK
<1>12. TakersOK'
  <2>1. \A j \in DOMAIN obj : Taker(j)' <=> Taker(j)
    <3>1. SUFFICES ASSUME NEW j \in DOMAIN obj PROVE Taker(j)' <=> Taker(j)
      OBVIOUS
    <3>2. CASE j = i
      BY <1>2, <1>3, <1>4, <3>2 DEF Taker, Process
    <3>3. CASE j # i
      <4>1. Tag(j, TRUE) # Tag(i, TRUE)
        BY <3>3, TagFacts
      <4>2. QED
        BY <1>2, <1>4, <3>3, <4>1 DEF Taker, Process
    <3>4. QED
      BY <3>2, <3>3
  <2>2. QED
    BY <1>1, <1>4, <2>1 DEF TakersOK
<1>13. QED
  BY <1>5, <1>6, <1>7, <1>8, <1>9, <1>10, <1>11, <1>12

LEMMA UnregisterObjects ==
  ASSUME ServerInvariant, NEW t \in Threads, Unregister(t)
  PROVE  TypeOK' /\ ObjectsOK' /\ TakersOK'
<1> USE DEF ServerInvariant, ObjectsOK
<1>1. /\ UNCHANGED <<uuid, answer, obj, listening, serverUp, cqShut, running, cur, mpc, waiter>>
      /\ UNCHANGED <<table, entry, inQ, writer>> /\ rpc' \in {rpc, "loop"}
  BY DEF Unregister, dispatcherVars, serviceVars, AfterProceed
<1>2. PICK e \in cq : /\ obj[e.tag].status = "FINISH" \/ ~e.ok
                      /\ cq' = cq \ {e} /\ alive' = alive \ {e.tag}
  BY DEF Unregister
<1>3. TypeOK'
  BY <1>1, <1>2 DEF TypeOK, CallsType, ObjectsType, EntriesType, WaitersType, ControlType
<1>4. \A i : Queued(i)' => Queued(i)
  BY <1>2 DEF Queued
<1>5. ListenersOK'
  BY <1>1, <1>2, <1>4 DEF ListenersOK, Process, Queued
<1>6. TagsOK'
  BY <1>1, <1>2 DEF TagsOK, Process
<1>7. ServingOK'
  BY <1>1, <1>2, <1>4, TypeFacts DEF ServingOK, Process, Queued
<1>8. WaitersOK'
  BY <1>1, <1>2, <1>4, TypeFacts DEF WaitersOK, Process, Queued, UuidOf
<1>9. CallsOK'
  BY <1>1 DEF CallsOK, Process, RpcOf, Matched
<1>10. StopOK'
  BY <1>1, <1>2 DEF StopOK, Process
<1>11. TakersOK'
  <2>1. ASSUME serverUp, NEW j PROVE Taker(j)' <=> Taker(j)
    <3>1. e.ok /\ obj[e.tag].status = "FINISH"
      BY <1>2, <2>1 DEF TagsOK
    <3>2. Process(j) => Tag(j, TRUE) # e
      BY <3>1, TagFacts DEF Process
    <3>3. QED
      BY <1>1, <1>2, <3>2 DEF Taker, Process
  <2>2. QED
    BY <1>1, <2>1 DEF TakersOK
<1>12. QED
  BY <1>3, <1>5, <1>6, <1>7, <1>8, <1>9, <1>10, <1>11

LEMMA CreateObjects ==
  ASSUME ServerInvariant, NEW t \in Threads, CreateAndRegister(t)
  PROVE  TypeOK' /\ ObjectsOK' /\ TakersOK'
<1> USE DEF ServerInvariant, ObjectsOK
<1>1. PICK n : n = Len(obj) + 1
  OBVIOUS
<1>2. /\ UNCHANGED <<uuid, answer, serverUp, cqShut, running, mpc, rpc, waiter>>
      /\ UNCHANGED <<table, entry, inQ, writer>>
  BY DEF CreateAndRegister, dispatcherVars, serviceVars
<1>3. PICK e \in cq : /\ MayTake(t) /\ obj[e.tag].status = "PROCESS" /\ e.ok
                      /\ obj' = Append(obj, Listener(obj[e.tag].rpc))
                      /\ alive' = alive \cup {n}
                      /\ IF serverUp
                         THEN listening' = listening \cup {n} /\ cq' = cq \ {e}
                         ELSE cq' = (cq \ {e}) \cup {Tag(n, FALSE)} /\ listening' = listening
                      /\ cur' = [cur EXCEPT ![t] = e.tag]
  BY <1>1 DEF CreateAndRegister
<1>4. /\ obj \in Seq(Objects) /\ obj[e.tag].rpc \in Rpcs /\ e.tag \in DOMAIN obj
      /\ e.tag \in alive /\ obj[e.tag].call # NoCall /\ cur[t] = 0
  BY <1>3, TypeFacts DEF TypeOK, ObjectsType, Objects, TagsOK, MayTake
<1>5. /\ obj' \in Seq(Objects) /\ Len(obj') = Len(obj) + 1
      /\ DOMAIN obj' = DOMAIN obj \cup {n} /\ n \notin DOMAIN obj
      /\ obj'[n] = Listener(obj[e.tag].rpc)
      /\ \A j \in DOMAIN obj : obj'[j] = obj[j]
  <2>1. Appended(obj, obj[e.tag].rpc, obj')
    BY <1>3, <1>4, ObjectAppend
  <2>2. QED
    BY <1>1, <2>1 DEF Appended
<1>6. obj'[n].rpc = obj[e.tag].rpc /\ obj'[n].status = "PROCESS" /\ obj'[n].call = NoCall
  BY <1>5 DEF Listener
<1>7. cur'[t] = e.tag /\ \A s \in Threads : s # t => cur'[s] = cur[s]
  BY <1>3 DEF TypeOK, ObjectsType
<1>8. \A x \in cq' : x \in cq \ {e} \/ (~serverUp /\ x = Tag(n, FALSE))
  BY <1>3
<1>9. /\ \A x \in cq : x.tag \in DOMAIN obj
      /\ \A j \in DOMAIN obj : Queued(j)' => Queued(j) /\ j # e.tag
  <2>1. \A x \in cq : x.tag \in DOMAIN obj
    BY TypeFacts
  <2>2. ASSUME NEW j \in DOMAIN obj, Queued(j)' PROVE Queued(j) /\ j # e.tag
    <3>1. PICK x \in cq' : x.tag = j
      BY <2>2 DEF Queued
    <3>2. x \in cq \ {e}
      BY <1>5, <1>8, <3>1, TagFacts
    <3>3. QED
      BY <3>1, <3>2 DEF Queued, TagsOK
  <2>3. QED
    BY <2>1, <2>2
<1>10. TypeOK'
  <2>1. ObjectsType'
    <3>1. cur' \in [Threads -> 0..Len(obj')]
      BY <1>3, <1>4, <1>5, TypeFacts DEF TypeOK, ObjectsType
    <3>2. \A x \in cq' : x \in [tag : DOMAIN obj', ok : BOOLEAN]
      <4>1. Tag(n, FALSE) \in [tag : DOMAIN obj', ok : BOOLEAN]
        BY <1>5 DEF Tag
      <4>2. \A x \in cq : x \in [tag : DOMAIN obj, ok : BOOLEAN]
        BY DEF TypeOK, ObjectsType
      <4>3. \A x \in cq : x \in [tag : DOMAIN obj', ok : BOOLEAN]
        BY <1>5, <4>2
      <4>4. QED
        BY <1>8, <4>1, <4>3
    <3>3. alive' \subseteq DOMAIN obj' /\ listening' \subseteq DOMAIN obj'
      BY <1>3, <1>5 DEF TypeOK, ObjectsType
    <3>4. QED
      BY <1>5, <3>1, <3>2, <3>3 DEF ObjectsType
  <2>2. WaitersType'
    BY <1>2, <1>5 DEF TypeOK, WaitersType
  <2>3. QED
    BY <1>2, <2>1, <2>2 DEF TypeOK, CallsType, EntriesType, ControlType
<1>11. ListenersOK'
  <2>1. ASSUME NEW i \in listening', i # n
        PROVE  serverUp /\ i \in alive /\ Process(i) /\ obj[i].call = NoCall /\ ~Queued(i)
    BY <1>3, <2>1 DEF ListenersOK
  <2>2. n \in listening' => serverUp /\ ~Queued(n)'
    <3>1. n \in listening' => serverUp
      BY <1>3, <1>5 DEF TypeOK, ObjectsType
    <3>2. serverUp => ~Queued(n)'
      BY <1>5, <1>8, <1>9 DEF Queued
    <3>3. QED
      BY <3>1, <3>2
  <2>3. QED
    BY <1>2, <1>3, <1>5, <1>6, <1>9, <2>1, <2>2 DEF ListenersOK, Process, TypeOK, ObjectsType
<1>12. TagsOK'
  <2>a. /\ \A x \in cq : x.tag \in DOMAIN obj /\ obj'[x.tag] = obj[x.tag]
        /\ Tag(n, FALSE).tag = n /\ ~Tag(n, FALSE).ok
    BY <1>5, <1>9, TagFacts
  <2>1. \A x \in cq' : x.tag \in alive' /\ (x.ok => obj'[x.tag].call # NoCall)
    BY <1>3, <1>8, <2>a DEF TagsOK
  <2>2. \A x \in cq' : ~x.ok => obj'[x.tag].call = NoCall /\ ~serverUp'
    BY <1>2, <1>6, <1>8, <2>a DEF TagsOK
  <2>3. \A x, y \in cq' : x.tag = y.tag => x = y
    <3>1. \A x, y \in cq : x.tag = y.tag => x = y
      BY DEF TagsOK
    <3>2. \A x \in cq : x.tag # Tag(n, FALSE).tag
      <4>1. Tag(n, FALSE).tag = n
        BY TagFacts
      <4>2. QED
        BY <1>5, <1>9, <4>1
    <3>3. QED
      BY <1>8, <3>1, <3>2, Zenon
  <2>4. QED
    BY <2>1, <2>2, <2>3 DEF TagsOK
<1>13. ServingOK'
  <2>1. \A s \in Threads : s # t => cur[s] # e.tag
    BY <1>4 DEF ServingOK, Queued
  <2>2. \A s \in Threads : cur[s] # 0 => cur[s] \in DOMAIN obj
    BY TypeFacts
  <2>3. QED
    BY <1>3, <1>4, <1>5, <1>7, <1>9, <2>1, <2>2 DEF ServingOK, Process
<1>14. WaitersOK'
  <2>1. \A w \in waiter : w.self \in DOMAIN obj
    BY TypeFacts
  <2>2. \A w \in waiter : w.at # "gone" => w.self # e.tag
    BY DEF WaitersOK, Queued
  <2>3. QED
    BY <1>2, <1>3, <1>5, <1>7, <1>9, <2>1, <2>2 DEF WaitersOK, Process, UuidOf
<1>15. CallsOK'
  BY <1>2, <1>5, <1>6 DEF CallsOK, Process, RpcOf, Matched
<1>16. StopOK'
  <2>1. mpc \notin {"join", "stopped"}
    BY DEF StopOK
  <2>2. QED
    BY <1>2, <1>5, <1>6, <2>1 DEF StopOK, Process
<1>17. TakersOK'
  <2>1. SUFFICES ASSUME serverUp PROVE TakersOK'
    BY <1>2 DEF TakersOK
  <2>2. listening' = listening \cup {n} /\ cq' = cq \ {e}
    BY <1>3, <2>1
  <2>3. e = Tag(e.tag, TRUE)
    BY <1>3, TypeFacts DEF Tag, TypeOK, ObjectsType
  <2>4. Taker(e.tag) /\ Taker(n)'
    BY <1>3, <2>2, <2>3 DEF Taker, Process
  <2>5. ASSUME NEW j \in DOMAIN obj PROVE Taker(j)' <=> Taker(j) /\ j # e.tag
    BY <1>3, <1>4, <1>5, <2>2, <2>3, TagFacts DEF Taker, Process, ListenersOK
  <2>6. QED
    BY <1>2, <1>4, <1>5, <1>6, <2>1, <2>4, <2>5 DEF TakersOK
<1>18. QED
  BY <1>10, <1>11, <1>12, <1>13, <1>14, <1>15, <1>16, <1>17

(***************************************************************************)
(* status_ = FINISH and Finish, by whoever has the object in hand.         *)
(***************************************************************************)
Answers == {"OK", "INVALID_ARGUMENT", "DEADLINE_EXCEEDED"}

LEMMA FinishFacts ==
  ASSUME ServerInvariant, NEW i \in alive, NEW a \in Answers,
         Process(i), obj[i].call # NoCall, ~Queued(i),
         obj' = [obj EXCEPT ![i].status = "FINISH"], Finish(i, a),
         UNCHANGED <<uuid, alive, listening, serverUp, mpc, cqShut>>
  PROVE  /\ StatusSet(obj, i, obj') /\ i \in DOMAIN obj
         /\ \A j : j # i => (Queued(j)' <=> Queued(j))
         /\ cq' \subseteq [tag : DOMAIN obj, ok : BOOLEAN]
         /\ answer' \in [Calls -> {"none", "OK", "INVALID_ARGUMENT", "DEADLINE_EXCEEDED",
                                   "UNAVAILABLE"}]
         /\ ListenersOK' /\ TagsOK' /\ CallsOK' /\ StopOK' /\ TakersOK'
<1> USE DEF ServerInvariant, ObjectsOK
<1>1. i \in DOMAIN obj /\ obj \in Seq(Objects) /\ obj[i].call \in Calls
  BY TypeFacts DEF TypeOK, ObjectsType
<1>2. StatusSet(obj, i, obj')
  BY <1>1, StatusUpdate
<1>3. /\ DOMAIN obj' = DOMAIN obj /\ obj'[i].status = "FINISH"
      /\ \A j \in DOMAIN obj : obj'[j].call = obj[j].call /\ obj'[j].rpc = obj[j].rpc
      /\ \A j \in DOMAIN obj : j # i => obj'[j] = obj[j]
  BY <1>2 DEF StatusSet
<1>4. cq' = cq \cup {Tag(i, TRUE)} /\ answer' = [answer EXCEPT ![obj[i].call] = a]
  BY DEF Finish
<1>5. /\ \A x \in cq' : x \in cq \/ x = Tag(i, TRUE)
      /\ \A j : j # i => (Queued(j)' <=> Queued(j))
      /\ \A e \in cq : e.tag # i
  BY <1>4, TagFacts DEF Queued
<1>6. cq' \subseteq [tag : DOMAIN obj, ok : BOOLEAN]
  <2>1. Tag(i, TRUE) \in [tag : DOMAIN obj, ok : BOOLEAN]
    BY <1>1 DEF Tag
  <2>2. QED
    BY <1>5, <2>1 DEF TypeOK, ObjectsType
<1>7. /\ \A c \in Calls : c # obj[i].call => answer'[c] = answer[c]
      /\ answer' \in [Calls -> {"none", "OK", "INVALID_ARGUMENT", "DEADLINE_EXCEEDED",
                                "UNAVAILABLE"}]
  BY <1>1, <1>4 DEF TypeOK, CallsType, Answers
<1>8. ListenersOK'
  <2>1. i \notin listening
    BY DEF ListenersOK
  <2>2. QED
    BY <1>3, <1>5, <2>1 DEF ListenersOK, Process, TypeOK, ObjectsType
<1>9. TagsOK'
  <2>1. \A x \in cq' : x.tag \in alive' /\ (x.ok => obj'[x.tag].call # NoCall)
    <3>1. \A x \in cq : x.tag \in alive /\ (x.ok => obj[x.tag].call # NoCall)
      BY DEF TagsOK
    <3>2. \A x \in cq : obj'[x.tag] = obj[x.tag]
      BY <1>3, <1>5, TypeFacts
    <3>3. Tag(i, TRUE).tag \in alive /\ obj'[Tag(i, TRUE).tag].call # NoCall
      <4>1. Tag(i, TRUE).tag = i
        BY TagFacts
      <4>2. QED
        BY <1>1, <1>3, <4>1
    <3>4. QED
      BY <1>5, <3>1, <3>2, <3>3
  <2>2. \A x \in cq' : ~x.ok => obj'[x.tag].call = NoCall /\ ~serverUp'
    <3>1. \A x \in cq : ~x.ok => obj[x.tag].call = NoCall /\ ~serverUp
      BY DEF TagsOK
    <3>2. \A x \in cq : obj'[x.tag] = obj[x.tag]
      BY <1>3, <1>5, TypeFacts
    <3>3. Tag(i, TRUE).ok
      BY TagFacts
    <3>4. QED
      BY <1>5, <3>1, <3>2, <3>3
  <2>3. \A x, y \in cq' : x.tag = y.tag => x = y
    BY <1>5, TagFacts, Zenon DEF TagsOK
  <2>4. QED
    BY <2>1, <2>2, <2>3 DEF TagsOK
<1>10. CallsOK'
  <2>1. \A c \in Calls : Matched(c)' <=> Matched(c)
    BY <1>3 DEF Matched
  <2>2. \A j \in DOMAIN obj : j # i /\ obj[j].call # NoCall => obj[j].call # obj[i].call
    BY <1>1 DEF CallsOK
  <2>3. \A j \in DOMAIN obj' : obj'[j].call # NoCall /\ Process(j)' =>
          answer'[obj'[j].call] = "none"
    BY <1>3, <1>7, <2>2, TypeFacts DEF CallsOK, Process
  <2>4. Matched(obj[i].call)
    BY <1>1 DEF Matched
  <2>5. serverUp' => \A c \in Calls : ~Matched(c)' => answer'[c] = "none"
    BY <1>7, <2>1, <2>4 DEF CallsOK
  <2>6. QED
    BY <1>3, <2>3, <2>5 DEF CallsOK, RpcOf
<1>11. StopOK'
  <2>1. mpc \notin {"closer", "drain", "join", "stopped"}
    BY <1>1 DEF StopOK
  <2>2. QED
    BY <2>1 DEF StopOK
<1>12. TakersOK'
  <2>1. \A j \in DOMAIN obj : Taker(j)' <=> Taker(j)
    <3>1. SUFFICES ASSUME NEW j \in DOMAIN obj PROVE Taker(j)' <=> Taker(j)
      OBVIOUS
    <3>2. CASE j = i
      <4>1. Tag(i, TRUE) \notin cq
        BY <1>5, TagFacts
      <4>2. QED
        BY <1>3, <3>2, <4>1 DEF Taker, Process
    <3>3. CASE j # i
      <4>1. Tag(j, TRUE) # Tag(i, TRUE)
        BY <3>3, TagFacts
      <4>2. QED
        BY <1>3, <1>4, <3>3, <4>1 DEF Taker, Process
    <3>4. QED
      BY <3>2, <3>3
  <2>2. QED
    BY <1>3, <2>1 DEF TakersOK
<1>13. QED
  BY <1>1, <1>2, <1>5, <1>6, <1>7, <1>8, <1>9, <1>10, <1>11, <1>12

LEMMA ServeObjects ==
  ASSUME ServerInvariant, NEW t \in Threads, ServeDirect(t) \/ RefuseUuid(t)
  PROVE  TypeOK' /\ ObjectsOK' /\ TakersOK'
<1> USE DEF ServerInvariant, ObjectsOK
<1>1. PICK i : i = cur[t]
  OBVIOUS
<1>2. /\ i # 0 /\ obj' = [obj EXCEPT ![i].status = "FINISH"]
      /\ cur' = [cur EXCEPT ![t] = 0] /\ rpc' \in {rpc, "loop"}
      /\ UNCHANGED <<uuid, alive, listening, serverUp, cqShut, running, mpc, waiter>>
      /\ UNCHANGED <<table, entry, writer>>
      /\ inQ' = inQ \/ inQ' = inQ \cup {obj[i].call}
  BY <1>1 DEF ServeDirect, HandOver, RefuseUuid, AfterProceed, dispatcherVars, serviceVars
<1>3. PICK a \in Answers : Finish(i, a)
  BY <1>1 DEF ServeDirect, RefuseUuid, Answers
<1>4. i \in alive /\ Process(i) /\ obj[i].call # NoCall /\ ~Queued(i)
  BY <1>1, <1>2 DEF ServingOK
<1>5. /\ StatusSet(obj, i, obj') /\ i \in DOMAIN obj
      /\ \A j : j # i => (Queued(j)' <=> Queued(j))
      /\ cq' \subseteq [tag : DOMAIN obj, ok : BOOLEAN]
      /\ answer' \in [Calls -> {"none", "OK", "INVALID_ARGUMENT", "DEADLINE_EXCEEDED",
                                "UNAVAILABLE"}]
      /\ ListenersOK' /\ TagsOK' /\ CallsOK' /\ StopOK' /\ TakersOK'
  BY <1>2, <1>3, <1>4, FinishFacts
<1>6. /\ obj' \in Seq(Objects) /\ Len(obj') = Len(obj) /\ DOMAIN obj' = DOMAIN obj
      /\ obj'[i].status = "FINISH"
      /\ \A j \in DOMAIN obj : obj'[j].call = obj[j].call
      /\ \A j \in DOMAIN obj : j # i => obj'[j] = obj[j]
  BY <1>5 DEF StatusSet
<1>7. cur'[t] = 0 /\ \A s \in Threads : s # t => cur'[s] = cur[s]
  BY <1>2 DEF TypeOK, ObjectsType
<1>8. TypeOK'
  <2>1. ObjectsType'
    BY <1>2, <1>5, <1>6, TypeFacts DEF TypeOK, ObjectsType
  <2>2. CallsType'
    BY <1>2, <1>4, <1>5, TypeFacts DEF TypeOK, CallsType
  <2>3. QED
    BY <1>2, <1>6, <2>1, <2>2 DEF TypeOK, EntriesType, WaitersType, ControlType
<1>9. ServingOK'
  <2>1. \A s \in Threads : s # t => cur[s] # i
    BY <1>1, <1>2 DEF ServingOK
  <2>2. QED
    BY <1>2, <1>5, <1>6, <1>7, <2>1, TypeFacts DEF ServingOK, Process
<1>10. WaitersOK'
  <2>1. \A w \in waiter : w.self \in DOMAIN obj /\ (w.at # "gone" => w.self # i /\ w.self # 0)
    BY <1>1, TypeFacts DEF WaitersOK
  <2>2. QED
    BY <1>2, <1>5, <1>6, <1>7, <2>1 DEF WaitersOK, Process, UuidOf
<1>11. QED
  BY <1>5, <1>8, <1>9, <1>10

LEMMA StartWaiterObjects ==
  ASSUME ServerInvariant, NEW t \in Threads, StartWaiter(t)
  PROVE  TypeOK' /\ ObjectsOK' /\ TakersOK'
<1> USE DEF ServerInvariant, ObjectsOK
<1>1. PICK i : i = cur[t]
  OBVIOUS
<1>2. PICK x : x = [self |-> i, at |-> "find", entry |-> 0, result |-> None]
  OBVIOUS
<1>3. /\ i # 0 /\ obj[i].rpc = "Request" /\ uuid[obj[i].call] # Bad
      /\ inQ' \in {inQ, inQ \cup {obj[i].call}} /\ waiter' = waiter \cup {x}
      /\ cur' = [cur EXCEPT ![t] = 0] /\ rpc' \in {rpc, "loop"}
      /\ UNCHANGED <<uuid, answer, obj, alive, listening, cq, serverUp, cqShut, running, mpc>>
      /\ UNCHANGED <<table, entry, writer>>
  BY <1>1, <1>2 DEF StartWaiter, HandOver, AfterProceed, dispatcherVars, grpcVars
<1>4. /\ i \in alive /\ Process(i) /\ obj[i].call # NoCall /\ ~Queued(i) /\ i \in DOMAIN obj
      /\ obj[i].call \in Calls
  BY <1>1, <1>3, TypeFacts DEF ServingOK
<1>5. x.self = i /\ x.at = "find" /\ x.entry = 0 /\ x.result = None
  BY <1>2
<1>6. cur'[t] = 0 /\ \A s \in Threads : s # t => cur'[s] = cur[s]
  BY <1>3 DEF TypeOK, ObjectsType
<1>7. TypeOK'
  <2>1. x \in [self : DOMAIN obj, at : Steps, entry : 0..Len(entry), result : Values]
    BY <1>2, <1>4, TypeFacts DEF Steps, Values
  <2>2. WaitersType'
    BY <1>3, <2>1 DEF TypeOK, WaitersType
  <2>3. ObjectsType'
    BY <1>3, TypeFacts DEF TypeOK, ObjectsType
  <2>4. CallsType'
    BY <1>3, <1>4 DEF TypeOK, CallsType
  <2>5. QED
    BY <1>3, <2>2, <2>3, <2>4 DEF TypeOK, EntriesType, ControlType
<1>8. ListenersOK' /\ TagsOK' /\ CallsOK' /\ StopOK' /\ TakersOK'
  <2>1. ListenersOK' /\ TagsOK'
    BY <1>3 DEF ListenersOK, TagsOK, Process, Queued
  <2>2. CallsOK' /\ StopOK'
    <3>1. CallsOK'
      BY <1>3 DEF CallsOK, Process, RpcOf, Matched
    <3>2. StopOK'
      BY <1>3 DEF StopOK, Process
    <3>3. QED
      BY <3>1, <3>2
  <2>3. TakersOK'
    <3>1. \A j : Taker(j)' <=> Taker(j)
      BY <1>3 DEF Process, Taker
    <3>2. QED
      BY <1>3, <3>1 DEF TakersOK
  <2>4. QED
    BY <2>1, <2>2, <2>3
<1>9. ServingOK'
  BY <1>3, <1>6 DEF ServingOK, Process, Queued
<1>10. WaitersOK'
  <2>1. uuid[obj[i].call] \in Uuids
    <3>1. uuid[obj[i].call] \in Uuids \cup {Bad, Event, Unset}
      BY <1>4 DEF TypeOK, CallsType
    <3>2. obj[i].rpc = RpcOf(obj[i].call) /\ uuid[obj[i].call] # Unset
      BY <1>4 DEF CallsOK
    <3>3. QED
      BY <1>3, <3>1, <3>2 DEF RpcOf
  <2>2. \A w \in waiter : w.self # i
    BY <1>1, <1>4 DEF WaitersOK
  <2>3. \A s \in Threads : cur'[s] # i
    <3>1. \A s \in Threads : s # t => cur[s] # i
      BY <1>1, <1>3 DEF ServingOK
    <3>2. QED
      BY <1>3, <1>6, <3>1
  <2>4. \A s \in Threads, w \in waiter : cur[s] # w.self => cur'[s] # w.self
    <3>1. \A w \in waiter : w.self # 0
      BY TypeFacts
    <3>2. QED
      BY <1>6, <3>1
  <2>5. \A w \in waiter' : obj'[w.self].call # NoCall /\ UuidOf(w)' \in Uuids
    BY <1>3, <1>4, <1>5, <2>1 DEF WaitersOK, UuidOf
  <2>6. \A w \in waiter' : w.at # "gone" =>
          /\ w.self \in alive' /\ Process(w.self)' /\ ~Queued(w.self)'
          /\ \A s \in Threads : cur'[s] # w.self
    BY <1>3, <1>4, <1>5, <2>3, <2>4 DEF WaitersOK, Process, Queued
  <2>7. \A w \in waiter' : w.at = "gone" => ~Process(w.self)'
    BY <1>3, <1>5 DEF WaitersOK, Process
  <2>8. \A v, w \in waiter' : v.self = w.self => v = w
    BY <1>3, <1>5, <2>2 DEF WaitersOK
  <2>9. QED
    BY <2>5, <2>6, <2>7, <2>8 DEF WaitersOK
<1>11. QED
  BY <1>7, <1>8, <1>9, <1>10

(***************************************************************************)
(* A detached thread on its way, and its end.                              *)
(***************************************************************************)
LEMMA WaiterObjects ==
  ASSUME ServerInvariant, NEW w \in waiter, NEW x, Step(w, {x}),
         x.self = w.self, x.at # "gone", w.at # "gone", UNCHANGED <<grpcVars, threadVars>>
  PROVE  ObjectsOK' /\ TakersOK'
<1> USE DEF ServerInvariant, ObjectsOK, grpcVars, threadVars
<1>1. waiter' = (waiter \ {w}) \cup {x}
  BY DEF Step
<1>2. ListenersOK' /\ TagsOK' /\ ServingOK'
  BY DEF ListenersOK, TagsOK, ServingOK, Process, Queued
<1>3. CallsOK' /\ StopOK'
  <2>1. CallsOK'
    BY DEF CallsOK, Process, RpcOf, Matched
  <2>2. StopOK'
    BY DEF StopOK, Process
  <2>3. QED
    BY <2>1, <2>2
<1>4. TakersOK'
  <2>1. \A j : Taker(j)' <=> Taker(j)
    BY DEF Process, Taker
  <2>2. QED
    BY <2>1 DEF TakersOK
<1>5. WaitersOK'
  BY <1>1 DEF WaitersOK, Process, Queued, UuidOf
<1>6. QED
  BY <1>2, <1>3, <1>4, <1>5

LEMMA WaiterFinishObjects ==
  ASSUME ServerInvariant, NEW w \in waiter, WaiterFinish(w)
  PROVE  TypeOK' /\ ObjectsOK' /\ TakersOK'
<1> USE DEF ServerInvariant, ObjectsOK
<1>1. PICK i : i = w.self
  OBVIOUS
<1>2. PICK x : x = [w EXCEPT !.at = "gone"]
  OBVIOUS
<1>3. /\ w.at = "finish" /\ obj' = [obj EXCEPT ![i].status = "FINISH"]
      /\ waiter' = (waiter \ {w}) \cup {x}
      /\ UNCHANGED <<uuid, alive, listening, serverUp, cqShut, running, cur, rpc, mpc>>
      /\ UNCHANGED <<table, entry, inQ, writer>>
  BY <1>1, <1>2 DEF WaiterFinish, Step, dispatcherVars, threadVars, serviceVars
<1>4. PICK a \in Answers : Finish(i, a)
  BY <1>1 DEF WaiterFinish, Answers
<1>5. /\ i \in alive /\ Process(i) /\ obj[i].call # NoCall /\ ~Queued(i)
      /\ \A t \in Threads : cur[t] # i
  BY <1>1, <1>3 DEF WaitersOK
<1>6. /\ StatusSet(obj, i, obj') /\ i \in DOMAIN obj
      /\ \A j : j # i => (Queued(j)' <=> Queued(j))
      /\ cq' \subseteq [tag : DOMAIN obj, ok : BOOLEAN]
      /\ answer' \in [Calls -> {"none", "OK", "INVALID_ARGUMENT", "DEADLINE_EXCEEDED",
                                "UNAVAILABLE"}]
      /\ ListenersOK' /\ TagsOK' /\ CallsOK' /\ StopOK' /\ TakersOK'
  BY <1>3, <1>4, <1>5, FinishFacts
<1>7. /\ obj' \in Seq(Objects) /\ Len(obj') = Len(obj) /\ DOMAIN obj' = DOMAIN obj
      /\ obj'[i].status = "FINISH"
      /\ \A j \in DOMAIN obj : obj'[j].call = obj[j].call
      /\ \A j \in DOMAIN obj : j # i => obj'[j] = obj[j]
  BY <1>6 DEF StatusSet
<1>8. /\ w \in [self : DOMAIN obj, at : Steps, entry : 0..Len(entry), result : Values]
      /\ x \in [self : DOMAIN obj, at : Steps, entry : 0..Len(entry), result : Values]
      /\ x.self = i /\ x.at = "gone"
  BY <1>1, <1>2 DEF TypeOK, WaitersType, Steps
<1>9. TypeOK'
  <2>1. ObjectsType'
    BY <1>3, <1>6, <1>7 DEF TypeOK, ObjectsType
  <2>2. CallsType'
    BY <1>3, <1>6 DEF TypeOK, CallsType
  <2>3. WaitersType'
    BY <1>3, <1>7, <1>8 DEF TypeOK, WaitersType
  <2>4. QED
    BY <1>3, <2>1, <2>2, <2>3 DEF TypeOK, EntriesType, ControlType
<1>10. ServingOK'
  BY <1>3, <1>5, <1>6, <1>7, TypeFacts DEF ServingOK, Process
<1>11. WaitersOK'
  <2>1. \A v \in waiter : v # w => v.self # i /\ v.self \in DOMAIN obj
    BY <1>1, TypeFacts DEF WaitersOK
  <2>2. \A v \in waiter' : obj'[v.self].call # NoCall /\ UuidOf(v)' \in Uuids
    BY <1>1, <1>3, <1>6, <1>7, <1>8, <2>1 DEF WaitersOK, UuidOf
  <2>3. \A v \in waiter' : v.at # "gone" =>
          /\ v.self \in alive' /\ Process(v.self)' /\ ~Queued(v.self)'
          /\ \A s \in Threads : cur'[s] # v.self
    BY <1>3, <1>6, <1>7, <1>8, <2>1 DEF WaitersOK, Process
  <2>4. \A v \in waiter' : v.at = "gone" => ~Process(v.self)'
    BY <1>3, <1>7, <1>8, <2>1 DEF WaitersOK, Process
  <2>5. \A u, v \in waiter' : u.self = v.self => u = v
    BY <1>3, <1>8, <2>1 DEF WaitersOK
  <2>6. QED
    BY <2>2, <2>3, <2>4, <2>5 DEF WaitersOK
<1>12. QED
  BY <1>6, <1>9, <1>10, <1>11

(***************************************************************************)
(* The dispatcher and the service do not touch the objects.                *)
(***************************************************************************)
LEMMA ObjectsApart ==
  ASSUME ServerInvariant, UNCHANGED <<grpcVars, serverUp, cqShut, cur, mpc, waiter>>
  PROVE  ObjectsOK' /\ TakersOK'
<1> USE DEF ServerInvariant, ObjectsOK, grpcVars
<1>1. ListenersOK' /\ TagsOK' /\ ServingOK'
  BY DEF ListenersOK, TagsOK, ServingOK, Process, Queued
<1>2. CallsOK' /\ StopOK'
  <2>1. CallsOK'
    BY DEF CallsOK, Process, RpcOf, Matched
  <2>2. StopOK'
    BY DEF StopOK, Process
  <2>3. QED
    BY <2>1, <2>2
<1>3. TakersOK'
  <2>1. \A j : Taker(j)' <=> Taker(j)
    BY DEF Process, Taker
  <2>2. QED
    BY <2>1 DEF TakersOK
<1>4. WaitersOK'
  BY DEF WaitersOK, Process, Queued, UuidOf
<1>5. QED
  BY <1>1, <1>2, <1>3, <1>4

(***************************************************************************)
(* Stop.                                                                   *)
(***************************************************************************)
LEMMA ShutdownObjects ==
  ASSUME ServerInvariant, ShutdownBegin
  PROVE  TypeOK' /\ ObjectsOK' /\ TakersOK'
<1> USE DEF ServerInvariant, ObjectsOK
<1>1. /\ mpc = "up" /\ mpc' = "shutdown" /\ serverUp' = FALSE /\ listening' = {}
      /\ cq' = cq \cup {Tag(i, FALSE) : i \in listening}
      /\ UNCHANGED <<uuid, obj, alive, cqShut, running, cur, rpc, waiter>>
      /\ UNCHANGED <<table, entry, inQ, writer>>
  BY DEF ShutdownBegin, dispatcherVars, serviceVars
<1>2. \A c \in Calls : answer'[c] = IF uuid[c] # Unset /\ ~Matched(c)
                                    THEN "UNAVAILABLE" ELSE answer[c]
  BY DEF ShutdownBegin
<1>3. /\ \A x \in cq' : x \in cq \/ (x.tag \in listening /\ ~x.ok /\ x = Tag(x.tag, FALSE))
      /\ \A j : Queued(j)' => Queued(j) \/ j \in listening
      /\ \A i \in listening : ~Queued(i) /\ i \in alive /\ obj[i].call = NoCall
  <2>1. \A x \in cq' : x \in cq \/ \E i \in listening : x = Tag(i, FALSE)
    BY <1>1
  <2>2. ASSUME NEW x \in cq', x \notin cq
        PROVE  x.tag \in listening /\ ~x.ok /\ x = Tag(x.tag, FALSE)
    <3>1. PICK i \in listening : x = Tag(i, FALSE)
      BY <2>1, <2>2
    <3>2. x.tag = i /\ ~x.ok
      BY <3>1, TagFacts
    <3>3. QED
      BY <3>1, <3>2
  <2>3. \A j : Queued(j)' => Queued(j) \/ j \in listening
    BY <2>2 DEF Queued
  <2>4. \A i \in listening : ~Queued(i) /\ i \in alive /\ obj[i].call = NoCall
    BY DEF ListenersOK
  <2>5. QED
    BY <2>2, <2>3, <2>4
<1>4. TypeOK'
  <2>1. CallsType'
    BY <1>1 DEF TypeOK, CallsType, ShutdownBegin
  <2>2. \A x \in cq' : x \in [tag : DOMAIN obj, ok : BOOLEAN]
    <3>1. \A i \in listening : Tag(i, FALSE) \in [tag : DOMAIN obj, ok : BOOLEAN]
      BY DEF TypeOK, ObjectsType, Tag
    <3>2. QED
      BY <1>3, <3>1 DEF TypeOK, ObjectsType
  <2>3. ObjectsType'
    BY <1>1, <2>2 DEF TypeOK, ObjectsType
  <2>4. ControlType'
    BY <1>1, Zenon DEF TypeOK, ControlType
  <2>5. QED
    BY <1>1, <2>1, <2>3, <2>4 DEF TypeOK, EntriesType, WaitersType
<1>5. ListenersOK' /\ TakersOK'
  BY <1>1 DEF ListenersOK, TakersOK
<1>6. TagsOK'
  <2>1. \A x \in cq' : x.tag \in alive' /\ (x.ok => obj'[x.tag].call # NoCall)
    BY <1>1, <1>3 DEF TagsOK
  <2>2. \A x \in cq' : ~x.ok => obj'[x.tag].call = NoCall /\ ~serverUp'
    BY <1>1, <1>3 DEF TagsOK
  <2>3. \A x, y \in cq' : x.tag = y.tag => x = y
    <3>1. \A x, y \in cq : x.tag = y.tag => x = y
      BY DEF TagsOK
    <3>2. \A x \in cq : x.tag \notin listening
      BY <1>3 DEF Queued
    <3>3. QED
      BY <1>3, <3>1, <3>2, Zenon
  <2>4. QED
    BY <2>1, <2>2, <2>3 DEF TagsOK
<1>7. ServingOK'
  BY <1>1, <1>3 DEF ServingOK, Process
<1>8. WaitersOK'
  BY <1>1, <1>3 DEF WaitersOK, Process, UuidOf
<1>9. CallsOK'
  <2>1. \A i \in DOMAIN obj : obj[i].call # NoCall => Matched(obj[i].call) /\ obj[i].call \in Calls
    BY TypeFacts DEF Matched
  <2>2. QED
    BY <1>1, <1>2, <2>1 DEF CallsOK, Process, RpcOf
<1>10. StopOK'
  BY <1>1 DEF StopOK
<1>11. QED
  BY <1>4, <1>5, <1>6, <1>7, <1>8, <1>9, <1>10

LEMMA StopObjects ==
  ASSUME ServerInvariant, StopRest
  PROVE  TypeOK' /\ ObjectsOK' /\ TakersOK'
<1> USE DEF ServerInvariant, ObjectsOK
<1>1. /\ UNCHANGED <<uuid, answer, obj, listening, cq, serverUp, cur, rpc, waiter>>
      /\ UNCHANGED <<table, entry, inQ, writer>>
      /\ mpc # "up" /\ mpc' # "up"
  BY DEF StopRest, ShutdownReturns, CloserShutdown, DrainEnds, JoinAndClear, grpcVars,
         dispatcherVars, serviceVars
<1>2. alive' = alive \/ (mpc = "join" /\ mpc' = "stopped" /\ alive' = {})
  BY DEF StopRest, ShutdownReturns, CloserShutdown, DrainEnds, JoinAndClear, grpcVars
<1>3. TypeOK'
  <2>1. ControlType'
    BY <1>1, Zenon DEF StopRest, ShutdownReturns, CloserShutdown, DrainEnds, JoinAndClear,
                       TypeOK, ControlType
  <2>2. QED
    BY <1>1, <1>2, <2>1 DEF TypeOK, CallsType, ObjectsType, EntriesType, WaitersType
<1>4. ~serverUp
  BY <1>1 DEF StopOK
<1>5. mpc = "join" => cq = {} /\ \A i \in DOMAIN obj : Process(i) => obj[i].call = NoCall
  BY DEF StopOK
<1>6. listening = {}
  BY <1>4 DEF ListenersOK
<1>7. ListenersOK' /\ TakersOK' /\ CallsOK'
  BY <1>1, <1>4, <1>6 DEF ListenersOK, TakersOK, CallsOK, Process, RpcOf
<1>8. TagsOK'
  BY <1>1, <1>2, <1>5 DEF TagsOK
<1>9. ServingOK'
  BY <1>1, <1>2, <1>5, TypeFacts DEF ServingOK, Process, Queued
<1>10. WaitersOK'
  BY <1>1, <1>2, <1>5, TypeFacts DEF WaitersOK, Process, Queued, UuidOf
<1>11. StopOK'
  <2>1. serverUp' <=> mpc' = "up"
    BY <1>1, <1>4
  <2>2. CASE ShutdownReturns
    <3>1. AllAnswered /\ mpc = "shutdown" /\ mpc' = "closer" /\ cqShut' = cqShut
      BY <2>2 DEF ShutdownReturns
    <3>2. ASSUME NEW i \in DOMAIN obj, Process(i), obj[i].call # NoCall PROVE FALSE
      <4>1. obj[i].call \in Calls /\ answer[obj[i].call] = "none" /\ Matched(obj[i].call)
        BY <3>2, TypeFacts DEF CallsOK, Matched
      <4>2. QED
        BY <3>1, <4>1 DEF AllAnswered
    <3>3. QED
      BY <1>1, <2>1, <3>1, <3>2 DEF StopOK, Process
  <2>3. CASE CloserShutdown
    BY <1>1, <2>1, <2>3 DEF StopOK, CloserShutdown, Process
  <2>4. CASE DrainEnds
    BY <1>1, <2>1, <2>4 DEF StopOK, DrainEnds, NextReturnsFalse, Process
  <2>5. CASE JoinAndClear
    BY <1>1, <2>1, <2>5 DEF StopOK, JoinAndClear, Process
  <2>6. QED
    BY <2>2, <2>3, <2>4, <2>5 DEF StopRest
<1>12. QED
  BY <1>3, <1>7, <1>8, <1>9, <1>10, <1>11

------------------------------------------------------------------------------
(***************************************************************************)
(* The replies, action by action.                                          *)
(***************************************************************************)
LEMMA ReplyFacts ==
  ASSUME ServerInvariant
  PROVE  /\ \A w \in waiter : /\ obj[w.self].call \in Calls /\ UuidOf(w) \in Uuids
                              /\ Handed(obj[w.self].call)
         /\ \A v, w \in waiter : v # w => obj[v.self].call # obj[w.self].call
         /\ \A v, w \in waiter : v # w /\ Unique(obj[w.self].call) => UuidOf(v) # UuidOf(w)
         /\ \A c \in Calls : Handed(c) => uuid[c] # Unset
<1> USE DEF ServerInvariant, ObjectsOK
<1>1. \A w \in waiter : /\ obj[w.self].call \in Calls /\ UuidOf(w) \in Uuids
                        /\ w.self \in DOMAIN obj /\ obj[w.self].call # NoCall
  BY TypeFacts DEF WaitersOK
<1>2. \A w \in waiter : Handed(obj[w.self].call)
  BY <1>1 DEF Handed
<1>3. \A v, w \in waiter : v # w => obj[v.self].call # obj[w.self].call
  BY <1>1 DEF WaitersOK, CallsOK
<1>4. \A v, w \in waiter : v # w /\ Unique(obj[w.self].call) => UuidOf(v) # UuidOf(w)
  BY <1>1, <1>3 DEF Unique, UuidOf
<1>5. \A c \in Calls : Handed(c) => uuid[c] # Unset
  BY NumberFacts DEF Handed, CallsOK
<1>6. QED
  BY <1>1, <1>2, <1>3, <1>4, <1>5

LEMMA RepliedFacts ==
  \A c : c \in Replied <=> \/ \E e \in DOMAIN entry : entry[e] = c
                           \/ \E w \in waiter : w.result = c
BY DEF Replied

(***************************************************************************)
(* A call is made, an object is made, matched or finished, or a thread     *)
(* comes to wait: N are the calls that are handed to the service.          *)
(***************************************************************************)
LEMMA RepliesApart ==
  ASSUME ServerInvariant, UNCHANGED <<table, entry, writer>>,
         NEW N \in SUBSET Calls, inQ' \subseteq inQ \cup N,
         \A c \in N : ~Handed(c) /\ Handed(c)' /\ uuid'[c] \in Uuids \cup {Event},
         waiter \subseteq waiter',
         \A w \in waiter' \ waiter :
           /\ w.at = "find" /\ w.entry = 0 /\ w.result = None
           /\ obj'[w.self].call \in N,
         \A w \in waiter : obj'[w.self].call = obj[w.self].call,
         \A c \in Calls : uuid[c] # Unset => uuid'[c] = uuid[c],
         \A c \in Calls : Handed(c) => Handed(c)'
  PROVE  RepliesOK'
<1> USE DEF ServerInvariant, RepliesOK
<1>1. \A c \in Calls : c \in Replied' <=> c \in Replied
  BY NumberFacts DEF Replied
<1>2. \A c \in Calls : Writing(c)' <=> Writing(c)
  BY DEF Writing
<1>3. \A c \in Calls : c \in inQ \/ Writing(c) \/ c \in Replied => Handed(c) /\ uuid'[c] = uuid[c]
  BY ReplyFacts DEF HandedOK
<1>4. \A w \in waiter : /\ obj'[w.self].call = obj[w.self].call /\ obj[w.self].call \in Calls
                        /\ UuidOf(w)' = UuidOf(w)
  BY ReplyFacts DEF UuidOf
<1>5. \A c \in Calls : Handed(c) /\ Unique(c)' => Unique(c)
  BY ReplyFacts DEF Unique
<1>6. HandedOK'
  BY <1>1, <1>2 DEF HandedOK
<1>7. OnceOK'
  <2>1. \A c \in inQ' : ~Writing(c)' /\ c \notin Replied'
    BY <1>1, <1>2, <1>3 DEF OnceOK, TypeOK, CallsType
  <2>2. \A c \in Calls : Writing(c)' => c \notin Replied'
    BY <1>1, <1>2 DEF OnceOK
  <2>3. \A w \in waiter' : w.result \in Calls => w \in waiter
    BY NumberFacts
  <2>4. \A e \in DOMAIN entry', w \in waiter' : w.result \in Calls => entry'[e] # w.result
    BY <2>3 DEF OnceOK
  <2>5. \A v, w \in waiter' : v.result \in Calls /\ v.result = w.result => v = w
    BY <2>3 DEF OnceOK
  <2>6. QED
    BY <2>1, <2>2, <2>4, <2>5 DEF OnceOK
<1>8. OwnersOK'
  <2>1. PICK own \in Seq(Uuids) : Owns(own)
    BY DEF OwnersOK
  <2>2. writer # << >> => own[writer[2]] = uuid'[writer[1]]
    <3>1. writer # << >> => writer[1] \in Calls /\ Writing(writer[1])
      BY DEF TypeOK, EntriesType, Writing
    <3>2. QED
      BY <1>3, <2>1, <3>1 DEF Owns
  <2>3. \A e \in DOMAIN entry : entry[e] \in Calls => own[e] = uuid'[entry[e]]
    BY <1>3, <2>1, RepliedFacts DEF Owns
  <2>4. Owns(own)'
    BY <1>4, <2>1, <2>2, <2>3 DEF Owns
  <2>5. \A w \in waiter' : w.result \in Calls => w \in waiter
    BY NumberFacts
  <2>6. \A w \in waiter : w.result \in Calls => uuid'[w.result] = uuid[w.result]
    BY <1>3, RepliedFacts
  <2>7. \A w \in waiter' : w.result \in Calls => uuid'[w.result] = UuidOf(w)'
    BY <1>4, <2>5, <2>6 DEF OwnersOK
  <2>8. \A c \in inQ' : uuid'[c] \in Uuids \cup {Event}
    BY <1>3 DEF OwnersOK, TypeOK, CallsType
  <2>9. QED
    BY <2>1, <2>4, <2>7, <2>8 DEF OwnersOK
<1>9. MovedOK'
  <2>1. ASSUME NEW w \in waiter', Unique(obj[w.self].call)', w.result = Moved PROVE FALSE
    <3>1. w \in waiter
      BY <2>1, NumberFacts
    <3>2. PICK c \in Calls : c = obj[w.self].call /\ c = obj'[w.self].call
      BY <1>4, <3>1
    <3>3. Handed(c) /\ Unique(c)'
      BY <2>1, <3>1, <3>2, ReplyFacts
    <3>4. Unique(c)
      BY <1>5, <3>3
    <3>5. QED
      BY <2>1, <3>1, <3>2, <3>4 DEF MovedOK
  <2>2. \A e \in DOMAIN entry' : entry'[e] = Moved =>
          \E v \in waiter' : v.entry = e /\ v.at \notin {"find", "wait"}
    BY DEF MovedOK
  <2>3. \A w \in waiter' : w.at \in {"find", "wait"} => w.result = None
    BY DEF MovedOK
  <2>4. \A w \in waiter' : w.at = "wait" => w.entry # 0
    BY DEF MovedOK
  <2>5. QED
    BY <2>1, <2>2, <2>3, <2>4 DEF MovedOK
<1>10. YoungOK'
  <2>1. SUFFICES ASSUME NEW w \in waiter', w.at \in {"find", "wait"}, Unique(obj[w.self].call)'
                 PROVE  /\ w.at = "wait" => table'[UuidOf(w)'] = w.entry
                        /\ Writing(obj[w.self].call)' => table'[UuidOf(w)'] = writer'[2]
                        /\ \A e \in DOMAIN entry' : entry'[e] = obj'[w.self].call =>
                             table'[UuidOf(w)'] = e
    BY DEF YoungOK
  <2>2. CASE w \in waiter
    <3>1. PICK c \in Calls : c = obj[w.self].call /\ c = obj'[w.self].call
      BY <1>4, <2>2
    <3>2. Handed(c) /\ Unique(c)'
      BY <2>1, <2>2, <3>1, ReplyFacts
    <3>3. Unique(obj[w.self].call)
      BY <1>5, <3>1, <3>2
    <3>4. /\ w.at = "wait" => table[UuidOf(w)] = w.entry
          /\ Writing(c) => table[UuidOf(w)] = writer[2]
          /\ \A e \in DOMAIN entry : entry[e] = c => table[UuidOf(w)] = e
      BY <2>1, <2>2, <3>1, <3>3 DEF YoungOK
    <3>5. Writing(obj[w.self].call)' => Writing(c)
      BY <3>1 DEF Writing
    <3>6. QED
      BY <1>4, <2>2, <3>1, <3>4, <3>5
  <2>3. CASE w \notin waiter
    <3>1. PICK c \in N : c = obj'[w.self].call /\ w.at = "find"
      BY <2>1, <2>3
    <3>2. ~Writing(c) /\ c \notin Replied
      BY <1>3
    <3>3. ~Writing(obj[w.self].call)'
      BY <3>1, <3>2 DEF Writing
    <3>4. QED
      BY <3>1, <3>2, <3>3, RepliedFacts
  <2>4. QED
    BY <2>2, <2>3
<1>11. QED
  BY <1>6, <1>7, <1>8, <1>9, <1>10

(***************************************************************************)
(* A thread that waits no longer: after its time, its erase or its answer. *)
(***************************************************************************)
LEMMA LeaveReplies ==
  ASSUME ServerInvariant, NEW w \in waiter, NEW x, Step(w, {x}),
         x.self = w.self, x.entry = w.entry, x.result = w.result,
         x.at \notin {"find", "wait"}, w.at # "find",
         UNCHANGED <<entry, writer, inQ, uuid>>,
         \A u \in Uuids : u # UuidOf(w) => table'[u] = table[u],
         table'[UuidOf(w)] \in {0, table[UuidOf(w)]},
         \A i \in DOMAIN obj : obj'[i].call = obj[i].call,
         DOMAIN obj' = DOMAIN obj,
         \A i \in DOMAIN obj : ~Process(i) => ~Process(i)'
  PROVE  RepliesOK'
<1> USE DEF ServerInvariant, RepliesOK
<1>1. waiter' = (waiter \ {w}) \cup {x}
  BY DEF Step
<1>2. \A v \in waiter : /\ v.self \in DOMAIN obj /\ obj'[v.self].call = obj[v.self].call
                        /\ obj[v.self].call \in Calls /\ UuidOf(v)' = UuidOf(v)
  BY TypeFacts, ReplyFacts DEF UuidOf
<1>3. /\ UuidOf(x)' = UuidOf(w) /\ UuidOf(w) \in Uuids
      /\ obj'[x.self].call = obj[w.self].call
  BY <1>2, ReplyFacts DEF UuidOf
<1>4. \A c : c \in Replied' <=> c \in Replied
  BY <1>1 DEF Replied
<1>5. \A c : (Writing(c)' <=> Writing(c)) /\ (Unique(c)' <=> Unique(c))
  BY DEF Writing, Unique
<1>6. HandedOK'
  <2>1. \A c \in Calls : Handed(c) => Handed(c)'
    BY <1>1 DEF Handed
  <2>2. QED
    BY <1>4, <1>5, <2>1 DEF HandedOK
<1>7. OnceOK'
  <2>1. \A c \in inQ' : ~Writing(c)' /\ c \notin Replied'
    BY <1>4, <1>5 DEF OnceOK
  <2>2. \A c \in Calls : Writing(c)' => c \notin Replied'
    BY <1>4, <1>5 DEF OnceOK
  <2>3. \A e \in DOMAIN entry', v \in waiter' : v.result \in Calls => entry'[e] # v.result
    BY <1>1 DEF OnceOK
  <2>4. \A u, v \in waiter' : u.result \in Calls /\ u.result = v.result => u = v
    BY <1>1 DEF OnceOK
  <2>5. QED
    BY <2>1, <2>2, <2>3, <2>4 DEF OnceOK
<1>8. OwnersOK'
  <2>1. PICK own \in Seq(Uuids) : Owns(own)
    BY DEF OwnersOK
  <2>2. \A v \in waiter' : v.entry # 0 => own[v.entry] = UuidOf(v)'
    BY <1>1, <1>2, <1>3, <2>1 DEF Owns
  <2>3. \A u \in Uuids : table'[u] # 0 => own[table'[u]] = u
    BY <1>3, <2>1 DEF Owns
  <2>4. Owns(own)'
    BY <2>1, <2>2, <2>3 DEF Owns
  <2>5. \A v \in waiter' : v.result \in Calls => uuid'[v.result] = UuidOf(v)'
    BY <1>1, <1>2, <1>3 DEF OwnersOK
  <2>6. QED
    BY <2>1, <2>4, <2>5 DEF OwnersOK
<1>9. MovedOK'
  <2>1. ASSUME NEW v \in waiter', Unique(obj[v.self].call)' PROVE v.result # Moved
    <3>1. PICK y \in waiter : y.result = v.result /\ obj[y.self].call = obj'[v.self].call
      BY <1>1, <1>2, <1>3
    <3>2. Unique(obj[y.self].call)
      BY <1>5, <2>1, <3>1
    <3>3. QED
      BY <3>1, <3>2 DEF MovedOK
  <2>2. \A e \in DOMAIN entry' : entry'[e] = Moved =>
          \E v \in waiter' : v.entry = e /\ v.at \notin {"find", "wait"}
    BY <1>1 DEF MovedOK
  <2>3. \A v \in waiter' : v.at \in {"find", "wait"} => v.result = None
    BY <1>1 DEF MovedOK
  <2>4. \A v \in waiter' : v.at = "wait" => v.entry # 0
    BY <1>1 DEF MovedOK
  <2>5. QED
    BY <2>1, <2>2, <2>3, <2>4 DEF MovedOK
<1>10. YoungOK'
  <2>1. SUFFICES ASSUME NEW v \in waiter', v.at \in {"find", "wait"}, Unique(obj[v.self].call)'
                 PROVE  /\ v.at = "wait" => table'[UuidOf(v)'] = v.entry
                        /\ Writing(obj[v.self].call)' => table'[UuidOf(v)'] = writer'[2]
                        /\ \A e \in DOMAIN entry' : entry'[e] = obj'[v.self].call =>
                             table'[UuidOf(v)'] = e
    BY DEF YoungOK
  <2>2. v \in waiter /\ v # w
    BY <1>1, <2>1
  <2>3. PICK c \in Calls : c = obj[v.self].call /\ c = obj'[v.self].call
    BY <1>2, <2>2
  <2>4. Unique(c)
    BY <1>5, <2>1, <2>3
  <2>5. /\ v.at = "wait" => table[UuidOf(v)] = v.entry
        /\ Writing(c) => table[UuidOf(v)] = writer[2]
        /\ \A e \in DOMAIN entry : entry[e] = c => table[UuidOf(v)] = e
    BY <2>1, <2>2, <2>3, <2>4 DEF YoungOK
  <2>6. UuidOf(v) # UuidOf(w) /\ UuidOf(v) \in Uuids
    BY <2>2, <2>3, <2>4, ReplyFacts
  <2>7. Writing(obj[v.self].call)' => Writing(c)
    BY <2>3 DEF Writing
  <2>8. QED
    BY <1>2, <2>2, <2>3, <2>5, <2>6, <2>7
<1>11. QED
  BY <1>6, <1>7, <1>8, <1>9, <1>10

LEMMA LeaveSteps ==
  ASSUME ServerInvariant, NEW w \in waiter, WaitTimeout(w) \/ WaitErase(w)
  PROVE  TypeOK' /\ RepliesOK' /\ ObjectsOK' /\ TakersOK'
<1> USE DEF ServerInvariant, grpcVars, threadVars, serviceVars
<1>1. PICK x : x = [w EXCEPT !.at = "finish"]
  OBVIOUS
<1>2. /\ Step(w, {x}) /\ w.at \in {"wait", "erase"} /\ entry' = entry
      /\ UNCHANGED <<grpcVars, threadVars, serviceVars>>
      /\ table' = table \/ table' = [table EXCEPT ![UuidOf(w)] = 0]
  BY <1>1 DEF WaitTimeout, WaitErase, EraseEntry, dispatcherVars
<1>3. /\ x \in [self : DOMAIN obj, at : Steps, entry : 0..Len(entry), result : Values]
      /\ x.self = w.self /\ x.entry = w.entry /\ x.result = w.result /\ x.at = "finish"
  BY <1>1 DEF TypeOK, WaitersType, Steps
<1>4. UuidOf(w) \in Uuids /\ table \in [Uuids -> 0..Len(entry)] /\ Len(entry) \in Nat
  BY ReplyFacts DEF TypeOK, EntriesType
<1>5. /\ \A u \in Uuids : u # UuidOf(w) => table'[u] = table[u]
      /\ table'[UuidOf(w)] \in {0, table[UuidOf(w)]}
      /\ table' \in [Uuids -> 0..Len(entry)]
  BY <1>2, <1>4
<1>6. RepliesOK'
  <2>1. \A i \in DOMAIN obj : ~Process(i) => ~Process(i)'
    BY <1>2 DEF Process
  <2>2. UNCHANGED <<entry, writer, inQ, uuid, obj>>
    BY <1>2
  <2>3. w.at # "find" /\ x.at \notin {"find", "wait"}
    BY <1>2, <1>3
  <2>4. QED
    BY <1>2, <1>3, <1>5, <2>1, <2>2, <2>3, LeaveReplies
<1>7. ObjectsOK' /\ TakersOK'
  BY <1>2, <1>3, WaiterObjects
<1>8. TypeOK'
  BY <1>2, <1>3, <1>5
  DEF TypeOK, CallsType, ObjectsType, EntriesType, WaitersType, ControlType, Step
<1>9. QED
  BY <1>6, <1>7, <1>8

LEMMA WaiterFinishReplies ==
  ASSUME ServerInvariant, NEW w \in waiter, WaiterFinish(w)
  PROVE  RepliesOK'
<1> USE DEF ServerInvariant
<1>1. PICK x : x = [w EXCEPT !.at = "gone"]
  OBVIOUS
<1>2. /\ Step(w, {x}) /\ w.at = "finish" /\ UNCHANGED <<table, entry, writer, inQ, uuid>>
      /\ obj' = [obj EXCEPT ![w.self].status = "FINISH"]
  BY <1>1 DEF WaiterFinish, dispatcherVars, serviceVars
<1>3. x.self = w.self /\ x.entry = w.entry /\ x.result = w.result /\ x.at = "gone"
  BY <1>1 DEF TypeOK, WaitersType
<1>4. StatusSet(obj, w.self, obj')
  BY <1>2, StatusUpdate DEF TypeOK, ObjectsType, WaitersType
<1>5. /\ DOMAIN obj' = DOMAIN obj /\ \A i \in DOMAIN obj : obj'[i].call = obj[i].call
      /\ \A i \in DOMAIN obj : ~Process(i) => ~Process(i)'
  BY <1>4 DEF StatusSet, Process
<1>6. QED
  BY <1>2, <1>3, <1>5, LeaveReplies

(***************************************************************************)
(* A reply is taken.                                                       *)
(***************************************************************************)
LEMMA TakeReplies ==
  ASSUME ServerInvariant, NEW w \in waiter, WaitTake(w)
  PROVE  TypeOK' /\ RepliesOK' /\ ObjectsOK' /\ TakersOK'
<1> USE DEF ServerInvariant, RepliesOK, grpcVars, threadVars, serviceVars
<1>1. PICK e : e = w.entry
  OBVIOUS
<1>2. PICK x : x = [w EXCEPT !.at = "erase", !.result = entry[e]]
  OBVIOUS
<1>3. /\ Step(w, {x}) /\ w.at = "wait" /\ entry[e] # None /\ table' = table
      /\ entry' = [entry EXCEPT ![e] = Moved]
      /\ UNCHANGED <<grpcVars, threadVars, serviceVars>>
  BY <1>1, <1>2 DEF WaitTake, MoveOut, HasValue
<1>4. /\ e \in DOMAIN entry /\ entry \in Seq(Values) /\ entry[e] \in Values /\ w.result = None
  BY <1>1, <1>3, TypeFacts DEF TypeOK, EntriesType, MovedOK
<1>5. /\ x \in [self : DOMAIN obj, at : Steps, entry : 0..Len(entry), result : Values]
      /\ x.self = w.self /\ x.entry = e /\ x.result = entry[e] /\ x.at = "erase"
  BY <1>1, <1>2, <1>4 DEF TypeOK, WaitersType, Steps
<1>6. /\ entry' \in Seq(Values) /\ Len(entry') = Len(entry) /\ DOMAIN entry' = DOMAIN entry
      /\ entry'[e] = Moved /\ \A f \in DOMAIN entry : f # e => entry'[f] = entry[f]
  BY <1>3, <1>4 DEF Values
<1>7. waiter' = (waiter \ {w}) \cup {x}
  BY <1>3 DEF Step
<1>8. ObjectsOK' /\ TakersOK'
  BY <1>3, <1>5, WaiterObjects
<1>9. TypeOK'
  BY <1>3, <1>5, <1>6, <1>7
  DEF TypeOK, CallsType, ObjectsType, EntriesType, WaitersType, ControlType
<1>10. \A v \in waiter : UuidOf(v)' = UuidOf(v)
  BY <1>3 DEF UuidOf
<1>11. /\ UuidOf(x)' = UuidOf(w) /\ UuidOf(w) \in Uuids
       /\ obj'[x.self].call = obj[w.self].call
  BY <1>3, <1>5, ReplyFacts DEF UuidOf
<1>12. \A c \in Calls : c \in Replied' <=> c \in Replied
  <2>1. ASSUME NEW c \in Calls, c \in Replied' PROVE c \in Replied
    <3>1. CASE \E f \in DOMAIN entry' : entry'[f] = c
      BY <1>6, <3>1, NumberFacts, RepliedFacts
    <3>2. CASE \E v \in waiter' : v.result = c
      BY <1>4, <1>5, <1>7, <3>2, RepliedFacts
    <3>3. QED
      BY <2>1, <3>1, <3>2 DEF Replied
  <2>2. ASSUME NEW c \in Calls, c \in Replied PROVE c \in Replied'
    <3>1. CASE \E f \in DOMAIN entry : entry[f] = c
      BY <1>5, <1>6, <1>7, <3>1 DEF Replied
    <3>2. CASE \E v \in waiter : v.result = c
      BY <1>4, <1>7, <3>2, NumberFacts DEF Replied
    <3>3. QED
      BY <2>2, <3>1, <3>2, RepliedFacts
  <2>3. QED
    BY <2>1, <2>2
<1>13. \A c : (Writing(c)' <=> Writing(c)) /\ (Unique(c)' <=> Unique(c))
  BY <1>3 DEF Writing, Unique
<1>14. HandedOK'
  <2>1. \A c \in Calls : Handed(c) => Handed(c)'
    BY <1>3, <1>5, <1>7 DEF Handed, Process
  <2>2. QED
    BY <1>3, <1>12, <1>13, <2>1 DEF HandedOK
<1>15. OnceOK'
  <2>1. \A c \in inQ' : ~Writing(c)' /\ c \notin Replied'
    BY <1>3, <1>12, <1>13 DEF OnceOK, TypeOK, CallsType
  <2>2. \A c \in Calls : Writing(c)' => c \notin Replied'
    BY <1>12, <1>13 DEF OnceOK
  <2>3. \A f, g \in DOMAIN entry' : entry'[f] = entry'[g] /\ entry'[f] \in Calls => f = g
    BY <1>6, NumberFacts DEF OnceOK
  <2>4. \A f \in DOMAIN entry', v \in waiter' : v.result \in Calls => entry'[f] # v.result
    BY <1>4, <1>5, <1>6, <1>7, NumberFacts DEF OnceOK
  <2>5. \A u, v \in waiter' : u.result \in Calls /\ u.result = v.result => u = v
    BY <1>4, <1>5, <1>7 DEF OnceOK
  <2>6. QED
    BY <2>1, <2>2, <2>3, <2>4, <2>5 DEF OnceOK
<1>16. PICK own \in Seq(Uuids) : Owns(own)
  BY DEF OwnersOK
<1>17. own[e] = UuidOf(w)
  BY <1>1, <1>3, <1>16 DEF Owns, MovedOK
<1>18. OwnersOK'
  <2>1. \A v \in waiter' : v.entry # 0 => own[v.entry] = UuidOf(v)'
    BY <1>5, <1>7, <1>10, <1>11, <1>16, <1>17 DEF Owns
  <2>2. \A f \in DOMAIN entry' : entry'[f] \in Calls => own[f] = uuid'[entry'[f]]
    BY <1>3, <1>6, <1>16, NumberFacts DEF Owns
  <2>3. Owns(own)'
    BY <1>3, <1>6, <1>16, <2>1, <2>2 DEF Owns
  <2>4. \A v \in waiter' : v.result \in Calls => uuid'[v.result] = UuidOf(v)'
    <3>1. entry[e] \in Calls => uuid[entry[e]] = UuidOf(w)
      BY <1>4, <1>16, <1>17 DEF Owns
    <3>2. QED
      BY <1>3, <1>5, <1>7, <1>10, <1>11, <3>1 DEF OwnersOK
  <2>5. QED
    BY <1>3, <1>16, <2>3, <2>4 DEF OwnersOK
<1>19. MovedOK'
  <2>1. ASSUME NEW v \in waiter', Unique(obj[v.self].call)' PROVE v.result # Moved
    <3>1. CASE v \in waiter
      <4>1. Unique(obj[v.self].call)
        BY <1>3, <1>13, <2>1
      <4>2. QED
        BY <3>1, <4>1 DEF MovedOK
    <3>2. CASE v = x
      <4>1. Unique(obj[w.self].call)
        BY <1>3, <1>5, <1>13, <2>1, <3>2
      <4>2. SUFFICES ASSUME entry[e] = Moved PROVE FALSE
        BY <1>5, <3>2
      <4>3. PICK y \in waiter : y.entry = e /\ y.at \notin {"find", "wait"}
        BY <1>4, <4>2 DEF MovedOK
      <4>4. y # w /\ UuidOf(y) = own[e]
        <5>1. e # 0
          BY <1>1, <1>3 DEF MovedOK
        <5>2. QED
          BY <1>3, <1>16, <4>3, <5>1 DEF Owns
      <4>5. QED
        BY <1>17, <4>1, <4>4, ReplyFacts
    <3>3. QED
      BY <1>7, <3>1, <3>2
  <2>2. \A f \in DOMAIN entry' : entry'[f] = Moved =>
          \E v \in waiter' : v.entry = f /\ v.at \notin {"find", "wait"}
    <3>1. SUFFICES ASSUME NEW f \in DOMAIN entry, entry'[f] = Moved
                   PROVE  \E v \in waiter' : v.entry = f /\ v.at \notin {"find", "wait"}
      BY <1>6
    <3>2. CASE f = e
      BY <1>5, <1>7, <3>2
    <3>3. CASE f # e
      BY <1>3, <1>6, <1>7, <3>1, <3>3 DEF MovedOK
    <3>4. QED
      BY <3>2, <3>3
  <2>3. \A v \in waiter' : v.at \in {"find", "wait"} => v.result = None
    BY <1>5, <1>7 DEF MovedOK
  <2>4. \A v \in waiter' : v.at = "wait" => v.entry # 0
    BY <1>5, <1>7 DEF MovedOK
  <2>5. QED
    BY <2>1, <2>2, <2>3, <2>4 DEF MovedOK
<1>20. YoungOK'
  <2>1. SUFFICES ASSUME NEW v \in waiter', v.at \in {"find", "wait"}, Unique(obj[v.self].call)'
                 PROVE  /\ v.at = "wait" => table'[UuidOf(v)'] = v.entry
                        /\ Writing(obj[v.self].call)' => table'[UuidOf(v)'] = writer'[2]
                        /\ \A f \in DOMAIN entry' : entry'[f] = obj'[v.self].call =>
                             table'[UuidOf(v)'] = f
    BY DEF YoungOK
  <2>2. v \in waiter /\ v # w
    BY <1>5, <1>7, <2>1
  <2>3. PICK c \in Calls : c = obj[v.self].call /\ c = obj'[v.self].call
    BY <1>3, <2>2, ReplyFacts
  <2>4. Unique(c)
    BY <1>13, <2>1, <2>3
  <2>5. /\ v.at = "wait" => table[UuidOf(v)] = v.entry
        /\ Writing(c) => table[UuidOf(v)] = writer[2]
        /\ \A f \in DOMAIN entry : entry[f] = c => table[UuidOf(v)] = f
    BY <2>1, <2>2, <2>3, <2>4 DEF YoungOK
  <2>6. Writing(obj[v.self].call)' => Writing(c)
    BY <1>3, <2>3 DEF Writing
  <2>7. QED
    BY <1>3, <1>6, <1>10, <2>2, <2>3, <2>5, <2>6, NumberFacts
<1>21. QED
  BY <1>8, <1>9, <1>14, <1>15, <1>18, <1>19, <1>20

(***************************************************************************)
(* try_emplace: an entry that was there, or a new one without a reply.     *)
(***************************************************************************)
LEMMA FindFacts ==
  ASSUME ServerInvariant, NEW u \in Uuids, FindOrMake(u)
  PROVE  /\ entry' \in Seq(Values) /\ table' \in [Uuids -> 0..Len(entry')]
         /\ Len(entry') >= Len(entry) /\ DOMAIN entry \subseteq DOMAIN entry'
         /\ table'[u] \in DOMAIN entry' /\ table'[u] # 0
         /\ table[u] # 0 => table'[u] = table[u] /\ entry' = entry
         /\ \A v \in Uuids : v # u => table'[v] = table[v]
         /\ \A e \in DOMAIN entry : entry'[e] = entry[e]
         /\ \A e \in DOMAIN entry' : e \notin DOMAIN entry => entry'[e] = None
         /\ \E own \in Seq(Uuids) : Owns(own)
         /\ \A own \in Seq(Uuids) : Owns(own) =>
              \E o \in Seq(Uuids) :
                /\ Len(o) = Len(entry') /\ \A e \in DOMAIN entry : o[e] = own[e]
                /\ \A v \in Uuids : table'[v] # 0 => o[table'[v]] = v
<1> USE DEF ServerInvariant
<1>1. /\ entry \in Seq(Values) /\ Len(entry) \in Nat /\ table \in [Uuids -> 0..Len(entry)]
      /\ None \in Values /\ DOMAIN entry = 1..Len(entry)
  BY DEF TypeOK, EntriesType, Values
<1>2. \E own \in Seq(Uuids) : Owns(own)
  BY DEF RepliesOK, OwnersOK
<1>3. CASE table[u] # 0
  <2>1. entry' = entry /\ table' = [table EXCEPT ![u] = table[u]]
    BY <1>3 DEF FindOrMake, Found
  <2>2. table' = table /\ table[u] \in DOMAIN entry
    BY <1>1, <1>3, <2>1
  <2>3. \A own \in Seq(Uuids) : Owns(own) =>
          /\ Len(own) = Len(entry') /\ \A v \in Uuids : table'[v] # 0 => own[table'[v]] = v
    BY <2>1, <2>2 DEF Owns
  <2>4. QED
    BY <1>1, <1>2, <1>3, <2>1, <2>2, <2>3
<1>4. CASE table[u] = 0
  <2>1. entry' = Append(entry, None) /\ table' = [table EXCEPT ![u] = Len(entry) + 1]
    BY <1>4 DEF FindOrMake, Found
  <2>2. /\ entry' \in Seq(Values) /\ Len(entry') = Len(entry) + 1
        /\ DOMAIN entry' = 1..Len(entry) + 1
        /\ \A e \in DOMAIN entry : entry'[e] = entry[e]
        /\ entry'[Len(entry) + 1] = None
    BY <1>1, <2>1
  <2>3. /\ table' \in [Uuids -> 0..Len(entry')] /\ table'[u] = Len(entry) + 1
        /\ \A v \in Uuids : v # u => table'[v] = table[v]
    BY <1>1, <2>1, <2>2
  <2>4. ASSUME NEW own \in Seq(Uuids), Owns(own)
        PROVE  \E o \in Seq(Uuids) :
                 /\ Len(o) = Len(entry') /\ \A e \in DOMAIN entry : o[e] = own[e]
                 /\ \A v \in Uuids : table'[v] # 0 => o[table'[v]] = v
    <3>1. PICK o : o = Append(own, u)
      OBVIOUS
    <3>2. Len(own) = Len(entry)
      BY <2>4 DEF Owns
    <3>3. /\ o \in Seq(Uuids) /\ Len(o) = Len(entry) + 1 /\ o[Len(entry) + 1] = u
          /\ \A e \in 1..Len(entry) : o[e] = own[e]
      BY <1>1, <3>1, <3>2
    <3>4. \A v \in Uuids : v # u /\ table[v] # 0 => o[table[v]] = v
      BY <1>1, <2>4, <3>3 DEF Owns
    <3>5. \A v \in Uuids : table'[v] # 0 => o[table'[v]] = v
      BY <2>3, <3>3, <3>4
    <3>6. Len(o) = Len(entry') /\ \A e \in DOMAIN entry : o[e] = own[e]
      BY <1>1, <2>2, <3>3
    <3>7. QED
      BY <3>3, <3>5, <3>6
  <2>5. QED
    BY <1>1, <1>2, <1>4, <2>2, <2>3, <2>4
<1>5. QED
  BY <1>3, <1>4

LEMMA WaitFindReplies ==
  ASSUME ServerInvariant, NEW w \in waiter, WaitFind(w)
  PROVE  TypeOK' /\ RepliesOK' /\ ObjectsOK' /\ TakersOK'
<1> USE DEF ServerInvariant, RepliesOK, grpcVars, threadVars, serviceVars
<1>1. PICK u \in Uuids : u = UuidOf(w)
  BY ReplyFacts
<1>2. PICK n : n = table'[u]
  OBVIOUS
<1>3. PICK x : x = [w EXCEPT !.at = "wait", !.entry = n]
  OBVIOUS
<1>4. /\ Step(w, {x}) /\ w.at = "find" /\ FindOrMake(u)
      /\ UNCHANGED <<grpcVars, threadVars, serviceVars>>
  <2>1. UuidOf(w)' = UuidOf(w)
    BY DEF WaitFind, UuidOf
  <2>2. QED
    BY <1>1, <1>2, <1>3, <2>1 DEF WaitFind, FindForWaiter
<1>5. /\ entry' \in Seq(Values) /\ table' \in [Uuids -> 0..Len(entry')]
      /\ Len(entry') >= Len(entry) /\ DOMAIN entry \subseteq DOMAIN entry'
      /\ table'[u] \in DOMAIN entry' /\ table'[u] # 0
      /\ table[u] # 0 => table'[u] = table[u] /\ entry' = entry
      /\ \A v \in Uuids : v # u => table'[v] = table[v]
      /\ \A e \in DOMAIN entry : entry'[e] = entry[e]
      /\ \A e \in DOMAIN entry' : e \notin DOMAIN entry => entry'[e] = None
  BY <1>4, FindFacts
<1>6. /\ x \in [self : DOMAIN obj, at : Steps, entry : 0..Len(entry'), result : Values]
      /\ x.self = w.self /\ x.entry = n /\ x.result = None /\ x.at = "wait" /\ w.result = None
      /\ n \in DOMAIN entry' /\ n # 0
  <2>1. n \in DOMAIN entry' /\ n # 0 /\ n \in 0..Len(entry')
    BY <1>2, <1>5
  <2>2. w.result = None
    BY <1>4 DEF MovedOK
  <2>3. w \in [self : DOMAIN obj, at : Steps, entry : 0..Len(entry), result : Values]
    BY DEF TypeOK, WaitersType
  <2>4. QED
    BY <1>3, <2>1, <2>2, <2>3 DEF Steps
<1>7. waiter' = (waiter \ {w}) \cup {x}
  BY <1>4 DEF Step
<1>8. ObjectsOK' /\ TakersOK'
  BY <1>4, <1>6, WaiterObjects
<1>9. TypeOK'
  <2>1. Len(entry) \in Nat /\ Len(entry') \in Nat
    BY <1>5 DEF TypeOK, EntriesType
  <2>2. WaitersType'
    BY <1>4, <1>5, <1>6, <1>7, <2>1 DEF TypeOK, WaitersType
  <2>3. EntriesType'
    BY <1>4, <1>5, <2>1 DEF TypeOK, EntriesType
  <2>4. QED
    BY <1>4, <2>2, <2>3 DEF TypeOK, CallsType, ObjectsType, ControlType
<1>10. \A v \in waiter : UuidOf(v)' = UuidOf(v)
  BY <1>4 DEF UuidOf
<1>11. UuidOf(x)' = u /\ obj'[x.self].call = obj[w.self].call
  BY <1>1, <1>4, <1>6 DEF UuidOf
<1>12. \A c \in Calls : c \in Replied' <=> c \in Replied
  BY <1>5, <1>6, <1>7, NumberFacts DEF Replied
<1>13. \A c : (Writing(c)' <=> Writing(c)) /\ (Unique(c)' <=> Unique(c))
  BY <1>4 DEF Writing, Unique
<1>14. HandedOK'
  <2>1. \A c \in Calls : Handed(c) => Handed(c)'
    BY <1>4, <1>6, <1>7 DEF Handed, Process
  <2>2. QED
    BY <1>4, <1>12, <1>13, <2>1 DEF HandedOK
<1>15. OnceOK'
  <2>1. \A c \in inQ' : ~Writing(c)' /\ c \notin Replied'
    BY <1>4, <1>12, <1>13 DEF OnceOK, TypeOK, CallsType
  <2>2. \A c \in Calls : Writing(c)' => c \notin Replied'
    BY <1>12, <1>13 DEF OnceOK
  <2>3. \A f, g \in DOMAIN entry' : entry'[f] = entry'[g] /\ entry'[f] \in Calls => f = g
    BY <1>5, NumberFacts DEF OnceOK
  <2>4. \A f \in DOMAIN entry', v \in waiter' : v.result \in Calls => entry'[f] # v.result
    BY <1>5, <1>6, <1>7, NumberFacts DEF OnceOK
  <2>5. \A v, y \in waiter' : v.result \in Calls /\ v.result = y.result => v = y
    BY <1>6, <1>7, NumberFacts DEF OnceOK
  <2>6. QED
    BY <2>1, <2>2, <2>3, <2>4, <2>5 DEF OnceOK
<1>16. OwnersOK'
  <2>1. PICK own \in Seq(Uuids) : Owns(own)
    BY DEF OwnersOK
  <2>2. PICK o \in Seq(Uuids) : /\ Len(o) = Len(entry') /\ \A e \in DOMAIN entry : o[e] = own[e]
                                /\ \A v \in Uuids : table'[v] # 0 => o[table'[v]] = v
    BY <1>4, <2>1, FindFacts
  <2>3. \A v \in waiter' : v.entry # 0 => o[v.entry] = UuidOf(v)'
    <3>1. \A v \in waiter : v.entry # 0 => v.entry \in DOMAIN entry
      BY TypeFacts DEF TypeOK, EntriesType
    <3>2. o[n] = u
      BY <1>2, <1>6, <2>2
    <3>3. QED
      BY <1>6, <1>7, <1>10, <1>11, <2>1, <2>2, <3>1, <3>2 DEF Owns
  <2>4. \A f \in DOMAIN entry' : entry'[f] \in Calls => o[f] = uuid'[entry'[f]]
    BY <1>4, <1>5, <2>1, <2>2, NumberFacts DEF Owns
  <2>5. writer' # << >> => o[writer'[2]] = uuid'[writer'[1]]
    <3>1. writer # << >> => writer[2] \in DOMAIN entry
      BY DEF TypeOK, EntriesType
    <3>2. QED
      BY <1>4, <2>1, <2>2, <3>1 DEF Owns
  <2>6. Owns(o)'
    BY <2>2, <2>3, <2>4, <2>5 DEF Owns
  <2>7. \A v \in waiter' : v.result \in Calls => uuid'[v.result] = UuidOf(v)'
    BY <1>4, <1>6, <1>7, <1>10, NumberFacts DEF OwnersOK
  <2>8. QED
    BY <1>4, <2>2, <2>6, <2>7 DEF OwnersOK
<1>17. MovedOK'
  <2>1. ASSUME NEW v \in waiter', Unique(obj[v.self].call)' PROVE v.result # Moved
    <3>1. CASE v \in waiter
      <4>1. Unique(obj[v.self].call)
        BY <1>4, <1>13, <2>1
      <4>2. QED
        BY <3>1, <4>1 DEF MovedOK
    <3>2. CASE v = x
      BY <1>6, <3>2, NumberFacts
    <3>3. QED
      BY <1>7, <3>1, <3>2
  <2>2. \A f \in DOMAIN entry' : entry'[f] = Moved =>
          \E v \in waiter' : v.entry = f /\ v.at \notin {"find", "wait"}
    BY <1>4, <1>5, <1>7, NumberFacts DEF MovedOK
  <2>3. \A v \in waiter' : v.at \in {"find", "wait"} => v.result = None
    BY <1>6, <1>7 DEF MovedOK
  <2>4. \A v \in waiter' : v.at = "wait" => v.entry # 0
    BY <1>6, <1>7 DEF MovedOK
  <2>5. QED
    BY <2>1, <2>2, <2>3, <2>4 DEF MovedOK
<1>18. YoungOK'
  <2>1. SUFFICES ASSUME NEW v \in waiter', v.at \in {"find", "wait"}, Unique(obj[v.self].call)'
                 PROVE  /\ v.at = "wait" => table'[UuidOf(v)'] = v.entry
                        /\ Writing(obj[v.self].call)' => table'[UuidOf(v)'] = writer'[2]
                        /\ \A f \in DOMAIN entry' : entry'[f] = obj'[v.self].call =>
                             table'[UuidOf(v)'] = f
    BY DEF YoungOK
  <2>2. PICK y \in waiter : /\ y.self = v.self /\ y.at \in {"find", "wait"}
                            /\ v # x => y = v
                            /\ v = x => y = w
    BY <1>4, <1>6, <1>7, <2>1
  <2>3. PICK c \in Calls : c = obj[y.self].call /\ c = obj'[v.self].call
    BY <1>4, <2>2, ReplyFacts
  <2>4. Unique(c) /\ UuidOf(v)' = UuidOf(y)
    BY <1>1, <1>10, <1>11, <1>13, <2>1, <2>2, <2>3
  <2>5. /\ y.at = "wait" => table[UuidOf(y)] = y.entry
        /\ Writing(c) => table[UuidOf(y)] = writer[2]
        /\ \A f \in DOMAIN entry : entry[f] = c => table[UuidOf(y)] = f
    BY <2>2, <2>3, <2>4 DEF YoungOK
  <2>6. Writing(obj[v.self].call)' => Writing(c)
    BY <1>4, <2>3 DEF Writing
  <2>7. \A f \in DOMAIN entry' : entry'[f] = c => f \in DOMAIN entry /\ entry[f] = c
    BY <1>5, NumberFacts
  <2>8. Writing(c) => writer[2] # 0 /\ writer' = writer
    BY <1>4 DEF Writing, TypeOK, EntriesType
  <2>9. \A f \in DOMAIN entry : f # 0
    BY DEF TypeOK, EntriesType
  <2>10. CASE v = x
    <3>1. UuidOf(y) = u /\ table'[u] = v.entry
      BY <1>1, <1>2, <1>6, <2>2, <2>10
    <3>2. QED
      BY <1>5, <2>3, <2>4, <2>5, <2>6, <2>7, <2>8, <2>9, <3>1
  <2>11. CASE v # x
    <3>1. y = v /\ y # w
      BY <1>7, <2>1, <2>2, <2>11
    <3>2. UuidOf(y) # u /\ UuidOf(y) \in Uuids
      BY <1>1, <2>3, <2>4, <3>1, ReplyFacts
    <3>3. QED
      BY <1>5, <2>3, <2>4, <2>5, <2>6, <2>7, <2>8, <3>1, <3>2
  <2>12. QED
    BY <2>10, <2>11
<1>19. QED
  BY <1>8, <1>9, <1>14, <1>15, <1>16, <1>17, <1>18

(***************************************************************************)
(* set_reply, and the cleaner.                                             *)
(***************************************************************************)
LEMMA ReplyFindReplies ==
  ASSUME ServerInvariant, NEW c \in Calls, ReplyFind(c)
  PROVE  TypeOK' /\ RepliesOK'
<1> USE DEF ServerInvariant, RepliesOK, grpcVars, threadVars
<1>1. /\ writer = << >> /\ c \in inQ /\ RpcOf(c) = "Request" /\ inQ' = inQ \ {c}
      /\ writer' = << c, table'[uuid[c]] >> /\ FindOrMake(uuid[c])
      /\ UNCHANGED <<grpcVars, threadVars, waiter>>
  BY DEF ReplyFind
<1>2. PICK u \in Uuids : u = uuid[c]
  BY <1>1 DEF OwnersOK, RpcOf
<1>3. /\ entry' \in Seq(Values) /\ table' \in [Uuids -> 0..Len(entry')]
      /\ Len(entry') >= Len(entry) /\ DOMAIN entry \subseteq DOMAIN entry'
      /\ table'[u] \in DOMAIN entry' /\ table'[u] # 0
      /\ table[u] # 0 => table'[u] = table[u] /\ entry' = entry
      /\ \A v \in Uuids : v # u => table'[v] = table[v]
      /\ \A e \in DOMAIN entry : entry'[e] = entry[e]
      /\ \A e \in DOMAIN entry' : e \notin DOMAIN entry => entry'[e] = None
  BY <1>1, <1>2, FindFacts
<1>4. PICK n \in DOMAIN entry' : writer' = << c, n >> /\ n = table'[u]
  BY <1>1, <1>2, <1>3
<1>5. writer' # << >> /\ writer'[1] = c /\ writer'[2] = n
  BY <1>4
<1>6. TypeOK'
  <2>1. Len(entry) \in Nat /\ Len(entry') \in Nat /\ DOMAIN entry' = 1..Len(entry')
    BY <1>3 DEF TypeOK, EntriesType
  <2>2. WaitersType'
    BY <1>1, <1>3, <2>1 DEF TypeOK, WaitersType
  <2>3. EntriesType'
    BY <1>3, <1>4, <2>1 DEF EntriesType
  <2>4. QED
    BY <1>1, <2>2, <2>3 DEF TypeOK, CallsType, ObjectsType, ControlType
<1>7. \A d \in Calls : d \in Replied' <=> d \in Replied
  BY <1>1, <1>3, NumberFacts DEF Replied
<1>8. \A d : ~Writing(d) /\ (Writing(d)' <=> d = c)
  BY <1>1, <1>5 DEF Writing
<1>9. c \notin Replied
  BY <1>1 DEF OnceOK
<1>10. HandedOK'
  <2>1. \A d : Handed(d)' <=> Handed(d)
    BY <1>1 DEF Handed, Process
  <2>2. QED
    BY <1>1, <1>7, <1>8, <2>1 DEF HandedOK
<1>11. OnceOK'
  <2>1. \A d \in inQ' : ~Writing(d)' /\ d \notin Replied'
    BY <1>1, <1>7, <1>8 DEF OnceOK, TypeOK, CallsType
  <2>2. \A d \in Calls : Writing(d)' => d \notin Replied'
    BY <1>7, <1>8, <1>9
  <2>3. \A f, g \in DOMAIN entry' : entry'[f] = entry'[g] /\ entry'[f] \in Calls => f = g
    BY <1>3, NumberFacts DEF OnceOK
  <2>4. \A f \in DOMAIN entry', v \in waiter' : v.result \in Calls => entry'[f] # v.result
    BY <1>1, <1>3, NumberFacts DEF OnceOK
  <2>5. \A v, y \in waiter' : v.result \in Calls /\ v.result = y.result => v = y
    BY <1>1 DEF OnceOK
  <2>6. QED
    BY <2>1, <2>2, <2>3, <2>4, <2>5 DEF OnceOK
<1>12. OwnersOK'
  <2>1. PICK own \in Seq(Uuids) : Owns(own)
    BY DEF OwnersOK
  <2>2. PICK o \in Seq(Uuids) : /\ Len(o) = Len(entry') /\ \A e \in DOMAIN entry : o[e] = own[e]
                                /\ \A v \in Uuids : table'[v] # 0 => o[table'[v]] = v
    BY <1>1, <1>2, <2>1, FindFacts
  <2>3. \A v \in waiter : v.entry # 0 => o[v.entry] = UuidOf(v)
    <3>1. \A v \in waiter : v.entry # 0 => v.entry \in DOMAIN entry
      BY TypeFacts DEF TypeOK, EntriesType
    <3>2. QED
      BY <2>1, <2>2, <3>1 DEF Owns
  <2>4. \A f \in DOMAIN entry' : entry'[f] \in Calls => o[f] = uuid'[entry'[f]]
    BY <1>1, <1>3, <2>1, <2>2, NumberFacts DEF Owns
  <2>5. o[writer'[2]] = uuid'[writer'[1]]
    BY <1>1, <1>2, <1>3, <1>4, <1>5, <2>2
  <2>6. \A v \in waiter : UuidOf(v)' = UuidOf(v)
    BY <1>1 DEF UuidOf
  <2>7. Owns(o)'
    BY <1>1, <2>2, <2>3, <2>4, <2>5, <2>6 DEF Owns
  <2>8. QED
    BY <1>1, <2>2, <2>6, <2>7 DEF OwnersOK
<1>13. MovedOK'
  BY <1>1, <1>3, NumberFacts DEF MovedOK, Unique
<1>14. YoungOK'
  <2>a. /\ waiter' = waiter /\ obj' = obj /\ \A v \in waiter : UuidOf(v)' = UuidOf(v)
        /\ \A b : Unique(b)' <=> Unique(b)
    BY <1>1 DEF UuidOf, Unique
  <2>1. SUFFICES ASSUME NEW v \in waiter, v.at \in {"find", "wait"}, Unique(obj[v.self].call)
                 PROVE  /\ v.at = "wait" => table'[UuidOf(v)] = v.entry
                        /\ Writing(obj[v.self].call)' => table'[UuidOf(v)] = writer'[2]
                        /\ \A f \in DOMAIN entry' : entry'[f] = obj[v.self].call =>
                             table'[UuidOf(v)] = f
    BY <2>a DEF YoungOK
  <2>2. PICK d \in Calls : d = obj[v.self].call
    BY ReplyFacts
  <2>3. /\ v.at = "wait" => table[UuidOf(v)] = v.entry
        /\ Writing(d) => table[UuidOf(v)] = writer[2]
        /\ \A f \in DOMAIN entry : entry[f] = d => table[UuidOf(v)] = f
    BY <2>1, <2>2 DEF YoungOK
  <2>4. /\ UuidOf(v) \in Uuids /\ uuid[d] = UuidOf(v) /\ obj'[v.self].call = d
        /\ \A b \in Calls : b # d => uuid[b] # UuidOf(v)
    BY <1>1, <2>1, <2>2, ReplyFacts DEF UuidOf, Unique
  <2>5. \A f \in DOMAIN entry' : entry'[f] = d => f \in DOMAIN entry /\ entry[f] = d
    BY <1>3, NumberFacts
  <2>6. CASE d = c
    <3>1. UuidOf(v) = u /\ \A f \in DOMAIN entry' : entry'[f] # d
      BY <1>2, <1>9, <2>4, <2>5, <2>6, RepliedFacts
    <3>2. v.at = "wait" => table[u] # 0
      BY <2>1, <2>3, <3>1 DEF MovedOK
    <3>3. QED
      BY <1>3, <1>4, <1>5, <2>2, <2>3, <3>1, <3>2
  <2>7. CASE d # c
    <3>1. UuidOf(v) # u
      BY <1>2, <2>4, <2>7
    <3>2. ~Writing(obj[v.self].call)'
      BY <1>8, <2>4, <2>7
    <3>3. QED
      BY <1>3, <2>2, <2>3, <2>4, <2>5, <3>1, <3>2
  <2>8. QED
    BY <2>6, <2>7
<1>15. QED
  BY <1>6, <1>10, <1>11, <1>12, <1>13, <1>14

LEMMA ReplyWriteReplies ==
  ASSUME ServerInvariant, ReplyWrite
  PROVE  TypeOK' /\ RepliesOK'
<1> USE DEF ServerInvariant, RepliesOK, grpcVars, threadVars
<1>1. /\ writer # << >> /\ entry' = [entry EXCEPT ![writer[2]] = writer[1]] /\ table' = table
      /\ writer' = << >> /\ UNCHANGED <<grpcVars, threadVars, inQ, waiter>>
  BY DEF ReplyWrite, WriteReply
<1>2. PICK c \in Calls, e \in DOMAIN entry : writer = << c, e >>
  BY <1>1 DEF TypeOK, EntriesType
<1>3. writer[1] = c /\ writer[2] = e /\ Writing(c)
  BY <1>2 DEF Writing
<1>4. /\ entry' \in Seq(Values) /\ Len(entry') = Len(entry) /\ DOMAIN entry' = DOMAIN entry
      /\ entry'[e] = c /\ \A f \in DOMAIN entry : f # e => entry'[f] = entry[f]
  BY <1>1, <1>2, <1>3 DEF TypeOK, EntriesType, Values
<1>5. c \notin Replied /\ c \notin inQ /\ Handed(c)
  BY <1>3 DEF OnceOK, HandedOK
<1>6. TypeOK'
  BY <1>1, <1>4 DEF TypeOK, CallsType, ObjectsType, EntriesType, WaitersType, ControlType
<1>7. \A d : ~Writing(d)' /\ (Writing(d) <=> d = c)
  BY <1>1, <1>3 DEF Writing
<1>8. \A d \in Calls : d \in Replied' => d = c \/ d \in Replied
  BY <1>1, <1>4, NumberFacts DEF Replied
<1>9. HandedOK'
  <2>1. \A d : Handed(d)' <=> Handed(d)
    BY <1>1 DEF Handed, Process
  <2>2. QED
    BY <1>1, <1>5, <1>7, <1>8, <2>1 DEF HandedOK
<1>10. OnceOK'
  <2>1. \A d \in inQ' : ~Writing(d)' /\ d \notin Replied'
    BY <1>1, <1>5, <1>7, <1>8 DEF OnceOK, TypeOK, CallsType
  <2>2. \A f \in DOMAIN entry : entry[f] # c
    BY <1>5, RepliedFacts
  <2>3. \A v \in waiter : v.result # c
    BY <1>5, RepliedFacts
  <2>4. \A f, g \in DOMAIN entry' : entry'[f] = entry'[g] /\ entry'[f] \in Calls => f = g
    BY <1>4, <2>2 DEF OnceOK
  <2>5. \A f \in DOMAIN entry', v \in waiter' : v.result \in Calls => entry'[f] # v.result
    BY <1>1, <1>4, <2>3 DEF OnceOK
  <2>6. \A v, y \in waiter' : v.result \in Calls /\ v.result = y.result => v = y
    BY <1>1 DEF OnceOK
  <2>7. QED
    BY <1>7, <2>1, <2>4, <2>5, <2>6 DEF OnceOK
<1>11. OwnersOK'
  <2>1. PICK own \in Seq(Uuids) : Owns(own)
    BY DEF OwnersOK
  <2>2. \A f \in DOMAIN entry' : entry'[f] \in Calls => own[f] = uuid'[entry'[f]]
    BY <1>1, <1>3, <1>4, <2>1 DEF Owns
  <2>3. \A v \in waiter : UuidOf(v)' = UuidOf(v)
    BY <1>1 DEF UuidOf
  <2>4. Owns(own)'
    BY <1>1, <1>4, <2>1, <2>2, <2>3 DEF Owns
  <2>5. QED
    BY <1>1, <2>1, <2>3, <2>4 DEF OwnersOK
<1>12. MovedOK'
  BY <1>1, <1>4, NumberFacts DEF MovedOK, Unique
<1>13. YoungOK'
  <2>a. /\ waiter' = waiter /\ obj' = obj /\ \A v \in waiter : UuidOf(v)' = UuidOf(v)
        /\ \A b : Unique(b)' <=> Unique(b)
    BY <1>1 DEF UuidOf, Unique
  <2>1. SUFFICES ASSUME NEW v \in waiter, v.at \in {"find", "wait"}, Unique(obj[v.self].call)
                 PROVE  /\ v.at = "wait" => table'[UuidOf(v)] = v.entry
                        /\ Writing(obj[v.self].call)' => table'[UuidOf(v)] = writer'[2]
                        /\ \A f \in DOMAIN entry' : entry'[f] = obj[v.self].call =>
                             table'[UuidOf(v)] = f
    BY <2>a DEF YoungOK
  <2>2. PICK d \in Calls : d = obj[v.self].call
    BY ReplyFacts
  <2>3. /\ v.at = "wait" => table[UuidOf(v)] = v.entry
        /\ Writing(d) => table[UuidOf(v)] = writer[2]
        /\ \A f \in DOMAIN entry : entry[f] = d => table[UuidOf(v)] = f
    BY <2>1, <2>2 DEF YoungOK
  <2>4. /\ UuidOf(v) \in Uuids /\ uuid[d] = UuidOf(v) /\ obj'[v.self].call = d
        /\ \A b \in Calls : b # d => uuid[b] # UuidOf(v)
    BY <1>1, <2>1, <2>2, ReplyFacts DEF UuidOf, Unique
  <2>5. ~Writing(obj[v.self].call)'
    BY <1>7, <2>4
  <2>6. \A f \in DOMAIN entry' : entry'[f] = d => table[UuidOf(v)] = f
    <3>1. CASE d = c
      <4>1. \A f \in DOMAIN entry : entry[f] # c
        BY <1>5, RepliedFacts
      <4>2. QED
        BY <1>3, <1>4, <2>3, <3>1, <4>1
    <3>2. CASE d # c
      BY <1>4, <2>3, <3>2
    <3>3. QED
      BY <3>1, <3>2
  <2>7. QED
    BY <1>1, <2>2, <2>3, <2>5, <2>6
<1>14. QED
  BY <1>6, <1>9, <1>10, <1>11, <1>12, <1>13

LEMMA ExpireReplies ==
  ASSUME ServerInvariant, Expire
  PROVE  TypeOK' /\ RepliesOK'
<1> USE DEF ServerInvariant, RepliesOK, grpcVars, threadVars, serviceVars
<1>1. PICK u \in Uuids : /\ table[u] # 0 /\ ~TooYoung(u) /\ entry' = entry
                         /\ table' = [y \in Uuids |-> IF table[y] \in {table[u]}
                                                      THEN 0 ELSE table[y]]
                         /\ UNCHANGED <<grpcVars, threadVars, serviceVars, waiter>>
  BY DEF Expire, Pending, RemoveExpired
<1>2. PICK own \in Seq(Uuids) : Owns(own)
  BY DEF OwnersOK
<1>3. \A y \in Uuids : y # u => table'[y] = table[y]
  BY <1>1, <1>2 DEF Owns
<1>4. table'[u] = 0
  BY <1>1
<1>5. TypeOK'
  <2>1. table' \in [Uuids -> 0..Len(entry)]
    BY <1>1 DEF TypeOK, EntriesType
  <2>2. QED
    BY <1>1, <2>1 DEF TypeOK, CallsType, ObjectsType, EntriesType, WaitersType, ControlType
<1>6. Replied' = Replied /\ \A d : Writing(d)' <=> Writing(d)
  BY <1>1 DEF Replied, Writing
<1>7. HandedOK'
  <2>1. \A d : Handed(d)' <=> Handed(d)
    BY <1>1 DEF Handed, Process
  <2>2. QED
    BY <1>1, <1>6, <2>1 DEF HandedOK
<1>8. OnceOK'
  BY <1>1, <1>6 DEF OnceOK
<1>9. OwnersOK'
  <2>1. \A v \in waiter : UuidOf(v)' = UuidOf(v)
    BY <1>1 DEF UuidOf
  <2>2. Owns(own)'
    BY <1>1, <1>2, <1>3, <1>4, <2>1 DEF Owns
  <2>3. QED
    BY <1>1, <1>2, <2>1, <2>2 DEF OwnersOK
<1>10. MovedOK'
  BY <1>1 DEF MovedOK, Unique
<1>11. YoungOK'
  <2>a. /\ waiter' = waiter /\ obj' = obj /\ \A v \in waiter : UuidOf(v)' = UuidOf(v)
        /\ \A b : Unique(b)' <=> Unique(b)
    BY <1>1 DEF UuidOf, Unique
  <2>1. SUFFICES ASSUME NEW v \in waiter, v.at \in {"find", "wait"}, Unique(obj[v.self].call)
                 PROVE  /\ v.at = "wait" => table'[UuidOf(v)] = v.entry
                        /\ Writing(obj[v.self].call)' => table'[UuidOf(v)] = writer'[2]
                        /\ \A f \in DOMAIN entry' : entry'[f] = obj[v.self].call =>
                             table'[UuidOf(v)] = f
    BY <2>a DEF YoungOK
  <2>2. PICK d \in Calls : d = obj[v.self].call
    BY ReplyFacts
  <2>3. /\ v.at = "wait" => table[UuidOf(v)] = v.entry
        /\ Writing(d) => table[UuidOf(v)] = writer[2]
        /\ \A f \in DOMAIN entry : entry[f] = d => table[UuidOf(v)] = f
    BY <2>1, <2>2 DEF YoungOK
  <2>4. /\ UuidOf(v) \in Uuids /\ uuid[d] = UuidOf(v) /\ obj'[v.self].call = d
        /\ \A b \in Calls : b # d => uuid[b] # UuidOf(v)
    BY <1>1, <2>1, <2>2, ReplyFacts DEF UuidOf, Unique
  <2>5. UuidOf(v) # u
    BY <1>1, <2>1 DEF TooYoung
  <2>6. Writing(obj[v.self].call)' => Writing(d) /\ writer' = writer
    BY <1>1, <1>6, <2>4
  <2>7. QED
    BY <1>1, <1>3, <2>2, <2>3, <2>4, <2>5, <2>6
<1>12. QED
  BY <1>5, <1>7, <1>8, <1>9, <1>10, <1>11

(***************************************************************************)
(* The steps that hand nothing to the service, and the two that do.        *)
(***************************************************************************)
LEMMA RepliesSame ==
  ASSUME ServerInvariant, UNCHANGED <<table, entry, writer, inQ, waiter>>,
         DOMAIN obj \subseteq DOMAIN obj',
         \A i \in DOMAIN obj : obj[i].call # NoCall => obj'[i].call = obj[i].call,
         \A i \in DOMAIN obj : ~Process(i) => ~Process(i)',
         \A c \in Calls : uuid[c] # Unset => uuid'[c] = uuid[c]
  PROVE  RepliesOK'
<1>1. \A w \in waiter : w.self \in DOMAIN obj /\ obj[w.self].call # NoCall
  BY TypeFacts DEF ServerInvariant, ObjectsOK, WaitersOK
<1>2. \A w \in waiter : obj'[w.self].call = obj[w.self].call
  BY <1>1
<1>3. \A c \in Calls : Handed(c) => Handed(c)'
  BY NumberFacts DEF Handed
<1>4. inQ' = inQ \cup {} /\ {} \in SUBSET Calls
  OBVIOUS
<1>5. QED
  BY <1>2, <1>3, <1>4, RepliesApart

LEMMA InHand ==
  ASSUME ServerInvariant, NEW t \in Threads, cur[t] # 0
  PROVE  /\ cur[t] \in DOMAIN obj /\ obj[cur[t]].call \in Calls /\ ~Handed(obj[cur[t]].call)
         /\ \A w \in waiter : w.self # cur[t]
         /\ obj[cur[t]].rpc = RpcOf(obj[cur[t]].call)
         /\ uuid[obj[cur[t]].call] \in Uuids \cup {Bad, Event}
<1> USE DEF ServerInvariant, ObjectsOK
<1>1. /\ cur[t] \in DOMAIN obj /\ obj[cur[t]].call \in Calls /\ obj[cur[t]].call # NoCall
      /\ Process(cur[t])
  BY TypeFacts DEF ServingOK
<1>2. \A w \in waiter : w.self # cur[t]
  BY <1>1 DEF WaitersOK
<1>3. ~Handed(obj[cur[t]].call)
  BY <1>1, <1>2 DEF Handed, CallsOK
<1>4. /\ obj[cur[t]].rpc = RpcOf(obj[cur[t]].call) /\ uuid[obj[cur[t]].call] # Unset
  BY <1>1 DEF CallsOK
<1>5. uuid[obj[cur[t]].call] \in Uuids \cup {Bad, Event, Unset}
  BY <1>1 DEF TypeOK, CallsType
<1>6. QED
  BY <1>1, <1>2, <1>3, <1>4, <1>5

LEMMA ServeReplies ==
  ASSUME ServerInvariant, NEW t \in Threads, ServeDirect(t) \/ RefuseUuid(t)
  PROVE  RepliesOK'
<1>1. PICK i : i = cur[t]
  OBVIOUS
<1>2. /\ i # 0 /\ obj' = [obj EXCEPT ![i].status = "FINISH"]
      /\ UNCHANGED <<table, entry, writer, waiter, uuid>>
  BY <1>1 DEF ServeDirect, RefuseUuid, dispatcherVars, serviceVars
<1>3. /\ i \in DOMAIN obj /\ obj[i].call \in Calls /\ ~Handed(obj[i].call)
      /\ obj[i].rpc = RpcOf(obj[i].call)
  BY <1>1, <1>2, InHand
<1>4. StatusSet(obj, i, obj')
  BY <1>2, <1>3, StatusUpdate DEF ServerInvariant, TypeOK, ObjectsType
<1>5. /\ DOMAIN obj' = DOMAIN obj /\ ~Process(i)'
      /\ \A j \in DOMAIN obj : obj'[j].call = obj[j].call
      /\ \A j \in DOMAIN obj : ~Process(j) => ~Process(j)'
  BY <1>3, <1>4 DEF StatusSet, Process
<1>6. CASE inQ' = inQ
  BY <1>2, <1>5, <1>6, RepliesSame
<1>7. CASE ServeDirect(t)
  <2>1. inQ' \in {inQ, inQ \cup {obj[i].call}} /\ uuid[obj[i].call] = Event
    BY <1>1, <1>3, <1>7 DEF ServeDirect, HandOver, RpcOf
  <2> DEFINE N == {obj[i].call}
  <2>2. \A c \in N : ~Handed(c) /\ Handed(c)' /\ uuid'[c] \in Uuids \cup {Event}
    BY <1>2, <1>3, <1>5, <2>1 DEF Handed
  <2>3. \A c \in Calls : Handed(c) => Handed(c)'
    BY <1>2, <1>5 DEF Handed
  <2>4. \A w \in waiter : obj'[w.self].call = obj[w.self].call
    BY <1>5, TypeFacts DEF ServerInvariant
  <2>5. N \in SUBSET Calls /\ inQ' \subseteq inQ \cup N /\ waiter \subseteq waiter' /\ waiter' \ waiter = {}
    BY <1>2, <1>3, <2>1
  <2> HIDE DEF N
  <2>6. QED
    BY <1>2, <2>2, <2>3, <2>4, <2>5, RepliesApart
<1>8. QED
  BY <1>6, <1>7 DEF RefuseUuid, serviceVars

LEMMA StartWaiterReplies ==
  ASSUME ServerInvariant, NEW t \in Threads, StartWaiter(t)
  PROVE  RepliesOK'
<1>1. PICK i : i = cur[t]
  OBVIOUS
<1>2. PICK x : x = [self |-> i, at |-> "find", entry |-> 0, result |-> None]
  OBVIOUS
<1>3. /\ i # 0 /\ obj[i].rpc = "Request" /\ uuid[obj[i].call] # Bad
      /\ inQ' \in {inQ, inQ \cup {obj[i].call}} /\ waiter' = waiter \cup {x}
      /\ UNCHANGED <<uuid, obj, table, entry, writer>>
  BY <1>1, <1>2 DEF StartWaiter, HandOver, dispatcherVars, grpcVars
<1>4. /\ i \in DOMAIN obj /\ obj[i].call \in Calls /\ ~Handed(obj[i].call)
      /\ obj[i].rpc = RpcOf(obj[i].call) /\ uuid[obj[i].call] \in Uuids \cup {Bad, Event}
  BY <1>1, <1>3, InHand
<1>5. uuid[obj[i].call] \in Uuids
  BY <1>3, <1>4 DEF RpcOf
<1>6. x.self = i /\ x.at = "find" /\ x.entry = 0 /\ x.result = None
  BY <1>2
<1> DEFINE N == {obj[i].call}
<1>7. \A c \in N : ~Handed(c) /\ Handed(c)' /\ uuid'[c] \in Uuids \cup {Event}
  BY <1>3, <1>4, <1>5, <1>6 DEF Handed
<1>8. \A c \in Calls : Handed(c) => Handed(c)'
  BY <1>3 DEF Handed, Process
<1>9. \A w \in waiter' \ waiter : /\ w.at = "find" /\ w.entry = 0 /\ w.result = None
                                  /\ obj'[w.self].call \in N
  BY <1>3, <1>6
<1>10. N \in SUBSET Calls /\ inQ' \subseteq inQ \cup N /\ waiter \subseteq waiter'
  BY <1>3, <1>4
<1> HIDE DEF N
<1>11. QED
  BY <1>3, <1>7, <1>8, <1>9, <1>10, RepliesApart

------------------------------------------------------------------------------
LEMMA ServerInit == Init => ServerInvariant
<1> SUFFICES ASSUME Init PROVE ServerInvariant
  OBVIOUS
<1> USE DEF Init, DispatcherInit
<1>1. Listener("Send") \in Objects /\ Listener("Request") \in Objects
  BY DEF Listener, Objects, Rpcs
<1>2. obj \in Seq(Objects) /\ Len(obj) = 2 /\ DOMAIN obj = {1, 2}
  BY <1>1
<1>3. /\ obj[1].rpc = "Send" /\ obj[1].status = "PROCESS" /\ obj[1].call = NoCall
      /\ obj[2].rpc = "Request" /\ obj[2].status = "PROCESS" /\ obj[2].call = NoCall
  BY DEF Listener
<1>4. TypeOK
  <2>1. CallsType
    BY DEF CallsType
  <2>2. ObjectsType
    BY <1>2 DEF ObjectsType
  <2>3. EntriesType /\ WaitersType
    BY DEF EntriesType, WaitersType
  <2>4. ControlType
    BY Zenon DEF ControlType
  <2>5. QED
    BY <2>1, <2>2, <2>3, <2>4 DEF TypeOK
<1>5. ListenersOK /\ TagsOK /\ ServingOK /\ WaitersOK
  BY <1>3 DEF ListenersOK, TagsOK, ServingOK, WaitersOK, Process, Queued
<1>6. CallsOK /\ StopOK
  BY <1>2, <1>3 DEF CallsOK, StopOK
<1>7. TakersOK
  BY <1>2, <1>3 DEF TakersOK, Taker, Rpcs
<1>8. Replied = {} /\ \A c : ~Writing(c)
  BY DEF Replied, Writing
<1>9. HandedOK /\ OnceOK /\ MovedOK /\ YoungOK
  BY <1>8 DEF HandedOK, OnceOK, MovedOK, YoungOK
<1>10. OwnersOK
  <2>1. << >> \in Seq(Uuids) /\ Owns(<< >>)
    BY DEF Owns
  <2>2. QED
    BY <2>1 DEF OwnersOK
<1>11. QED
  BY <1>4, <1>5, <1>6, <1>7, <1>9, <1>10 DEF ServerInvariant, ObjectsOK, RepliesOK

LEMMA ServerStep == ServerInvariant /\ [Next]_vars => ServerInvariant'
<1> SUFFICES ASSUME ServerInvariant, [Next]_vars PROVE ServerInvariant'
  OBVIOUS
<1> USE DEF grpcVars, threadVars, serviceVars, dispatcherVars
<1>1. ASSUME NEW c \in Calls, Call(c) PROVE ServerInvariant'
  <2>1. /\ UNCHANGED <<table, entry, writer, inQ, waiter, obj>>
        /\ \A d \in Calls : uuid[d] # Unset => uuid'[d] = uuid[d]
    BY <1>1 DEF Call, ServerInvariant, TypeOK, CallsType
  <2>2. RepliesOK'
    BY <2>1, RepliesSame DEF Process
  <2>3. QED
    BY <1>1, <2>2, CallObjects DEF ServerInvariant
<1>2. ASSUME NEW c \in Calls, Match(c) PROVE ServerInvariant'
  <2>1. UNCHANGED <<table, entry, writer, inQ, waiter, uuid>>
    BY <1>2 DEF Match
  <2>2. PICK i \in listening : obj' = [obj EXCEPT ![i].call = c]
    BY <1>2 DEF Match
  <2>3. i \in DOMAIN obj /\ obj \in Seq(Objects) /\ obj[i].call = NoCall
    BY DEF ServerInvariant, TypeOK, ObjectsType, ObjectsOK, ListenersOK
  <2>4. CallSet(obj, i, c, obj')
    BY <2>2, <2>3, CallUpdate
  <2>5. RepliesOK'
    <3>1. /\ DOMAIN obj \subseteq DOMAIN obj'
          /\ \A j \in DOMAIN obj : obj[j].call # NoCall => obj'[j].call = obj[j].call
          /\ \A j \in DOMAIN obj : ~Process(j) => ~Process(j)'
      BY <2>3, <2>4 DEF CallSet, Process
    <3>2. QED
      BY <2>1, <3>1, RepliesSame
  <2>6. QED
    BY <1>2, <2>5, MatchObjects DEF ServerInvariant
<1>3. ASSUME NEW t \in Threads, Unregister(t) PROVE ServerInvariant'
  <2>1. UNCHANGED <<table, entry, writer, inQ, waiter, uuid, obj>>
    BY <1>3 DEF Unregister
  <2>2. RepliesOK'
    BY <2>1, RepliesSame DEF Process
  <2>3. QED
    BY <1>3, <2>2, UnregisterObjects DEF ServerInvariant
<1>4. ASSUME NEW t \in Threads, CreateAndRegister(t) PROVE ServerInvariant'
  <2>1. UNCHANGED <<table, entry, writer, inQ, waiter, uuid>>
    BY <1>4 DEF CreateAndRegister
  <2>2. PICK e \in cq : obj' = Append(obj, Listener(obj[e.tag].rpc))
    BY <1>4 DEF CreateAndRegister
  <2>3. obj \in Seq(Objects) /\ obj[e.tag].rpc \in Rpcs
    BY TypeFacts DEF ServerInvariant, TypeOK, ObjectsType, Objects
  <2>4. Appended(obj, obj[e.tag].rpc, obj')
    BY <2>2, <2>3, ObjectAppend
  <2>5. RepliesOK'
    BY <2>1, <2>4, RepliesSame DEF Appended, Process
  <2>6. QED
    BY <1>4, <2>5, CreateObjects DEF ServerInvariant
<1>5. ASSUME NEW t \in Threads, ServeDirect(t) \/ RefuseUuid(t) PROVE ServerInvariant'
  BY <1>5, ServeObjects, ServeReplies DEF ServerInvariant
<1>6. ASSUME NEW t \in Threads, StartWaiter(t) PROVE ServerInvariant'
  BY <1>6, StartWaiterObjects, StartWaiterReplies DEF ServerInvariant
<1>7. ASSUME NEW w \in waiter, WaitFind(w) PROVE ServerInvariant'
  BY <1>7, WaitFindReplies DEF ServerInvariant
<1>8. ASSUME NEW w \in waiter, WaitTake(w) PROVE ServerInvariant'
  BY <1>8, TakeReplies DEF ServerInvariant
<1>9. ASSUME NEW w \in waiter, WaitTimeout(w) \/ WaitErase(w) PROVE ServerInvariant'
  BY <1>9, LeaveSteps DEF ServerInvariant
<1>10. ASSUME NEW w \in waiter, WaiterFinish(w) PROVE ServerInvariant'
  BY <1>10, WaiterFinishObjects, WaiterFinishReplies DEF ServerInvariant
<1>11. ASSUME NEW c \in Calls, ReplyFind(c) PROVE ServerInvariant'
  <2>1. UNCHANGED <<grpcVars, serverUp, cqShut, cur, mpc, waiter>>
    BY <1>11 DEF ReplyFind
  <2>2. QED
    BY <1>11, <2>1, ReplyFindReplies, ObjectsApart DEF ServerInvariant
<1>12. CASE ReplyWrite
  <2>1. UNCHANGED <<grpcVars, serverUp, cqShut, cur, mpc, waiter>>
    BY <1>12 DEF ReplyWrite
  <2>2. QED
    BY <1>12, <2>1, ReplyWriteReplies, ObjectsApart DEF ServerInvariant
<1>13. CASE Expire
  <2>1. UNCHANGED <<grpcVars, serverUp, cqShut, cur, mpc, waiter>>
    BY <1>13 DEF Expire
  <2>2. QED
    BY <1>13, <2>1, ExpireReplies, ObjectsApart DEF ServerInvariant
<1>14. CASE Runner \/ ProcessEnds \/ UNCHANGED vars
  <2>1. /\ UNCHANGED <<grpcVars, serverUp, cqShut, running, cur, mpc, waiter>>
        /\ UNCHANGED <<table, entry, writer, inQ>>
    BY <1>14 DEF Runner, RunnerLoop, RunnerNextFalse, ProcessEnds, NullDispatcher, vars
  <2>2. rpc' \in {rpc, "loop", "next", "exited"}
    BY <1>14 DEF Runner, RunnerLoop, RunnerNextFalse, ProcessEnds, NullDispatcher, vars
  <2>3. ControlType'
    BY <2>1, <2>2, Zenon DEF ServerInvariant, TypeOK, ControlType
  <2>4. TypeOK'
    BY <2>1, <2>3 DEF ServerInvariant, TypeOK, CallsType, ObjectsType, EntriesType, WaitersType
  <2>5. RepliesOK'
    BY <2>1, RepliesSame DEF Process
  <2>6. QED
    BY <2>1, <2>4, <2>5, ObjectsApart DEF ServerInvariant
<1>15. CASE ShutdownBegin
  <2>1. UNCHANGED <<table, entry, writer, inQ, waiter, uuid, obj>>
    BY <1>15 DEF ShutdownBegin
  <2>2. RepliesOK'
    BY <2>1, RepliesSame DEF Process
  <2>3. QED
    BY <1>15, <2>2, ShutdownObjects DEF ServerInvariant
<1>16. CASE StopRest
  <2>1. UNCHANGED <<table, entry, writer, inQ, waiter, uuid, obj>>
    BY <1>16 DEF StopRest, ShutdownReturns, CloserShutdown, DrainEnds, JoinAndClear
  <2>2. RepliesOK'
    BY <2>1, RepliesSame DEF Process
  <2>3. QED
    BY <1>16, <2>2, StopObjects DEF ServerInvariant
<1>17. QED
  BY <1>1, <1>2, <1>3, <1>4, <1>5, <1>6, <1>7, <1>8, <1>9, <1>10, <1>11, <1>12, <1>13, <1>14,
     <1>15, <1>16 DEF Next, Alive, ServerAction, Proceed, Waiting, Finished

------------------------------------------------------------------------------
(***************************************************************************)
(* Everything has its type: in particular no thread uses an object or an   *)
(* entry that was never made.                                              *)
(***************************************************************************)
THEOREM TypeCorrect == Spec => []TypeOK
<1>1. ServerInvariant => TypeOK
  BY DEF ServerInvariant
<1>2. QED
  BY <1>1, ServerInit, ServerStep, PTL DEF Spec

(***************************************************************************)
(* However many calls come, each RPC has one object to take the next.      *)
(***************************************************************************)
THEOREM AlwaysOneListener == Spec => []OneListener
<1>1. ServerInvariant => OneListener
  <2> SUFFICES ASSUME ServerInvariant, serverUp, NEW r \in Rpcs
               PROVE  Cardinality({i \in DOMAIN obj :
                        /\ obj[i].rpc = r
                        /\ i \in listening \/ ( /\ obj[i].status = "PROCESS"
                                                /\ Tag(i, TRUE) \in cq)}) = 1
    BY DEF OneListener
  <2> DEFINE S == {i \in DOMAIN obj :
                        /\ obj[i].rpc = r
                        /\ i \in listening \/ ( /\ obj[i].status = "PROCESS"
                                                /\ Tag(i, TRUE) \in cq)}
  <2>1. PICK i \in DOMAIN obj : obj[i].rpc = r /\ Taker(i)
    BY DEF ServerInvariant, TakersOK
  <2>2. \A j \in DOMAIN obj : obj[j].rpc = r /\ Taker(j) => j = i
    BY <2>1 DEF ServerInvariant, TakersOK
  <2>3. S = {i}
    BY <2>1, <2>2 DEF Taker, Process
  <2>4. QED
    BY <2>3, FS_Singleton
<1>2. QED
  BY <1>1, ServerInit, ServerStep, PTL DEF Spec

(***************************************************************************)
(* A tag that comes out of the queue is an object that is still there,     *)
(* whoever takes it, and Stop leaves no operation behind.                  *)
(***************************************************************************)
THEOREM TagsStayLive == Spec => []TagsAreLive
<1>1. ServerInvariant => TagsAreLive
  <2> SUFFICES ASSUME ServerInvariant PROVE TagsAreLive
    OBVIOUS
  <2> USE DEF ServerInvariant, ObjectsOK
  <2>1. \A e \in cq : e.tag \in alive
    BY DEF TagsOK
  <2>2. listening \subseteq alive
    BY DEF ListenersOK
  <2>3. ASSUME cqShut PROVE cur = [t \in Threads |-> 0] /\ \A w \in waiter : w.at = "gone"
    <3>1. \A i \in DOMAIN obj : Process(i) => obj[i].call = NoCall
      BY <2>3 DEF StopOK
    <3>2. \A t \in Threads : cur[t] = 0
      BY <3>1, TypeFacts DEF ServingOK
    <3>3. \A w \in waiter : w.at = "gone"
      BY <3>1, TypeFacts DEF WaitersOK
    <3>4. QED
      BY <3>2, <3>3 DEF TypeOK, ObjectsType
  <2>4. mpc = "stopped" => cq = {} /\ listening = {}
    BY DEF StopOK, ListenersOK
  <2>5. QED
    BY <2>1, <2>2, <2>3, <2>4 DEF TagsAreLive
<1>2. QED
  BY <1>1, ServerInit, ServerStep, PTL DEF Spec

(***************************************************************************)
(* Whatever the order of calls, replies, waits, time limits and the        *)
(* cleaner, with uuids used once or often, replies meet their requests.    *)
(***************************************************************************)
THEOREM RepliesAlwaysMeet == Spec => []RepliesMeetRequests
<1>1. ServerInvariant => RepliesMeetRequests
  <2> SUFFICES ASSUME ServerInvariant PROVE RepliesMeetRequests
    OBVIOUS
  <2> USE DEF ServerInvariant, RepliesOK
  <2>1. \A v, w \in waiter : v # w /\ v.result \in Calls => v.result # w.result
    BY DEF OnceOK
  <2>2. ASSUME NEW w \in waiter
        PROVE  LET c == obj[w.self].call
               IN  /\ w.result \in Calls => uuid[w.result] = uuid[c]
                   /\ Unique(c) => w.result # Moved
                   /\ Unique(c) /\ w.at = "wait" /\ c \in Replied => entry[w.entry] = c
    <3>1. PICK c \in Calls : c = obj[w.self].call
      BY ReplyFacts
    <3>2. w.result \in Calls => uuid[w.result] = uuid[c]
      BY <3>1 DEF OwnersOK, UuidOf
    <3>3. Unique(c) => w.result # Moved
      BY <3>1 DEF MovedOK
    <3>4. ASSUME Unique(c), w.at = "wait", c \in Replied PROVE entry[w.entry] = c
      <4>1. ASSUME NEW v \in waiter, v.result = c PROVE FALSE
        <5>1. UuidOf(v) = uuid[c] /\ UuidOf(w) = uuid[c]
          BY <3>1, <4>1 DEF OwnersOK, UuidOf
        <5>2. v = w
          BY <3>1, <3>4, <5>1, ReplyFacts
        <5>3. QED
          BY <3>4, <4>1, <5>2, NumberFacts DEF MovedOK
      <4>2. PICK e \in DOMAIN entry : entry[e] = c
        BY <3>4, <4>1, RepliedFacts
      <4>3. table[UuidOf(w)] = e /\ table[UuidOf(w)] = w.entry
        BY <3>1, <3>4, <4>2 DEF YoungOK
      <4>4. QED
        BY <4>2, <4>3
    <3>5. QED
      BY <3>1, <3>2, <3>3, <3>4
  <2>3. QED
    BY <2>1, <2>2 DEF RepliesMeetRequests
<1>2. QED
  BY <1>1, ServerInit, ServerStep, PTL DEF Spec

------------------------------------------------------------------------------
(***************************************************************************)
(* No call is forgotten.  An object that has a call and is not done with   *)
(* it is in the hand of somebody who will go on with it: its tag is        *)
(* queued, a thread is in its Proceed, or its detached thread is on its    *)
(* way to Finish.                                                          *)
(***************************************************************************)
Carried(i) ==
  \/ Queued(i)
  \/ \E t \in Threads : cur[t] = i
  \/ \E w \in waiter : w.self = i /\ w.at # "gone"

HandsOK == \A i \in DOMAIN obj : obj[i].call # NoCall /\ Process(i) => Carried(i)

FinishedOK ==
  \A i \in DOMAIN obj : obj[i].call # NoCall /\ ~Process(i) => answer[obj[i].call] # "none"

RefusedOK ==
  \A c \in Calls : uuid[c] # Unset /\ ~Matched(c) /\ ~serverUp => answer[c] # "none"

CallsHeld == HandsOK /\ FinishedOK /\ RefusedOK

(***************************************************************************)
(* A step that touches neither objects nor calls, and takes no object out  *)
(* of a hand.                                                              *)
(***************************************************************************)
LEMMA HeldApart ==
  ASSUME CallsHeld, UNCHANGED <<obj, uuid, answer, serverUp>>,
         \A i \in DOMAIN obj : obj[i].call # NoCall /\ Process(i) /\ Carried(i) => Carried(i)'
  PROVE  CallsHeld'
<1>1. HandsOK'
  BY DEF CallsHeld, HandsOK, Process
<1>2. FinishedOK'
  BY DEF CallsHeld, FinishedOK, Process
<1>3. RefusedOK'
  BY DEF CallsHeld, RefusedOK, Matched
<1>4. QED
  BY <1>1, <1>2, <1>3 DEF CallsHeld

(***************************************************************************)
(* Whoever answers a call takes only its own object out of its hand.       *)
(***************************************************************************)
LEMMA HeldFinish ==
  ASSUME ServerInvariant, CallsHeld, NEW i \in alive, NEW a \in Answers,
         Process(i), obj[i].call # NoCall, ~Queued(i),
         obj' = [obj EXCEPT ![i].status = "FINISH"], Finish(i, a),
         UNCHANGED <<uuid, alive, listening, serverUp, mpc, cqShut>>,
         \A j \in DOMAIN obj : j # i /\ Carried(j) => Carried(j)'
  PROVE  CallsHeld'
<1>1. StatusSet(obj, i, obj') /\ i \in DOMAIN obj
  BY FinishFacts
<1>2. /\ DOMAIN obj' = DOMAIN obj /\ obj'[i].status = "FINISH"
      /\ \A j \in DOMAIN obj : obj'[j].call = obj[j].call
      /\ \A j \in DOMAIN obj : j # i => obj'[j] = obj[j]
  BY <1>1 DEF StatusSet
<1>3. obj[i].call \in Calls /\ answer \in [Calls -> {"none"} \cup Answers \cup {"UNAVAILABLE"}]
  BY <1>1, TypeFacts DEF ServerInvariant, TypeOK, CallsType, Answers
<1>4. /\ answer'[obj[i].call] # "none"
      /\ \A c \in Calls : answer[c] # "none" => answer'[c] # "none"
  BY <1>3 DEF Finish, Answers
<1>5. HandsOK'
  BY <1>2 DEF CallsHeld, HandsOK, Process
<1>6. FinishedOK'
  <2>1. ASSUME NEW j \in DOMAIN obj', obj'[j].call # NoCall, ~Process(j)'
        PROVE  answer'[obj'[j].call] # "none"
    <3>1. CASE j = i
      BY <1>2, <1>4, <3>1
    <3>2. CASE j # i
      <4>1. obj'[j] = obj[j] /\ obj[j].call \in Calls /\ ~Process(j)
        BY <1>2, <2>1, <3>2, TypeFacts DEF Process, ServerInvariant
      <4>2. answer[obj[j].call] # "none"
        BY <1>2, <2>1, <4>1 DEF CallsHeld, FinishedOK
      <4>3. QED
        BY <1>4, <4>1, <4>2
    <3>3. QED
      BY <3>1, <3>2
  <2>2. QED
    BY <2>1 DEF FinishedOK
<1>7. RefusedOK'
  <2>1. \A c \in Calls : Matched(c)' <=> Matched(c)
    BY <1>2 DEF Matched
  <2>2. QED
    BY <1>4, <2>1 DEF CallsHeld, RefusedOK
<1>8. QED
  BY <1>5, <1>6, <1>7 DEF CallsHeld

LEMMA HeldCall ==
  ASSUME ServerInvariant, CallsHeld, NEW c \in Calls, Call(c)
  PROVE  CallsHeld'
<1>1. UNCHANGED <<obj, cq, cur, waiter, serverUp>>
  BY DEF Call, threadVars
<1>2. uuid[c] = Unset /\ \A d \in Calls : d # c => uuid'[d] = uuid[d]
  BY DEF Call, ServerInvariant, TypeOK, CallsType
<1>3. /\ \A d \in Calls : answer[d] # "none" => answer'[d] # "none"
      /\ ~serverUp => answer'[c] # "none"
  BY DEF Call, ServerInvariant, TypeOK, CallsType
<1>4. HandsOK'
  BY <1>1 DEF CallsHeld, HandsOK, Process, Carried, Queued
<1>5. FinishedOK'
  BY <1>1, <1>3, TypeFacts DEF CallsHeld, FinishedOK, Process, ServerInvariant
<1>6. RefusedOK'
  BY <1>1, <1>2, <1>3 DEF CallsHeld, RefusedOK, Matched
<1>7. QED
  BY <1>4, <1>5, <1>6 DEF CallsHeld

LEMMA HeldMatch ==
  ASSUME ServerInvariant, CallsHeld, NEW c \in Calls, Match(c)
  PROVE  CallsHeld'
<1>1. UNCHANGED <<uuid, answer, cur, waiter, serverUp>> /\ serverUp
  BY DEF Match, threadVars
<1>2. PICK i \in listening : obj' = [obj EXCEPT ![i].call = c] /\ cq' = cq \cup {Tag(i, TRUE)}
  BY DEF Match
<1>3. i \in DOMAIN obj /\ obj \in Seq(Objects) /\ Process(i)
  BY DEF ServerInvariant, TypeOK, ObjectsType, ObjectsOK, ListenersOK
<1>4. /\ DOMAIN obj' = DOMAIN obj
      /\ \A j \in DOMAIN obj : obj'[j].status = obj[j].status
      /\ \A j \in DOMAIN obj : j # i => obj'[j] = obj[j]
  <2>1. CallSet(obj, i, c, obj')
    BY <1>2, <1>3, CallUpdate
  <2>2. QED
    BY <2>1 DEF CallSet
<1>5. Queued(i)' /\ \A j \in DOMAIN obj : Carried(j) => Carried(j)'
  BY <1>1, <1>2, TagFacts DEF Queued, Carried
<1>6. HandsOK'
  BY <1>4, <1>5 DEF CallsHeld, HandsOK, Process, Carried
<1>7. FinishedOK'
  BY <1>1, <1>3, <1>4 DEF CallsHeld, FinishedOK, Process
<1>8. RefusedOK'
  BY <1>1 DEF RefusedOK
<1>9. QED
  BY <1>6, <1>7, <1>8 DEF CallsHeld

LEMMA HeldUnregister ==
  ASSUME ServerInvariant, CallsHeld, NEW t \in Threads, Unregister(t)
  PROVE  CallsHeld'
<1>1. UNCHANGED <<obj, uuid, answer, serverUp, cur, waiter>>
  BY DEF Unregister
<1>2. PICK e \in cq : cq' = cq \ {e} /\ (obj[e.tag].status = "FINISH" \/ ~e.ok)
  BY DEF Unregister
<1>3. ~Process(e.tag) \/ obj[e.tag].call = NoCall
  BY <1>2 DEF Process, ServerInvariant, ObjectsOK, TagsOK
<1>4. \A i \in DOMAIN obj : obj[i].call # NoCall /\ Process(i) /\ Carried(i) => Carried(i)'
  BY <1>1, <1>2, <1>3 DEF Carried, Queued
<1>5. QED
  BY <1>1, <1>4, HeldApart

LEMMA HeldCreate ==
  ASSUME ServerInvariant, CallsHeld, NEW t \in Threads, CreateAndRegister(t)
  PROVE  CallsHeld'
<1>1. UNCHANGED <<uuid, answer, serverUp, waiter>>
  BY DEF CreateAndRegister
<1>2. PICK e \in cq : /\ MayTake(t) /\ obj' = Append(obj, Listener(obj[e.tag].rpc))
                      /\ cq \ {e} \subseteq cq' /\ cur' = [cur EXCEPT ![t] = e.tag]
  BY DEF CreateAndRegister
<1>3. PICK n : /\ DOMAIN obj' = DOMAIN obj \cup {n} /\ obj'[n].call = NoCall
               /\ \A j \in DOMAIN obj : obj'[j] = obj[j]
  <2>1. obj \in Seq(Objects) /\ obj[e.tag].rpc \in Rpcs
    BY TypeFacts DEF ServerInvariant, TypeOK, ObjectsType, Objects
  <2>2. Appended(obj, obj[e.tag].rpc, obj')
    BY <1>2, <2>1, ObjectAppend
  <2>3. QED
    BY <2>2 DEF Appended, Listener
<1>4. cur[t] = 0 /\ cur'[t] = e.tag /\ \A s \in Threads : s # t => cur'[s] = cur[s]
  BY <1>2 DEF MayTake, ServerInvariant, TypeOK, ObjectsType
<1>5. ASSUME NEW j \in DOMAIN obj, Carried(j) PROVE Carried(j)'
  <2>1. CASE j = e.tag
    BY <1>4, <2>1 DEF Carried
  <2>2. CASE j # e.tag
    <3>1. Queued(j) => Queued(j)'
      BY <1>2, <2>2 DEF Queued
    <3>2. j # 0
      BY TypeFacts DEF ServerInvariant
    <3>3. QED
      BY <1>1, <1>4, <1>5, <3>1, <3>2 DEF Carried
  <2>3. QED
    BY <2>1, <2>2
<1>6. HandsOK'
  BY <1>3, <1>5 DEF CallsHeld, HandsOK, Process
<1>7. FinishedOK'
  BY <1>1, <1>3 DEF CallsHeld, FinishedOK, Process
<1>8. RefusedOK'
  BY <1>1, <1>3 DEF CallsHeld, RefusedOK, Matched
<1>9. QED
  BY <1>6, <1>7, <1>8 DEF CallsHeld

LEMMA HeldServe ==
  ASSUME ServerInvariant, CallsHeld, NEW t \in Threads, ServeDirect(t) \/ RefuseUuid(t)
  PROVE  CallsHeld'
<1>1. PICK i : i = cur[t]
  OBVIOUS
<1>2. /\ i # 0 /\ obj' = [obj EXCEPT ![i].status = "FINISH"]
      /\ cur' = [cur EXCEPT ![t] = 0]
      /\ UNCHANGED <<uuid, alive, listening, serverUp, cqShut, mpc, waiter>>
  BY <1>1 DEF ServeDirect, RefuseUuid
<1>3. PICK a \in Answers : Finish(i, a)
  BY <1>1 DEF ServeDirect, RefuseUuid, Answers
<1>4. i \in alive /\ Process(i) /\ obj[i].call # NoCall /\ ~Queued(i)
  BY <1>1, <1>2 DEF ServerInvariant, ObjectsOK, ServingOK
<1>5. \A s \in Threads : s # t => cur'[s] = cur[s]
  BY <1>2 DEF ServerInvariant, TypeOK, ObjectsType
<1>6. \A j \in DOMAIN obj : j # i /\ Carried(j) => Carried(j)'
  BY <1>1, <1>2, <1>3, <1>5 DEF Carried, Queued, Finish
<1>7. QED
  BY <1>2, <1>3, <1>4, <1>6, HeldFinish

LEMMA HeldStartWaiter ==
  ASSUME ServerInvariant, CallsHeld, NEW t \in Threads, StartWaiter(t)
  PROVE  CallsHeld'
<1>1. UNCHANGED <<obj, uuid, answer, serverUp, cq>> /\ cur' = [cur EXCEPT ![t] = 0]
  BY DEF StartWaiter, grpcVars
<1>2. PICK x : /\ x = [self |-> cur[t], at |-> "find", entry |-> 0, result |-> None]
               /\ waiter' = waiter \cup {x}
  BY DEF StartWaiter
<1>3. x.self = cur[t] /\ x.at # "gone"
  BY <1>2
<1>4. \A s \in Threads : s # t => cur'[s] = cur[s]
  BY <1>1 DEF ServerInvariant, TypeOK, ObjectsType
<1>5. \A i \in DOMAIN obj : obj[i].call # NoCall /\ Process(i) /\ Carried(i) => Carried(i)'
  BY <1>1, <1>2, <1>3, <1>4 DEF Carried, Queued
<1>6. QED
  BY <1>1, <1>5, HeldApart

LEMMA HeldWait ==
  ASSUME ServerInvariant, CallsHeld, NEW w \in waiter,
         WaitFind(w) \/ WaitTake(w) \/ WaitTimeout(w) \/ WaitErase(w)
  PROVE  CallsHeld'
<1>1. UNCHANGED <<obj, uuid, answer, serverUp, cq, cur>>
  BY DEF WaitFind, WaitTake, WaitTimeout, WaitErase, grpcVars, threadVars
<1>2. w \in [self : DOMAIN obj, at : Steps, entry : 0..Len(entry), result : Values]
  BY DEF ServerInvariant, TypeOK, WaitersType
<1>3. PICK x : waiter' = (waiter \ {w}) \cup {x} /\ x.self = w.self /\ x.at # "gone"
  <2>1. CASE WaitFind(w)
    <3>1. PICK x : x = [w EXCEPT !.at = "wait", !.entry = table'[UuidOf(w)]]
      OBVIOUS
    <3>2. waiter' = (waiter \ {w}) \cup {x}
      BY <2>1, <3>1 DEF WaitFind, Step
    <3>3. x.self = w.self /\ x.at = "wait"
      BY <1>2, <3>1
    <3>4. QED
      BY <3>2, <3>3
  <2>2. CASE WaitTake(w)
    <3>1. PICK x : x = [w EXCEPT !.at = "erase", !.result = entry[w.entry]]
      OBVIOUS
    <3>2. waiter' = (waiter \ {w}) \cup {x}
      BY <2>2, <3>1 DEF WaitTake, Step
    <3>3. x.self = w.self /\ x.at = "erase"
      BY <1>2, <3>1
    <3>4. QED
      BY <3>2, <3>3
  <2>3. CASE WaitTimeout(w) \/ WaitErase(w)
    <3>1. PICK x : x = [w EXCEPT !.at = "finish"]
      OBVIOUS
    <3>2. waiter' = (waiter \ {w}) \cup {x}
      BY <2>3, <3>1 DEF WaitTimeout, WaitErase, Step
    <3>3. x.self = w.self /\ x.at = "finish"
      BY <1>2, <3>1
    <3>4. QED
      BY <3>2, <3>3
  <2>4. QED
    BY <2>1, <2>2, <2>3
<1>4. \A i \in DOMAIN obj : obj[i].call # NoCall /\ Process(i) /\ Carried(i) => Carried(i)'
  BY <1>1, <1>3 DEF Carried, Queued
<1>5. QED
  BY <1>1, <1>4, HeldApart

LEMMA HeldWaiterFinish ==
  ASSUME ServerInvariant, CallsHeld, NEW w \in waiter, WaiterFinish(w)
  PROVE  CallsHeld'
<1>1. PICK i : i = w.self
  OBVIOUS
<1>2. /\ w.at = "finish" /\ obj' = [obj EXCEPT ![i].status = "FINISH"]
      /\ waiter \ {w} \subseteq waiter'
      /\ UNCHANGED <<uuid, alive, listening, serverUp, cqShut, cur, mpc>>
  BY <1>1 DEF WaiterFinish, Step, threadVars
<1>3. PICK a \in Answers : Finish(i, a)
  BY <1>1 DEF WaiterFinish, Answers
<1>4. i \in alive /\ Process(i) /\ obj[i].call # NoCall /\ ~Queued(i)
  BY <1>1, <1>2 DEF ServerInvariant, ObjectsOK, WaitersOK
<1>5. \A j \in DOMAIN obj : j # i /\ Carried(j) => Carried(j)'
  BY <1>1, <1>2, <1>3 DEF Carried, Queued, Finish
<1>6. QED
  BY <1>2, <1>3, <1>4, <1>5, HeldFinish

LEMMA HeldShutdown ==
  ASSUME ServerInvariant, CallsHeld, ShutdownBegin
  PROVE  CallsHeld'
<1>1. UNCHANGED <<obj, uuid, cur, waiter>> /\ cq \subseteq cq'
  BY DEF ShutdownBegin
<1>2. \A c \in Calls : answer'[c] = IF uuid[c] # Unset /\ ~Matched(c)
                                    THEN "UNAVAILABLE" ELSE answer[c]
  BY DEF ShutdownBegin
<1>3. HandsOK'
  BY <1>1 DEF CallsHeld, HandsOK, Process, Carried, Queued
<1>4. FinishedOK'
  BY <1>1, <1>2, TypeFacts DEF CallsHeld, FinishedOK, Process, ServerInvariant
<1>5. RefusedOK'
  BY <1>1, <1>2 DEF RefusedOK, Matched
<1>6. QED
  BY <1>3, <1>4, <1>5 DEF CallsHeld

LEMMA HeldInit == Init => CallsHeld
<1> SUFFICES ASSUME Init PROVE CallsHeld
  OBVIOUS
<1>1. /\ \A i \in DOMAIN obj : obj[i].call = NoCall
      /\ serverUp
  BY DEF Init, Listener
<1>2. QED
  BY <1>1 DEF CallsHeld, HandsOK, FinishedOK, RefusedOK

LEMMA HeldStep == ServerInvariant /\ CallsHeld /\ [Next]_vars => CallsHeld'
<1> SUFFICES ASSUME ServerInvariant, CallsHeld, [Next]_vars PROVE CallsHeld'
  OBVIOUS
<1>1. ASSUME UNCHANGED <<obj, uuid, answer, serverUp, cq, cur, waiter>> PROVE CallsHeld'
  BY <1>1, HeldApart DEF Carried, Queued
<1>2. CASE \/ \E c \in Calls : ReplyFind(c)
           \/ ReplyWrite \/ Expire \/ Runner \/ StopRest \/ ProcessEnds \/ UNCHANGED vars
  <2>1. UNCHANGED <<obj, uuid, answer, serverUp, cq, cur, waiter>>
    BY <1>2 DEF ReplyFind, ReplyWrite, Expire, Runner, RunnerLoop, RunnerNextFalse, StopRest,
                ShutdownReturns, CloserShutdown, DrainEnds, JoinAndClear, ProcessEnds,
                NullDispatcher, vars, grpcVars, threadVars
  <2>2. QED
    BY <1>1, <2>1
<1>3. QED
  BY <1>2, HeldCall, HeldMatch, HeldUnregister, HeldCreate, HeldServe, HeldStartWaiter, HeldWait,
     HeldWaiterFinish, HeldShutdown DEF Next, Alive, ServerAction, Proceed, Waiting, Finished

(***************************************************************************)
(* Without a dispatcher a detached thread gets no further than its first   *)
(* step, which ends the process; nothing else ends it.                     *)
(***************************************************************************)
OwnerOK ==
  /\ connected \in BOOLEAN /\ crashed \in BOOLEAN
  /\ crashed => ~connected /\ waiter # {}
  /\ ~connected => \A w \in waiter : w.at = "find"

LEMMA OwnerInit == Init => OwnerOK
BY DEF Init, OwnerOK

LEMMA OwnerStep == ServerInvariant /\ OwnerOK /\ [Next]_vars => OwnerOK'
<1> SUFFICES ASSUME ServerInvariant, OwnerOK, [Next]_vars PROVE OwnerOK'
  OBVIOUS
<1> USE DEF OwnerOK
<1>1. CASE UNCHANGED vars
  BY <1>1 DEF vars, ownerVars
<1>2. CASE ProcessEnds
  BY <1>2 DEF ProcessEnds, NullDispatcher
<1>3. CASE Alive(ServerAction)
  <2>1. UNCHANGED <<connected, crashed>> /\ ~crashed
    BY <1>3 DEF Alive, ownerVars
  <2>2. CASE UNCHANGED waiter
    BY <2>1, <2>2
  <2>3. ASSUME NEW t \in Threads, StartWaiter(t) PROVE OwnerOK'
    <3>1. PICK x : /\ x = [self |-> cur[t], at |-> "find", entry |-> 0, result |-> None]
                   /\ waiter' = waiter \cup {x}
      BY <2>3 DEF StartWaiter
    <3>2. x.at = "find"
      BY <3>1
    <3>3. QED
      BY <2>1, <3>1, <3>2
  <2>4. ASSUME NEW w \in waiter, \/ WaitFind(w) \/ WaitTake(w) \/ WaitTimeout(w)
                                \/ WaitErase(w) \/ WaiterFinish(w)
        PROVE  connected
    BY <2>4 DEF WaitFind, WaitTake, WaitTimeout, WaitErase, WaiterFinish
  <2>5. CASE Waiting
    BY <2>1, <2>4, <2>5 DEF Waiting
  <2>6. CASE \E t \in Threads : Proceed(t)
    <3>1. PICK t \in Threads : Proceed(t)
      BY <2>6
    <3>2. CASE Unregister(t) \/ CreateAndRegister(t) \/ ServeDirect(t) \/ RefuseUuid(t)
      BY <2>2, <3>2 DEF Unregister, CreateAndRegister, ServeDirect, RefuseUuid
    <3>3. QED
      BY <2>3, <3>1, <3>2 DEF Proceed
  <2>7. CASE \/ \E c \in Calls : Call(c) \/ Match(c) \/ ReplyFind(c)
             \/ ReplyWrite \/ Expire \/ Runner \/ ShutdownBegin \/ StopRest
    <3>1. UNCHANGED waiter
      BY <2>7 DEF Call, Match, ReplyFind, ReplyWrite, Expire, Runner, RunnerLoop, RunnerNextFalse,
                  ShutdownBegin, StopRest, ShutdownReturns, CloserShutdown, DrainEnds,
                  JoinAndClear
    <3>2. QED
      BY <2>2, <3>1
  <2>8. QED
    BY <1>3, <2>5, <2>6, <2>7 DEF Alive, ServerAction
<1>4. QED
  BY <1>1, <1>2, <1>3 DEF Next, Finished

(***************************************************************************)
(* The safety half of CallsAnswered and of ServerStopEnds: a call that was *)
(* made and has no answer is one that gRPC has yet to match, or its object *)
(* is in the hand of somebody who will go on with it; from the return of   *)
(* Shutdown on, which the rest of Stop waits for, none is without one; and *)
(* the process ends only where no dispatcher was set and a request with a  *)
(* valid uuid was made.                                                    *)
(***************************************************************************)
NoCallForgotten ==
  /\ crashed => NoDispatcher
  /\ ~connected => \A w \in waiter : w.at = "find"
  /\ \A c \in Calls : uuid[c] # Unset /\ answer[c] = "none" =>
       /\ mpc \in {"up", "shutdown"}
       /\ \/ serverUp /\ ~Matched(c)
          \/ \E i \in DOMAIN obj : obj[i].call = c /\ Process(i) /\ Carried(i)

(***************************************************************************)
(* No call is forgotten, whichever thread stops, waits or times out        *)
(* (GrpcUnaryHandler.h, Proceed; GrpcEventServerBase.cpp, Stop).  A call   *)
(* that a detached thread carries is on its way to Finish if there is a    *)
(* dispatcher; if there is none the thread stands before the dereference   *)
(* that ends the process.                                                  *)
(***************************************************************************)
THEOREM NeverForgetsACall == Spec => []NoCallForgotten
<1>1. ServerInvariant /\ CallsHeld /\ OwnerOK => NoCallForgotten
  <2> SUFFICES ASSUME ServerInvariant, CallsHeld, OwnerOK PROVE NoCallForgotten
    OBVIOUS
  <2>1. ASSUME crashed PROVE NoDispatcher
    <3>1. PICK w \in waiter : TRUE
      BY <2>1 DEF OwnerOK
    <3>2. obj[w.self].call \in Calls /\ uuid[obj[w.self].call] \in Uuids
      BY ReplyFacts DEF UuidOf
    <3>3. QED
      BY <2>1, <3>2 DEF OwnerOK, NoDispatcher
  <2>2. ASSUME NEW c \in Calls, uuid[c] # Unset, answer[c] = "none"
        PROVE  /\ mpc \in {"up", "shutdown"}
               /\ \/ serverUp /\ ~Matched(c)
                  \/ \E i \in DOMAIN obj : obj[i].call = c /\ Process(i) /\ Carried(i)
    <3>1. CASE ~Matched(c)
      <4>1. serverUp
        BY <2>2, <3>1 DEF CallsHeld, RefusedOK
      <4>2. QED
        BY <3>1, <4>1 DEF ServerInvariant, ObjectsOK, StopOK
    <3>2. CASE Matched(c)
      <4>1. PICK i \in DOMAIN obj : obj[i].call = c
        BY <3>2 DEF Matched
      <4>2. c # NoCall
        BY NumberFacts
      <4>3. Process(i)
        BY <2>2, <4>1, <4>2 DEF CallsHeld, FinishedOK
      <4>4. Carried(i)
        BY <4>1, <4>2, <4>3 DEF CallsHeld, HandsOK
      <4>5. mpc \in {"up", "shutdown"}
        BY <4>1, <4>2, <4>3 DEF ServerInvariant, ObjectsOK, StopOK, TypeOK, ControlType
      <4>6. QED
        BY <4>1, <4>3, <4>4, <4>5
    <3>3. QED
      BY <3>1, <3>2
  <2>3. QED
    BY <2>1, <2>2 DEF OwnerOK, NoCallForgotten
<1>2. QED
  BY <1>1, ServerInit, ServerStep, HeldInit, HeldStep, OwnerInit, OwnerStep, PTL DEF Spec
================================================================================
