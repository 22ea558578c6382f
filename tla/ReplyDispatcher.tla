--------------------------- MODULE ReplyDispatcher ---------------------------
(***************************************************************************)
(* ReplyDispatcher (BasicLibs/core/structure): a table from uuid to a      *)
(* shared entry in which one thread leaves a reply and another waits for   *)
(* it.  Whoever comes first makes the entry.  The table and the entries    *)
(* have locks of their own, so an operation is two or three steps, and an  *)
(* entry that a thread holds may no longer be the one in the table.        *)
(* The actions are composed by the modules that extend this one: they give *)
(* the threads, whose progress is not part of the dispatcher.              *)
(***************************************************************************)
EXTENDS Integers, Sequences

CONSTANT Uuids          \* the keys of the requests that are well formed

VARIABLES
  table,                \* [Uuids -> Nat]: the entry of a uuid, 0 for none
  entry                 \* the entries ever made, with the reply in each

None == 0               \* the value of an entry without a reply
Moved == -1             \* the value of an entry whose reply was moved out;
                        \* replies are positive numbers

dispatcherVars == <<table, entry>>

DispatcherInit ==
  /\ table = [u \in Uuids |-> 0]
  /\ entry = << >>

\* The entry that try_emplace finds or makes for u.
Found(u) == IF table[u] # 0 THEN table[u] ELSE Len(entry) + 1

\* The first critical section of set_reply.
FindOrMake(u) ==
  /\ table' = [table EXCEPT ![u] = Found(u)]
  /\ entry' = IF table[u] # 0 THEN entry ELSE Append(entry, None)

\* A plausible bug: the waiter replaces the entry it finds.
AlwaysMake(u) ==
  /\ table' = [table EXCEPT ![u] = Len(entry) + 1]
  /\ entry' = Append(entry, None)

\* The first critical section of wait_and_get.
FindForWaiter(u) == FindOrMake(u)

\* The second critical section of set_reply; it wakes the waiters.
WriteReply(e, reply) ==
  /\ entry' = [entry EXCEPT ![e] = reply]
  /\ UNCHANGED table

\* The predicate of the wait.
HasValue(e) == entry[e] # None

\* wait_and_get moves the reply out.  A moved-from optional still has a
\* value, so a second waiter on the same entry does not wait any longer.
MoveOut(e) ==
  /\ entry' = [entry EXCEPT ![e] = Moved]
  /\ UNCHANGED table

\* The last critical section of wait_and_get, after a success only: it
\* erases by key, whatever entry the table has by then.
EraseEntry(u) ==
  /\ table' = [table EXCEPT ![u] = 0]
  /\ UNCHANGED entry

\* remove_expired takes entries out of the table by their age alone; those
\* who hold one keep it.
RemoveExpired(old) ==
  /\ table' = [u \in Uuids |-> IF table[u] \in old THEN 0 ELSE table[u]]
  /\ UNCHANGED entry

\* total_size
Pending == {u \in Uuids : table[u] # 0}
==============================================================================
