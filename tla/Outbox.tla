------------------------------- MODULE Outbox -------------------------------
(***************************************************************************)
(* The outbox and its dispatchers.  Entries are documents under random     *)
(* ids; a dispatcher polls for pending ones, publishes each to the bus and *)
(* marks it.  Several dispatchers may run: nothing claims an entry.        *)
(***************************************************************************)
EXTENDS Naturals, FiniteSets, Sequences

CONSTANTS Events,        \* entry ids; their order is the order of the ids
          Dispatchers,   \* the control-plane processes that run a dispatcher
          BatchSize,     \* limit of fetchPending
          ListWindow,    \* documents it lists, settled ones too: 4 * limit + 1
          MaxFaults      \* bound: failures of the bus, the store, processes

ASSUME OutboxAssumption ==
  /\ Events \subseteq Nat
  /\ IsFiniteSet(Dispatchers)
  /\ BatchSize \in Nat \ {0}
  /\ ListWindow \in Nat
  /\ MaxFaults \in Nat

VARIABLES entries,   \* entries[e]: status of the entry
          stream,    \* the messages the bus took, in its order
          dispPc,    \* dispPc[d]: the call the dispatcher awaits next
          batch,     \* batch[d]: the fetched entries it has not finished
          faults     \* failures so far, over all processes

outboxVars == <<entries, stream, dispPc, batch>>

(* A call fails or its process stops.                                      *)
Fault ==
  /\ faults < MaxFaults
  /\ faults' = faults + 1

EntryStatus == {"Absent", "Pending", "Published", "Failed"}

DispPc == {"idle", "publish", "mark", "fail"}

OutboxTypeOK ==
  /\ entries \in [Events -> EntryStatus]
  /\ stream \in Seq(Events)
  /\ dispPc \in [Dispatchers -> DispPc]
  /\ batch \in [Dispatchers -> SUBSET Events]
  /\ faults \in 0..MaxFaults

OutboxInit ==
  /\ entries = [e \in Events |-> "Absent"]
  /\ stream = <<>>
  /\ dispPc = [d \in Dispatchers |-> "idle"]
  /\ batch = [d \in Dispatchers |-> {}]
  /\ faults = 0

Enqueued == {e \in Events : entries[e] # "Absent"}

(* The elements of S that have fewer than n smaller ones in S.             *)
FirstOf(n, S) == {e \in S : Cardinality({f \in S : f < e}) < n}

(* The documents the list call returns, settled ones included.             *)
Listed == FirstOf(ListWindow, Enqueued)

(* Bug: the status of the listed documents is not looked at.               *)
FetchablesAll == FirstOf(BatchSize, Listed)

(* Bug: the slice of the batch is off by one.                              *)
FetchablesShort == FirstOf(BatchSize - 1, {e \in Listed : entries[e] = "Pending"})

(* fetchPending.                                                           *)
Fetchables == FirstOf(BatchSize, {e \in Listed : entries[e] = "Pending"})

(* The loop over the batch takes the entries by id.                        *)
Current(d) == CHOOSE e \in batch[d] : \A f \in batch[d] : e <= f

-----------------------------------------------------------------------------

(* enqueue, under a random id.                                             *)
Enqueue(e) ==
  /\ entries[e] = "Absent"
  /\ entries' = [entries EXCEPT ![e] = "Pending"]
  /\ UNCHANGED <<stream, dispPc, batch, faults>>

DispGoto(d, pc) ==
  /\ dispPc' = [dispPc EXCEPT ![d] = pc]
  /\ UNCHANGED batch

(* On to the next entry of the batch, or the end of the poll cycle.        *)
NextEntry(d) ==
  LET rest == batch[d] \ {Current(d)} IN
  /\ batch' = [batch EXCEPT ![d] = rest]
  /\ dispPc' = [dispPc EXCEPT ![d] = IF rest = {} THEN "idle" ELSE "publish"]

(* A poll that finds nothing changes nothing.                              *)
Fetch(d) ==
  /\ dispPc[d] = "idle"
  /\ Fetchables # {}
  /\ batch' = [batch EXCEPT ![d] = Fetchables]
  /\ dispPc' = [dispPc EXCEPT ![d] = "publish"]
  /\ UNCHANGED <<entries, stream, faults>>

(* Bug: the entry is marked before it is published.                        *)
PublishMarksFirst(d) ==
  /\ dispPc[d] = "publish"
  /\ entries' = [entries EXCEPT ![Current(d)] = "Published"]
  /\ stream' = stream
  /\ DispGoto(d, "mark")
  /\ UNCHANGED faults

(* publisher.publish.                                                      *)
Publish(d) ==
  /\ dispPc[d] = "publish"
  /\ stream' = Append(stream, Current(d))
  /\ DispGoto(d, "mark")
  /\ UNCHANGED <<entries, faults>>

(* publish throws, whether or not the bus took the message.                *)
PublishFails(d) ==
  /\ dispPc[d] = "publish"
  /\ Fault
  /\ \/ UNCHANGED stream
     \/ stream' = Append(stream, Current(d))
  /\ DispGoto(d, "fail")
  /\ UNCHANGED entries

(* markPublished writes over whatever status the entry has by now.         *)
MarkPublished(d) ==
  /\ dispPc[d] = "mark"
  /\ entries' = [entries EXCEPT ![Current(d)] = "Published"]
  /\ NextEntry(d)
  /\ UNCHANGED <<stream, faults>>

(* markPublished throws into the same catch as publish.                    *)
MarkFails(d) ==
  /\ dispPc[d] = "mark"
  /\ Fault
  /\ DispGoto(d, "fail")
  /\ UNCHANGED <<entries, stream>>

(* markFailed: fetchPending will not return the entry again.               *)
MarkFailed(d) ==
  /\ dispPc[d] = "fail"
  /\ entries' = [entries EXCEPT ![Current(d)] = "Failed"]
  /\ NextEntry(d)
  /\ UNCHANGED <<stream, faults>>

(* markFailed throws out of the poll cycle, or the process restarts.       *)
AbandonCycle(d) ==
  /\ dispPc[d] # "idle"
  /\ Fault
  /\ dispPc' = [dispPc EXCEPT ![d] = "idle"]
  /\ batch' = [batch EXCEPT ![d] = {}]
  /\ UNCHANGED <<entries, stream>>

DispatchStep(d) == Fetch(d) \/ Publish(d) \/ MarkPublished(d) \/ MarkFailed(d)

DispatchFault(d) == PublishFails(d) \/ MarkFails(d) \/ AbandonCycle(d)

OutboxNext ==
  \/ \E e \in Events : Enqueue(e)
  \/ \E d \in Dispatchers : DispatchStep(d) \/ DispatchFault(d)
=============================================================================
