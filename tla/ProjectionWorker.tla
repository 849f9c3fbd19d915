-------------------------- MODULE ProjectionWorker --------------------------
(***************************************************************************)
(* The projection workers: each fetches a batch of evidence messages from  *)
(* the stream, projects it into the derived artifacts, and acknowledges    *)
(* the whole batch, or none of it.  JetStream delivers a message until it  *)
(* is acknowledged.  The messages are of one workspace and run; the        *)
(* evidence id a message carries, random as an entry id is, is modelled by *)
(* its event.                                                              *)
(***************************************************************************)
EXTENDS Outbox

CONSTANTS Workers,       \* worker processes on one durable consumer
          FetchSize,     \* messages of a fetch (10 in the code)
          Nothing        \* no checkpoint yet

ASSUME WorkerAssumption ==
  /\ FetchSize \in Nat \ {0}
  /\ Nothing \notin Events

VARIABLES held,         \* messages delivered, their ack-wait still running
          acked,        \* messages acknowledged
          workPc,       \* workPc[w]: the call the worker awaits next
          messages,     \* messages[w]: the fetched batch
          todo,         \* todo[w]: those of it still to be projected
          indexed,      \* evidence in the semantic index
          graphed,      \* evidence with a node in the knowledge graph
          checkpoint    \* lastProcessedEvidenceId, or Nothing

workerVars == <<held, acked, workPc, messages, todo, indexed, graphed, checkpoint>>

WorkPc == {"idle", "load", "index", "graph", "checkpoint", "ack"}

Messages == 1..Len(stream)

WorkerTypeOK ==
  /\ held \subseteq Messages
  /\ acked \subseteq Messages
  /\ workPc \in [Workers -> WorkPc]
  /\ messages \in [Workers -> SUBSET Messages]
  /\ todo \in [Workers -> SUBSET Messages]
  /\ indexed \subseteq Events
  /\ graphed \subseteq Events
  /\ checkpoint \in Events \cup {Nothing}

WorkerInit ==
  /\ held = {}
  /\ acked = {}
  /\ workPc = [w \in Workers |-> "idle"]
  /\ messages = [w \in Workers |-> {}]
  /\ todo = [w \in Workers |-> {}]
  /\ indexed = {}
  /\ graphed = {}
  /\ checkpoint = Nothing

WorkGoto(w, pc) == workPc' = [workPc EXCEPT ![w] = pc]

(* The loop over the batch takes the messages as the stream holds them;    *)
(* the last of them stays until the checkpoint is saved.                   *)
Turn(w) == CHOOSE m \in todo[w] : \A n \in todo[w] : m <= n

-----------------------------------------------------------------------------

(* consumer.fetch: some of the messages that wait, redelivered or new.     *)
WorkerFetch(w) ==
  /\ workPc[w] = "idle"
  /\ \E S \in SUBSET (Messages \ (acked \cup held)) :
       /\ S # {} /\ Cardinality(S) <= FetchSize
       /\ messages' = [messages EXCEPT ![w] = S]
       /\ held' = held \cup S
  /\ WorkGoto(w, "load")
  /\ UNCHANGED <<acked, todo, indexed, graphed, checkpoint>>

(* Evidence up to the checkpoint is skipped, by the order of its id.       *)
Unprojected(w) ==
  {m \in messages[w] : checkpoint # Nothing => stream[m] > checkpoint}

(* loadCheckpoint: read once for the batch.                                *)
WorkerLoad(w) ==
  /\ workPc[w] = "load"
  /\ todo' = [todo EXCEPT ![w] = Unprojected(w)]
  /\ WorkGoto(w, IF Unprojected(w) = {} THEN "ack" ELSE "index")
  /\ UNCHANGED <<held, acked, messages, indexed, graphed, checkpoint>>

(* embed, save the artifact (an insert that may find it) and upsert it.    *)
WorkerIndex(w) ==
  /\ workPc[w] = "index"
  /\ indexed' = indexed \cup {stream[Turn(w)]}
  /\ WorkGoto(w, "graph")
  /\ UNCHANGED <<held, acked, messages, todo, graphed, checkpoint>>

(* Bug: a knowledge graph that fails is passed over.                       *)
WorkerGraphOptional(w) ==
  LET rest == todo[w] \ {Turn(w)} IN
  /\ workPc[w] = "graph"
  /\ graphed' \in {graphed, graphed \cup {stream[Turn(w)]}}
  /\ todo' = [todo EXCEPT ![w] = IF rest = {} THEN {Turn(w)} ELSE rest]
  /\ WorkGoto(w, IF rest = {} THEN "checkpoint" ELSE "index")
  /\ UNCHANGED <<held, acked, messages, indexed, checkpoint>>

(* Save and upsert the graph node; on to the next message.                 *)
WorkerGraph(w) ==
  LET rest == todo[w] \ {Turn(w)} IN
  /\ workPc[w] = "graph"
  /\ graphed' = graphed \cup {stream[Turn(w)]}
  /\ todo' = [todo EXCEPT ![w] = IF rest = {} THEN {Turn(w)} ELSE rest]
  /\ WorkGoto(w, IF rest = {} THEN "checkpoint" ELSE "index")
  /\ UNCHANGED <<held, acked, messages, indexed, checkpoint>>

(* Bug: the message's number is stored, not the id of its evidence.        *)
WorkerCheckpointNumber(w) ==
  /\ workPc[w] = "checkpoint"
  /\ checkpoint' = Turn(w)
  /\ WorkGoto(w, "ack")
  /\ UNCHANGED <<held, acked, messages, todo, indexed, graphed>>

(* saveCheckpoint: the last evidence of the batch that was projected; an   *)
(* upsert, whatever another worker has stored.                             *)
WorkerCheckpoint(w) ==
  /\ workPc[w] = "checkpoint"
  /\ checkpoint' = stream[Turn(w)]
  /\ WorkGoto(w, "ack")
  /\ UNCHANGED <<held, acked, messages, todo, indexed, graphed>>

LetGo(w) ==
  /\ held' = held \ messages[w]
  /\ messages' = [messages EXCEPT ![w] = {}]
  /\ todo' = [todo EXCEPT ![w] = {}]
  /\ WorkGoto(w, "idle")

WorkerAck(w) ==
  /\ workPc[w] = "ack"
  /\ acked' = acked \cup messages[w]
  /\ LetGo(w)
  /\ UNCHANGED <<indexed, graphed, checkpoint>>

(* Bug: the batch is acknowledged even if its projection failed.           *)
WorkerFailsAcked(w) ==
  /\ workPc[w] \notin {"idle", "ack"}
  /\ Fault
  /\ acked' = acked \cup messages[w]
  /\ LetGo(w)
  /\ UNCHANGED <<indexed, graphed, checkpoint>>

(* Bug: a failed batch is not given back.                                  *)
WorkerFailsHolding(w) ==
  /\ workPc[w] # "idle"
  /\ Fault
  /\ messages' = [messages EXCEPT ![w] = {}]
  /\ todo' = [todo EXCEPT ![w] = {}]
  /\ WorkGoto(w, "idle")
  /\ UNCHANGED <<held, acked, indexed, graphed, checkpoint>>

(* A port throws and the batch is nak'ed, or the worker stops and the      *)
(* ack-wait runs out: what was projected stays, the batch comes again.     *)
WorkerFails(w) ==
  /\ workPc[w] # "idle"
  /\ Fault
  /\ LetGo(w)
  /\ UNCHANGED <<acked, indexed, graphed, checkpoint>>

(* The ack-wait of a slow worker's batch runs out while it works on it.    *)
AckWaitExpires(w) ==
  /\ messages[w] \cap held # {}
  /\ Fault
  /\ held' = held \ messages[w]
  /\ UNCHANGED <<acked, workPc, messages, todo, indexed, graphed, checkpoint>>

WorkerStep(w) ==
  \/ WorkerFetch(w) \/ WorkerLoad(w)       \/ WorkerIndex(w)
  \/ WorkerGraph(w) \/ WorkerCheckpoint(w) \/ WorkerAck(w)

WorkerNext ==
  \/ \E w \in Workers : WorkerStep(w) /\ UNCHANGED faults
  \/ \E w \in Workers : WorkerFails(w) \/ AckWaitExpires(w)
=============================================================================
