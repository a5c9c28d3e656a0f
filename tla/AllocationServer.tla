-------------------------- MODULE AllocationServer --------------------------
(***************************************************************************)
(* advanced/allocation_server.cpp: sessions that keep the memory for the   *)
(* handlers of their operations in themselves.  Asio allocates a block     *)
(* when an operation (or a further part of a write) is started; when it    *)
(* completes it moves the handler out of the block, gives the block back,  *)
(* calls the handler and destroys it, which may end the session and the    *)
(* memory in it.  One thread runs all of this.                             *)
(***************************************************************************)
EXTENDS Naturals

CONSTANTS Session,   \* session objects that exist at the same time
          Size,      \* the sizes of the blocks asked for
          Capacity,  \* sizeof(storage_)
          Nobody     \* no session

ASSUME MemoryAssumption ==
    /\ Size \subseteq Nat /\ Capacity \in Nat
    /\ Nobody \notin Session

VARIABLES
  alive,   \* sessions that exist
  in_use,  \* in_use[s]: handler_memory_.in_use_
  op,      \* op[s]: the operation outstanding, "none", "read" or "write"
  block,   \* block[s]: where the handler's block is, and its size
  result,  \* result[s]: "none", or how the operation completed
  self,    \* self[s]: the operation's handler holds the shared_ptr
  running, \* the session whose handler the thread has moved out of its block
  phase    \* how far the thread is with it

vars == <<alive, in_use, op, block, result, self, running, phase>>

NoBlock == [at |-> "none", size |-> 0]

Init ==
    /\ alive = {}
    /\ in_use = [s \in Session |-> FALSE]
    /\ op = [s \in Session |-> "none"]
    /\ block = [s \in Session |-> NoBlock]
    /\ result = [s \in Session |-> "none"]
    /\ self = [s \in Session |-> FALSE]
    /\ running = Nobody
    /\ phase = "idle"
-----------------------------------------------------------------------------
\* handler_memory::allocate, for n bytes.
Place(s, n) == IF ~in_use[s] /\ n < Capacity THEN "storage" ELSE "heap"

\* handler_allocator::allocate, for one handler.
Allocate(s) ==
    \E n \in Size :
        /\ block' = [block EXCEPT ![s] = [at |-> Place(s, n), size |-> n]]
        /\ in_use' = [in_use EXCEPT ![s] = @ \/ Place(s, n) = "storage"]

\* Faulty form of Deallocate: in_use_ stays set.
DeallocateKeeps(s) ==
    /\ block' = [block EXCEPT ![s] = NoBlock]
    /\ UNCHANGED in_use

\* handler_memory::deallocate.
Deallocate(s) ==
    /\ block' = [block EXCEPT ![s] = NoBlock]
    /\ in_use' = [in_use EXCEPT ![s] = @ /\ block[s].at # "storage"]

\* Faulty form of StartOp: the handler does not hold the session.
StartOpUnheld(s, kind) ==
    /\ op' = [op EXCEPT ![s] = kind]
    /\ self' = self
    /\ Allocate(s)

\* do_read and do_write: the operation is started with a handler that holds the
\* session, in a block from the session's memory.
StartOp(s, kind) ==
    /\ op' = [op EXCEPT ![s] = kind]
    /\ self' = [self EXCEPT ![s] = TRUE]
    /\ Allocate(s)
-----------------------------------------------------------------------------
\* do_accept's handler: a new session reads.
Accept(s) ==
    /\ running = Nobody
    /\ s \notin alive
    /\ alive' = alive \cup {s}
    /\ StartOp(s, "read")
    /\ UNCHANGED <<result, running, phase>>

\* The operation completes, a write possibly in part.
Completes(s) ==
    /\ op[s] # "none" /\ result[s] = "none" /\ running # s
    /\ \E r \in {"ok", "error"} \cup (IF op[s] = "write" THEN {"part"} ELSE {}) :
          result' = [result EXCEPT ![s] = r]
    /\ UNCHANGED <<alive, in_use, op, block, self, running, phase>>

\* The thread takes a completed operation: the handler is moved out of it.
Move(s) ==
    /\ running = Nobody
    /\ result[s] # "none"
    /\ running' = s
    /\ phase' = "moved"
    /\ UNCHANGED <<alive, in_use, op, block, result, self>>

\* The block is given back before the handler is called.
Free ==
    /\ phase = "moved"
    /\ Deallocate(running)
    /\ phase' = "freed"
    /\ UNCHANGED <<alive, op, result, self, running>>

\* The rest of a write is started, the handler moved into a new block.
WriteOn ==
    /\ phase = "freed" /\ result[running] = "part"
    /\ Allocate(running)
    /\ result' = [result EXCEPT ![running] = "none"]
    /\ running' = Nobody
    /\ phase' = "idle"
    /\ UNCHANGED <<alive, op, self>>

\* The handlers of do_read and do_write: unless there was an error the other
\* operation is started.
Call ==
    /\ phase = "freed" /\ result[running] \in {"ok", "error"}
    /\ IF result[running] = "ok"
       THEN StartOp(running, IF op[running] = "read" THEN "write" ELSE "read")
       ELSE /\ op' = [op EXCEPT ![running] = "none"]
            /\ self' = [self EXCEPT ![running] = FALSE]
            /\ UNCHANGED <<block, in_use>>
    /\ result' = [result EXCEPT ![running] = "none"]
    /\ phase' = "called"
    /\ UNCHANGED <<alive, running>>

\* Faulty form of Return: the session holds itself.
ReturnHeld ==
    /\ phase = "called"
    /\ running' = Nobody
    /\ phase' = "idle"
    /\ UNCHANGED <<alive, in_use, op, block, result, self>>

\* The handler that was called is destroyed, and its shared_ptr with it: unless
\* the next operation holds the session, it is the last one.
Return ==
    /\ phase = "called"
    /\ alive' = IF self[running] THEN alive ELSE alive \ {running}
    /\ in_use' = IF self[running] THEN in_use ELSE [in_use EXCEPT ![running] = FALSE]
    /\ running' = Nobody
    /\ phase' = "idle"
    /\ UNCHANGED <<op, block, result, self>>

Next ==
    \/ Free \/ WriteOn \/ Call \/ Return
    \/ \E s \in Session : Accept(s) \/ Completes(s) \/ Move(s)

Spec == Init /\ [][Next]_vars
-----------------------------------------------------------------------------
\* in_use_ tells whether the storage is lent, and what is lent is large enough.
Lent ==
    \A s \in Session : /\ in_use[s] <=> block[s].at = "storage"
                       /\ block[s].at = "storage" => block[s].size <= Capacity

\* The memory of an outstanding operation is a member of its session: it must
\* not go away before the operation gave its block back, although nothing but
\* the handler in that very block keeps the session alive.
StorageAlive == \A s \in Session : block[s].at # "none" => s \in alive

\* What the example is for: a session never needs the heap, since every block
\* is given back before the next one is asked for, unless it is too large.
NoHeap == \A s \in Session : block[s].at = "heap" => block[s].size >= Capacity

\* No session is left over: it waits for an operation, or the thread is busy
\* with its handler.
NoLeak == \A s \in alive : block[s].at # "none" \/ running = s
=============================================================================
