----------------------------- MODULE EchoProofs -----------------------------
(***************************************************************************)
(* Theorems about the echo and daytime programs: AllocationServer for      *)
(* every set of sessions, every size of the storage and every set of sizes *)
(* of blocks; TcpServers for every set of clients, length of a request,    *)
(* size of a buffer and string; Datagrams for every set of clients and     *)
(* ports and any number of datagrams that come twice.                      *)
(***************************************************************************)
EXTENDS AllocationServer, TcpServers, Datagrams, SequenceTheorems, TLAPS
-----------------------------------------------------------------------------
(* The storage of the allocation server. *)

Block == [at : {"none", "storage", "heap"}, size : Nat]

Types ==
    /\ alive \subseteq Session
    /\ in_use \in [Session -> BOOLEAN]
    /\ op \in [Session -> {"none", "read", "write"}]
    /\ block \in [Session -> Block]
    /\ result \in [Session -> {"none", "ok", "error", "part"}]
    /\ self \in [Session -> BOOLEAN]
    /\ running \in Session \cup {Nobody}
    /\ phase \in {"idle", "moved", "freed", "called"}
    /\ running = Nobody <=> phase = "idle"

\* A session whose operation is outstanding: its handler, in its block, holds
\* the session.
Held(s) == op[s] # "none" /\ block[s].at # "none" /\ self[s] = TRUE

\* The thread is between giving the block back and calling the handler.
Between(s) == op[s] # "none" /\ block[s].at = "none" /\ self[s] = TRUE /\ result[s] # "none"

\* Nothing is outstanding for s.
Over(s) == op[s] = "none" /\ block[s].at = "none" /\ self[s] = FALSE

\* The inductive invariant, of one session: which of the three it is in depends
\* on how far the thread is with its handler.  The handler that runs keeps the
\* session alive after the block is gone, until the next operation does.
ISession(s) ==
    /\ in_use[s] = (block[s].at = "storage")
    /\ block[s].at = "storage" => block[s].size <= Capacity
    /\ block[s].at = "heap" => block[s].size >= Capacity
    /\ s \notin alive => Over(s) /\ result[s] = "none" /\ running # s
    /\ s \in alive /\ running # s => Held(s)
    /\ running = s /\ phase = "moved" => Held(s) /\ result[s] # "none"
    /\ running = s /\ phase = "freed" => Between(s)
    /\ running = s /\ phase = "called" => (Held(s) \/ Over(s)) /\ result[s] = "none"

IInv == Types /\ \A s \in Session : ISession(s)

LEMMA InitIInv == Init => IInv
<1> USE MemoryAssumption
<1>. SUFFICES ASSUME Init PROVE IInv
  OBVIOUS
<1>1. Types
  BY DEF Init, Types, Block, NoBlock
<1>2. ASSUME NEW s \in Session PROVE ISession(s)
  BY DEF Init, ISession, Over, NoBlock
<1>. QED
  BY <1>1, <1>2 DEF IInv

\* A step that leaves a session and the thread's part in it alone.
LEMMA Untouched ==
    ASSUME NEW t \in Session, ISession(t),
           in_use'[t] = in_use[t], op'[t] = op[t], block'[t] = block[t],
           result'[t] = result[t] \/ (running # t /\ running' # t /\ t \in alive),
           self'[t] = self[t],
           t \in alive' <=> t \in alive,
           running' = t <=> running = t,
           running = t => phase' = phase
    PROVE  ISession(t)'
BY DEF ISession, Held, Between, Over

\* handler_memory gives a block of its storage when it is free and large enough.
LEMMA PlaceFacts ==
    ASSUME NEW s \in Session, NEW n \in Size, in_use[s] = FALSE
    PROVE  /\ Place(s, n) \in {"storage", "heap"}
           /\ Place(s, n) = "storage" => n <= Capacity
           /\ Place(s, n) = "heap" => n >= Capacity
           /\ n \in Nat
BY MemoryAssumption DEF Place

\* Allocating for a session that has no block.
LEMMA AllocateFacts ==
    ASSUME Types, NEW s \in Session, block[s].at = "none", ISession(s), Allocate(s)
    PROVE  /\ block' \in [Session -> Block] /\ in_use' \in [Session -> BOOLEAN]
           /\ in_use'[s] = (block'[s].at = "storage")
           /\ block'[s].at # "none"
           /\ block'[s].at = "storage" => block'[s].size <= Capacity
           /\ block'[s].at = "heap" => block'[s].size >= Capacity
           /\ \A t \in Session \ {s} : block'[t] = block[t] /\ in_use'[t] = in_use[t]
<1>1. in_use[s] = FALSE
  BY DEF ISession
<1>2. PICK n \in Size :
         /\ block' = [block EXCEPT ![s] = [at |-> Place(s, n), size |-> n]]
         /\ in_use' = [in_use EXCEPT ![s] = @ \/ Place(s, n) = "storage"]
  BY DEF Allocate
<1>3. /\ Place(s, n) \in {"storage", "heap"}
      /\ Place(s, n) = "storage" => n <= Capacity
      /\ Place(s, n) = "heap" => n >= Capacity
      /\ n \in Nat
  BY <1>1, PlaceFacts
<1>4. [at |-> Place(s, n), size |-> n] \in Block
  BY <1>3 DEF Block
<1>5. block' \in [Session -> Block] /\ block'[s] = [at |-> Place(s, n), size |-> n]
  BY <1>2, <1>4 DEF Types
<1>6. in_use' \in [Session -> BOOLEAN]
  BY <1>2 DEF Types
<1>7. in_use'[s] = (Place(s, n) = "storage")
  BY <1>1, <1>2 DEF Types
<1>8. \A t \in Session \ {s} : block'[t] = block[t] /\ in_use'[t] = in_use[t]
  BY <1>2 DEF Types
<1>. QED
  BY <1>3, <1>5, <1>6, <1>7, <1>8

LEMMA AcceptIInv ==
    ASSUME IInv, NEW s \in Session, Accept(s)
    PROVE  IInv'
<1>1. Types /\ ISession(s) /\ Over(s) /\ result[s] = "none" /\ running # s
  BY DEF IInv, ISession, Accept
<1>2. block[s].at = "none" /\ Allocate(s)
  BY <1>1 DEF Over, Accept, StartOp
<1>3. /\ block' \in [Session -> Block] /\ in_use' \in [Session -> BOOLEAN]
      /\ in_use'[s] = (block'[s].at = "storage")
      /\ block'[s].at # "none"
      /\ block'[s].at = "storage" => block'[s].size <= Capacity
      /\ block'[s].at = "heap" => block'[s].size >= Capacity
      /\ \A t \in Session \ {s} : block'[t] = block[t] /\ in_use'[t] = in_use[t]
  BY <1>1, <1>2, AllocateFacts
<1>4. Types'
  BY <1>1, <1>3 DEF Types, Accept, StartOp
<1>5. ISession(s)'
  BY <1>1, <1>3 DEF ISession, Types, Accept, StartOp, Held
<1>6. ASSUME NEW t \in Session \ {s} PROVE ISession(t)'
  <2>1. ISession(t)
    BY DEF IInv
  <2>. QED
    BY <1>1, <1>3, <2>1, Untouched DEF Types, Accept, StartOp
<1>. QED
  BY <1>4, <1>5, <1>6 DEF IInv

LEMMA CompletesIInv ==
    ASSUME IInv, NEW s \in Session, Completes(s)
    PROVE  IInv'
<1>1. Types'
  BY DEF IInv, Types, Completes
<1>2. ASSUME NEW t \in Session PROVE ISession(t)'
  <2>1. ISession(t) /\ Types
    BY DEF IInv
  <2>2. CASE t = s
    BY <2>1, <2>2 DEF ISession, Completes, Over, Held, Between
  <2>3. CASE t # s
    BY <2>1, <2>3, Untouched DEF Types, Completes
  <2>. QED
    BY <2>2, <2>3
<1>. QED
  BY <1>1, <1>2 DEF IInv

LEMMA MoveIInv ==
    ASSUME IInv, NEW s \in Session, Move(s)
    PROVE  IInv'
<1>1. Types'
  BY MemoryAssumption DEF IInv, Types, Move
<1>2. ASSUME NEW t \in Session PROVE ISession(t)'
  <2>1. ISession(t) /\ Types
    BY DEF IInv
  <2>2. CASE t = s
    BY <2>1, <2>2, MemoryAssumption DEF ISession, Move, Over, Held, Between
  <2>3. CASE t # s
    BY <2>1, <2>3, MemoryAssumption, Untouched DEF Types, Move
  <2>. QED
    BY <2>2, <2>3
<1>. QED
  BY <1>1, <1>2 DEF IInv

\* While the thread is with a handler, it is that of a session that is alive.
LEMMA RunningFacts ==
    ASSUME IInv, phase # "idle"
    PROVE  /\ running \in Session /\ Types /\ ISession(running)
           /\ running \in alive
BY DEF IInv, Types, ISession

LEMMA FreeIInv ==
    ASSUME IInv, Free
    PROVE  IInv'
<1>0. PICK r \in Session : running = r
  BY RunningFacts DEF Free
<1>1. running = r /\ Types /\ ISession(r) /\ r \in alive /\ phase = "moved"
  BY <1>0, RunningFacts DEF Free
<1>2. /\ block' = [block EXCEPT ![r] = NoBlock]
      /\ in_use' = [in_use EXCEPT ![r] = @ /\ block[r].at # "storage"]
  BY <1>0 DEF Free, Deallocate
<1>3. NoBlock \in Block /\ NoBlock.at = "none"
  BY DEF NoBlock, Block
<1>4. in_use' \in [Session -> BOOLEAN] /\ in_use'[r] = FALSE
  BY <1>1, <1>2 DEF Types, ISession
<1>5. Types'
  BY <1>1, <1>2, <1>3, <1>4 DEF Types, Free
<1>6. ISession(r)'
  BY <1>1, <1>2, <1>3, <1>4 DEF Types, ISession, Free, Held, Between
<1>7. ASSUME NEW t \in Session \ {r} PROVE ISession(t)'
  <2>1. ISession(t)
    BY DEF IInv
  <2>. QED
    BY <1>1, <1>2, <2>1, Untouched DEF Types, Free
<1>. QED
  BY <1>5, <1>6, <1>7 DEF IInv

LEMMA WriteOnIInv ==
    ASSUME IInv, WriteOn
    PROVE  IInv'
<1>0. PICK r \in Session : running = r
  BY RunningFacts DEF WriteOn
<1>1. /\ running = r /\ Types /\ ISession(r) /\ r \in alive /\ phase = "freed"
      /\ running # Nobody
  BY <1>0, MemoryAssumption, RunningFacts DEF WriteOn
<1>2. block[r].at = "none" /\ Allocate(r)
  BY <1>1 DEF ISession, Between, WriteOn
<1>3. /\ block' \in [Session -> Block] /\ in_use' \in [Session -> BOOLEAN]
      /\ in_use'[r] = (block'[r].at = "storage")
      /\ block'[r].at # "none"
      /\ block'[r].at = "storage" => block'[r].size <= Capacity
      /\ block'[r].at = "heap" => block'[r].size >= Capacity
      /\ \A t \in Session \ {r} : block'[t] = block[t] /\ in_use'[t] = in_use[t]
  BY <1>1, <1>2, AllocateFacts
<1>4. Types'
  BY <1>1, <1>3 DEF Types, WriteOn
<1>5. ISession(r)'
  BY <1>1, <1>3 DEF ISession, Types, WriteOn, Held, Between
<1>6. ASSUME NEW t \in Session \ {r} PROVE ISession(t)'
  <2>1. ISession(t)
    BY DEF IInv
  <2>. QED
    BY <1>1, <1>3, <2>1, MemoryAssumption, Untouched DEF Types, WriteOn
<1>. QED
  BY <1>4, <1>5, <1>6 DEF IInv

LEMMA CallIInv ==
    ASSUME IInv, Call
    PROVE  IInv'
<1>0. PICK r \in Session : running = r
  BY RunningFacts DEF Call
<1>1. /\ running = r /\ Types /\ ISession(r) /\ r \in alive /\ phase = "freed"
      /\ Between(r) /\ running' = r /\ phase' = "called" /\ alive' = alive
      /\ result' = [result EXCEPT ![r] = "none"]
  BY <1>0, RunningFacts DEF Call, ISession
<1>2. block[r].at = "none" /\ in_use[r] = FALSE
  BY <1>1 DEF ISession, Between
<1>3. CASE result[r] = "ok"
  <2> DEFINE kind == IF op[r] = "read" THEN "write" ELSE "read"
  <2>1. /\ op' = [op EXCEPT ![r] = kind] /\ self' = [self EXCEPT ![r] = TRUE]
        /\ Allocate(r)
    BY <1>0, <1>3 DEF Call, StartOp
  <2>2. /\ block' \in [Session -> Block] /\ in_use' \in [Session -> BOOLEAN]
        /\ in_use'[r] = (block'[r].at = "storage")
        /\ block'[r].at # "none"
        /\ block'[r].at = "storage" => block'[r].size <= Capacity
        /\ block'[r].at = "heap" => block'[r].size >= Capacity
        /\ \A t \in Session \ {r} : block'[t] = block[t] /\ in_use'[t] = in_use[t]
    BY <1>1, <1>2, <2>1, AllocateFacts
  <2>3. Types'
    BY <1>1, <2>1, <2>2 DEF Types
  <2>4. ISession(r)'
    BY <1>1, <2>1, <2>2 DEF ISession, Types, Held
  <2>5. ASSUME NEW t \in Session \ {r} PROVE ISession(t)'
    <3>1. ISession(t)
      BY DEF IInv
    <3>. QED
      BY <1>1, <2>1, <2>2, <3>1, Untouched DEF Types
  <2>. QED
    BY <2>3, <2>4, <2>5 DEF IInv
<1>4. CASE result[r] # "ok"
  <2>1. /\ op' = [op EXCEPT ![r] = "none"] /\ self' = [self EXCEPT ![r] = FALSE]
        /\ block' = block /\ in_use' = in_use
    BY <1>0, <1>4 DEF Call
  <2>2. Types'
    BY <1>1, <2>1 DEF Types
  <2>3. ISession(r)'
    BY <1>1, <1>2, <2>1 DEF ISession, Types, Over
  <2>4. ASSUME NEW t \in Session \ {r} PROVE ISession(t)'
    <3>1. ISession(t)
      BY DEF IInv
    <3>. QED
      BY <1>1, <2>1, <3>1, Untouched DEF Types
  <2>. QED
    BY <2>2, <2>3, <2>4 DEF IInv
<1>. QED
  BY <1>3, <1>4

LEMMA ReturnIInv ==
    ASSUME IInv, Return
    PROVE  IInv'
<1>0. PICK r \in Session : running = r
  BY RunningFacts DEF Return
<1>1. /\ running = r /\ Types /\ ISession(r) /\ r \in alive /\ phase = "called"
      /\ running' = Nobody /\ phase' = "idle" /\ r # Nobody
      /\ op' = op /\ block' = block /\ result' = result /\ self' = self
  BY <1>0, MemoryAssumption, RunningFacts DEF Return
<1>2. Over(r) => in_use[r] = FALSE
  BY <1>1 DEF ISession, Over
<1>3. /\ alive' = IF self[r] THEN alive ELSE alive \ {r}
      /\ in_use' = IF self[r] THEN in_use ELSE [in_use EXCEPT ![r] = FALSE]
  BY <1>0 DEF Return
<1>4. Types'
  BY <1>1, <1>3 DEF Types
<1>5. ISession(r)'
  <2>1. CASE Held(r)
    BY <1>1, <1>3, <2>1 DEF ISession, Held
  <2>2. CASE Over(r)
    BY <1>1, <1>2, <1>3, <2>2 DEF ISession, Over, Types
  <2>. QED
    BY <1>1, <2>1, <2>2 DEF ISession
<1>6. ASSUME NEW t \in Session \ {r} PROVE ISession(t)'
  <2>1. ISession(t)
    BY DEF IInv
  <2>2. in_use'[t] = in_use[t] /\ (t \in alive' <=> t \in alive)
    BY <1>1, <1>3 DEF Types
  <2>. QED
    BY <1>1, <2>1, <2>2, MemoryAssumption, Untouched
<1>. QED
  BY <1>4, <1>5, <1>6 DEF IInv

LEMMA NextIInv == IInv /\ [Next]_vars => IInv'
<1> SUFFICES ASSUME IInv, [Next]_vars PROVE IInv'
  OBVIOUS
<1>1. CASE UNCHANGED vars
  BY <1>1 DEF IInv, Types, ISession, Held, Between, Over, vars
<1>2. CASE Next
  BY <1>2, FreeIInv, WriteOnIInv, CallIInv, ReturnIInv, AcceptIInv, CompletesIInv,
     MoveIInv DEF Next
<1>. QED
  BY <1>1, <1>2

LEMMA Invariance == Spec => []IInv
BY InitIInv, NextIInv, PTL DEF Spec
-----------------------------------------------------------------------------
\* handler_memory: in_use_ says whether the storage is lent, and a block in the
\* storage fits, for any sizes.
THEOREM LentCorrect == Spec => []Lent
<1>1. IInv => Lent
  BY DEF IInv, Types, ISession, Lent
<1>. QED
  BY <1>1, Invariance, PTL

\* No session goes away while a block in its memory is in use.
THEOREM StorageOutlives == Spec => []StorageAlive
<1>1. IInv => StorageAlive
  BY DEF IInv, ISession, Over, StorageAlive
<1>. QED
  BY <1>1, Invariance, PTL

\* Blocks smaller than the storage never come from the heap.
THEOREM NeverHeap == Spec => []NoHeap
<1>1. IInv => NoHeap
  BY DEF IInv, ISession, NoHeap
<1>. QED
  BY <1>1, Invariance, PTL

\* Every session waits for an operation or is being served.
THEOREM NothingLeaks == Spec => []NoLeak
<1>1. IInv => NoLeak
  BY DEF IInv, Types, ISession, Held, NoLeak
<1>. QED
  BY <1>1, Invariance, PTL
-----------------------------------------------------------------------------
(* The echo and daytime servers over tcp. *)

Bytes == Seq(Nat)

TcpTypes ==
    /\ program \in Programs /\ up \in BOOLEAN
    /\ client \in [Client -> {"away", "connected", "asked", "done", "failed", "gone"}]
    /\ request \in [Client -> Bytes] /\ upward \in [Client -> Bytes]
    /\ buffer \in [Client -> Bytes] /\ downward \in [Client -> Bytes]
    /\ got \in [Client -> Bytes]
    /\ stage \in [Client -> {"none", "queued", "reset", "reading", "writing", "spinning",
                             "dangling", "closed"}]

\* What the server has sent to c.
Down(c) == got[c] \o downward[c]

\* Before the server takes a connection it sent nothing, before it closed one
\* everything is somewhere between the client and the client, and even then
\* what it sent is the beginning of what it owes.
IConn(c) ==
    /\ client[c] \in {"away", "connected"} => request[c] = <<>>
    /\ client[c] = "away" => stage[c] = "none"
    /\ client[c] = "connected" => program \in Echo
    /\ program \notin Echo => request[c] = <<>> /\ upward[c] = <<>>
    /\ stage[c] \in {"none", "queued", "reset"} =>
          got[c] = <<>> /\ downward[c] = <<>> /\ buffer[c] = <<>> /\ upward[c] = request[c]
    /\ stage[c] = "reading" => buffer[c] = <<>> /\ program \in Echo
    /\ stage[c] = "spinning" => program \in Echo
    /\ stage[c] = "reset" => up = FALSE
    /\ stage[c] = "dangling" => program = "async_daytimesrc"
    /\ stage[c] \in {"reading", "writing"} =>
          Down(c) \o (buffer[c] \o upward[c]) = Owed(c)
    /\ program \in Echo => \E rest \in Bytes : Down(c) \o rest = request[c]
    /\ program \in {"daytimesrv", "aync_daytimesrc"} /\ stage[c] = "closed"
       /\ client[c] # "gone" => Down(c) = Time
    /\ client[c] = "done" /\ program # "async_daytimesrc" => got[c] = Owed(c)

TcpInv == TcpTypes /\ \A c \in Client : IConn(c)

\* A stream is what is taken from its front and the rest.
LEMMA Cut ==
    ASSUME NEW s \in Bytes, NEW k \in 1 .. Len(s)
    PROVE  /\ SubSeq(s, 1, k) \in Bytes /\ Rest(s, k) \in Bytes
           /\ SubSeq(s, 1, k) \o Rest(s, k) = s
           /\ Len(Rest(s, k)) = Len(s) - k
<1>1. /\ \A i \in 1 .. k : s[i] \in Nat
      /\ \A i \in k + 1 .. Len(s) : s[i] \in Nat
      /\ Len(s) \in Nat /\ k \in 0 .. Len(s)
  BY ElementOfSeq, LenProperties DEF Bytes
<1>2. SubSeq(s, 1, k) \o SubSeq(s, k + 1, Len(s)) = SubSeq(s, 1, Len(s))
  BY <1>1, ConcatAdjacentSubSeq DEF Bytes
<1>3. SubSeq(s, 1, k) \in Bytes /\ SubSeq(s, k + 1, Len(s)) \in Bytes
  BY <1>1, SubSeqProperties DEF Bytes
<1>4. Len(SubSeq(s, k + 1, Len(s))) = Len(s) - k
  BY <1>1, SubSeqProperties
<1>. QED
  BY <1>2, <1>3, <1>4, SubSeqFull DEF Bytes, Rest

LEMMA Empty ==
    /\ <<>> \in Bytes /\ Len(<<>>) = 0 /\ <<>> \o <<>> = <<>>
    /\ \A r \in Bytes : r \o <<>> = r /\ <<>> \o r = r /\ Len(r) \in Nat
BY EmptySeq, ConcatEmptySeq, LenProperties DEF Bytes

LEMMA Joins ==
    ASSUME NEW r \in Bytes, NEW s \in Bytes
    PROVE  /\ r \o s \in Bytes /\ Len(r \o s) = Len(r) + Len(s) /\ Len(r) \in Nat
           /\ (r \o s = <<>> => r = <<>> /\ s = <<>>)
           /\ (Len(r) = 0 <=> r = <<>>)
BY ConcatProperties, ConcatEmptySeq, ConcatEqualIffEmpty, EmptySeq,
   LenProperties DEF Bytes

LEMMA Regroup ==
    ASSUME NEW r \in Bytes, NEW s \in Bytes, NEW t \in Bytes
    PROVE  (r \o s) \o t = r \o (s \o t) /\ s \o t \in Bytes /\ r \o s \in Bytes
BY ConcatProperties, ConcatAssociative DEF Bytes

\* A piece t goes from the front of one stream to the end of another.
Passes(r, s, t, u, v) ==
    /\ s \o t \in Bytes /\ r \o s \in Bytes /\ u \o v \in Bytes
    /\ r \o (s \o t) = (r \o s) \o t
    /\ (r \o (s \o t)) \o (u \o v) = (r \o s) \o ((t \o u) \o v)

LEMMA Passed == \A r, s, t, u, v \in Bytes : Passes(r, s, t, u, v)
<1> DEFINE Cat(x, y) == x \o y
<1>1. ASSUME NEW x \in Bytes, NEW y \in Bytes PROVE Cat(x, y) \in Bytes
  BY Regroup
<1>2. ASSUME NEW x \in Bytes, NEW y \in Bytes, NEW z \in Bytes
      PROVE  Cat(Cat(x, y), z) = Cat(x, Cat(y, z))
  BY Regroup
<1> HIDE DEF Cat
<1> SUFFICES ASSUME NEW r \in Bytes, NEW s \in Bytes, NEW t \in Bytes,
                    NEW u \in Bytes, NEW v \in Bytes
             PROVE  Passes(r, s, t, u, v)
  OBVIOUS
<1>3. /\ Cat(s, t) \in Bytes /\ Cat(r, s) \in Bytes /\ Cat(u, v) \in Bytes
      /\ Cat(r, Cat(s, t)) = Cat(Cat(r, s), t)
      /\ Cat(Cat(r, Cat(s, t)), Cat(u, v)) = Cat(Cat(r, s), Cat(Cat(t, u), v))
  BY <1>1, <1>2
<1>. QED
  BY <1>3 DEF Cat, Passes

LEMMA Moved ==
    ASSUME NEW r \in Bytes, NEW s \in Bytes, NEW k \in 1 .. Len(s)
    PROVE  /\ r \o SubSeq(s, 1, k) \in Bytes
           /\ (r \o SubSeq(s, 1, k)) \o Rest(s, k) = r \o s
<1>1. /\ SubSeq(s, 1, k) \in Bytes /\ Rest(s, k) \in Bytes
      /\ SubSeq(s, 1, k) \o Rest(s, k) = s
  BY Cut
<1>2. /\ r \o SubSeq(s, 1, k) \in Bytes
      /\ (r \o SubSeq(s, 1, k)) \o Rest(s, k) = r \o (SubSeq(s, 1, k) \o Rest(s, k))
  BY <1>1, Regroup
<1>. QED
  BY <1>1, <1>2

\* A beginning of a stream that is as long as the stream is all of it.
LEMMA AsLong ==
    ASSUME NEW r \in Bytes, NEW s \in Bytes, NEW t \in Bytes, Len(r) = Len((r \o s) \o t)
    PROVE  r = (r \o s) \o t
<1>1. s \o t \in Bytes /\ (r \o s) \o t = r \o (s \o t)
  BY Regroup
<1>2. Len(r \o (s \o t)) = Len(r) + Len(s \o t) /\ Len(r) \in Nat /\ Len(s \o t) \in Nat
  BY <1>1, Joins
<1>3. Len(s \o t) = 0
  BY <1>1, <1>2
<1>4. s \o t = <<>>
  BY <1>1, <1>3, Joins
<1>. QED
  BY <1>1, <1>4, Empty

LEMMA TcpStarts == TcpInit => TcpInv
<1> SUFFICES ASSUME TcpInit PROVE TcpInv
  OBVIOUS
<1>1. <<>> \in Bytes /\ <<>> \o <<>> = <<>>
  BY Empty
<1>2. TcpTypes
  BY <1>1 DEF TcpInit, TcpTypes
<1>3. ASSUME NEW c \in Client PROVE IConn(c)
  BY <1>1 DEF TcpInit, IConn, Down
<1>. QED
  BY <1>2, <1>3 DEF TcpInv

\* The variables of one connection.
Same(c) ==
    /\ program' = program /\ up' = up
    /\ client'[c] = client[c] /\ request'[c] = request[c]
    /\ upward'[c] = upward[c] /\ buffer'[c] = buffer[c] /\ downward'[c] = downward[c]
    /\ got'[c] = got[c] /\ stage'[c] = stage[c]

LEMMA SameConn == ASSUME NEW c \in Client, IConn(c), Same(c) PROVE IConn(c)'
BY DEF IConn, Same, Down, Owed

\* It is enough to look at the connection that a step is about.
LEMMA OneConn ==
    ASSUME TcpInv, TcpTypes', NEW c \in Client, IConn(c)', \A d \in Client \ {c} : Same(d)
    PROVE  TcpInv'
BY SameConn DEF TcpInv

(* The clients. *)

LEMMA TcpConnect ==
    ASSUME TcpInv, NEW c \in Client, Connect(c)
    PROVE  TcpInv'
<1>1. TcpTypes'
  BY DEF TcpInv, TcpTypes, Connect, streams
<1>2. \A d \in Client \ {c} : Same(d)
  BY DEF TcpInv, TcpTypes, Connect, streams, Same
<1>3. IConn(c)'
  BY Empty DEF TcpInv, TcpTypes, IConn, Connect, streams, Down, Echo
<1>. QED
  BY <1>1, <1>2, <1>3, OneConn

LEMMA TcpAsk ==
    ASSUME TcpInv, NEW c \in Client, Ask(c)
    PROVE  TcpInv'
<1>1. PICK n \in 0 .. MaxRequest :
        /\ request' = [request EXCEPT ![c] = [i \in 1 .. n |-> i]]
        /\ upward' = [upward EXCEPT ![c] = [i \in 1 .. n |-> i]]
  BY DEF Ask
<1> DEFINE new == [i \in 1 .. n |-> i]
<1>2. new \in Bytes
  <2>1. n \in Nat
    BY ServersAssumption
  <2>. QED
    BY <2>1, IsASeq DEF Bytes
<1>3. request'[c] = new /\ upward'[c] = new
  BY <1>1 DEF TcpInv, TcpTypes
<1> HIDE DEF new
<1>4. TcpTypes'
  BY <1>1, <1>2 DEF TcpInv, TcpTypes, Ask, new
<1>5. \A d \in Client \ {c} : Same(d)
  BY <1>1 DEF TcpInv, TcpTypes, Ask, Same
<1>6. /\ program' = program /\ up' = up /\ client'[c] = "asked" /\ buffer'[c] = buffer[c]
      /\ downward'[c] = downward[c] /\ got'[c] = got[c] /\ stage'[c] = stage[c]
      /\ client[c] = "connected" /\ program \in Echo /\ request[c] = <<>>
  BY DEF TcpInv, TcpTypes, IConn, Ask
<1>7. /\ got[c] \in Bytes /\ downward[c] \in Bytes /\ buffer[c] \in Bytes
      /\ upward[c] \in Bytes /\ Down(c) \in Bytes
  BY Joins DEF TcpInv, TcpTypes, Down
<1>8. Down(c) = <<>> /\ Down(c)' = Down(c)
  <2>1. \E rest \in Bytes : Down(c) \o rest = <<>>
    BY <1>6 DEF TcpInv, IConn
  <2>. QED
    BY <1>6, <1>7, <2>1, Joins, Empty DEF Down
<1>9. stage[c] \in {"reading", "writing"} => buffer[c] = <<>> /\ upward[c] = <<>>
  <2> SUFFICES ASSUME stage[c] \in {"reading", "writing"}
               PROVE  buffer[c] = <<>> /\ upward[c] = <<>>
    OBVIOUS
  <2>1. Down(c) \o (buffer[c] \o upward[c]) = <<>>
    BY <1>6 DEF TcpInv, IConn, Owed
  <2>2. buffer[c] \o upward[c] = <<>>
    BY <2>1, <1>7, <1>8, Joins, Empty
  <2>. QED
    BY <2>2, <1>7, Joins, Empty
<1>10. <<>> \o (<<>> \o new) = new /\ <<>> \o new = new
  BY <1>2, Empty
<1>11. IConn(c)'
  BY <1>2, <1>3, <1>6, <1>8, <1>9, <1>10 DEF TcpInv, IConn, Owed, Echo
<1>. QED
  BY <1>4, <1>5, <1>11, OneConn

LEMMA TcpReceive ==
    ASSUME TcpInv, NEW c \in Client, Receive(c)
    PROVE  TcpInv'
<1>1. PICK k \in 1 .. Len(downward[c]) :
        /\ got' = [got EXCEPT ![c] = @ \o SubSeq(downward[c], 1, k)]
        /\ downward' = [downward EXCEPT ![c] = Rest(@, k)]
  BY DEF Receive
<1> DEFINE head == SubSeq(downward[c], 1, k)
           tail == Rest(downward[c], k)
<1>2. got[c] \in Bytes /\ downward[c] \in Bytes
  BY DEF TcpInv, TcpTypes
<1>3. head \in Bytes /\ tail \in Bytes /\ head \o tail = downward[c]
  BY <1>1, <1>2, Cut
<1>4. got'[c] = got[c] \o head /\ downward'[c] = tail
  BY <1>1 DEF TcpInv, TcpTypes
<1>5. got[c] \o head \in Bytes /\ (got[c] \o head) \o tail = got[c] \o downward[c]
  BY <1>1, <1>2, Moved
<1> HIDE DEF head, tail
<1>6. TcpTypes'
  BY <1>1, <1>3, <1>5 DEF TcpInv, TcpTypes, Receive, head, tail
<1>7. \A d \in Client \ {c} : Same(d)
  BY <1>1 DEF TcpInv, TcpTypes, Receive, Same
<1>8. Down(c)' = Down(c)
  BY <1>4, <1>5 DEF Down
<1>9. /\ program' = program /\ up' = up /\ client'[c] = "asked" /\ buffer'[c] = buffer[c]
      /\ upward'[c] = upward[c] /\ request'[c] = request[c] /\ stage'[c] = stage[c]
      /\ client[c] = "asked"
  BY DEF TcpInv, TcpTypes, Receive
<1>10. downward[c] # <<>>
  BY <1>1, <1>2, Empty
<1>11. IConn(c)'
  BY <1>8, <1>9, <1>10 DEF TcpInv, IConn, Owed
<1>. QED
  BY <1>6, <1>7, <1>11, OneConn

LEMMA TcpFinish ==
    ASSUME TcpInv, NEW c \in Client, Finish(c)
    PROVE  TcpInv'
<1>1. TcpTypes'
  BY DEF TcpInv, TcpTypes, Finish, streams
<1>2. \A d \in Client \ {c} : Same(d)
  BY DEF TcpInv, TcpTypes, Finish, streams, Same
<1>3. /\ program' = program /\ up' = up /\ client'[c] = "done" /\ buffer'[c] = buffer[c]
      /\ upward'[c] = upward[c] /\ request'[c] = request[c] /\ stage'[c] = stage[c]
      /\ downward'[c] = downward[c] /\ got'[c] = got[c] /\ client[c] = "asked"
  BY DEF TcpInv, TcpTypes, Finish, streams
<1>4. /\ got[c] \in Bytes /\ downward[c] \in Bytes /\ request[c] \in Bytes
      /\ Down(c) \in Bytes /\ program \in Programs
  BY Joins DEF TcpInv, TcpTypes, Down
<1>5. ASSUME program # "async_daytimesrc" PROVE got[c] = Owed(c)
  <2>1. CASE program \in Echo
    <3>1. Len(got[c]) = Len(request[c])
      BY <2>1 DEF Finish
    <3>2. PICK rest \in Bytes : Down(c) \o rest = request[c]
      BY <2>1 DEF TcpInv, IConn
    <3>3. Len(got[c]) = Len((got[c] \o downward[c]) \o rest)
      BY <3>1, <3>2 DEF Down
    <3>4. got[c] = (got[c] \o downward[c]) \o rest
      BY <3>3, <1>4, AsLong
    <3>. QED
      BY <2>1, <3>2, <3>4 DEF Owed, Down
  <2>2. CASE program \notin Echo
    <3>1. stage[c] = "closed" /\ downward[c] = <<>>
      BY <2>2 DEF Finish
    <3>2. program \in {"daytimesrv", "aync_daytimesrc"}
      BY <1>4, <1>5, <2>2 DEF Programs, Iterative, Threaded, Handlers, Echo
    <3>3. Down(c) = Time
      BY <3>1, <3>2, <1>3 DEF TcpInv, IConn
    <3>. QED
      BY <2>2, <3>1, <3>3, <1>4, Empty DEF Owed, Down
  <2>. QED
    BY <2>1, <2>2
<1>6. IConn(c)'
  BY <1>3, <1>5 DEF TcpInv, IConn, Owed, Down
<1>. QED
  BY <1>1, <1>2, <1>6, OneConn

LEMMA TcpFails ==
    ASSUME TcpInv, NEW c \in Client, Fails(c) \/ Killed(c)
    PROVE  TcpInv'
<1>1. TcpTypes'
  BY DEF TcpInv, TcpTypes, Fails, Killed, streams
<1>2. \A d \in Client \ {c} : Same(d)
  BY DEF TcpInv, TcpTypes, Fails, Killed, streams, Same
<1>3. /\ program' = program /\ up' = up /\ client'[c] \in {"failed", "gone"} /\ buffer'[c] = buffer[c]
      /\ upward'[c] = upward[c] /\ request'[c] = request[c] /\ stage'[c] = stage[c]
      /\ downward'[c] = downward[c] /\ got'[c] = got[c]
      /\ client[c] # "gone"
  BY DEF TcpInv, TcpTypes, Fails, Killed, streams
<1>4. IConn(c)'
  BY <1>3 DEF TcpInv, IConn, Owed, Down
<1>. QED
  BY <1>1, <1>2, <1>4, OneConn

(* The servers. *)

\* The process ends: that does no harm where no string is being written.
LEMMA TcpDies ==
    ASSUME TcpInv, up = TRUE, Dies, UNCHANGED <<program, client>>,
           UNCHANGED streams,
           program \in {"daytimesrv", "aync_daytimesrc"} =>
               \A c \in Client : stage[c] \in {"none", "queued", "reset", "closed"}
    PROVE  TcpInv'
<1>1. TcpTypes'
  BY DEF TcpInv, TcpTypes, Dies, streams
<1>2. ASSUME NEW c \in Client PROVE IConn(c)'
  <2>1. /\ stage[c] # "reset" /\ up' = FALSE
        /\ stage'[c] \in {"none", "reset", "closed"}
        /\ stage[c] = "none" <=> stage'[c] = "none"
        /\ stage'[c] = "reset" => stage[c] = "queued"
        /\ program \in {"daytimesrv", "aync_daytimesrc"} /\ stage'[c] = "closed" =>
               stage[c] = "closed"
    BY DEF TcpInv, TcpTypes, IConn, Dies
  <2>2. /\ program' = program /\ client'[c] = client[c] /\ request'[c] = request[c]
        /\ upward'[c] = upward[c] /\ buffer'[c] = buffer[c] /\ downward'[c] = downward[c]
        /\ got'[c] = got[c]
    BY DEF streams
  <2>. QED
    BY <2>1, <2>2 DEF TcpInv, IConn, Owed, Down
<1>. QED
  BY <1>1, <1>2 DEF TcpInv

LEMMA TcpEnds ==
    ASSUME TcpInv, NEW c \in Client,
           Dangling(c) \/ ReadEnds(c) \/ WriteFails(c)
    PROVE  TcpInv'
<1>1. UNCHANGED <<program, client>> /\ UNCHANGED streams /\ up = TRUE
  BY DEF Dangling, ReadEnds, WriteFails, TcpInv, TcpTypes
<1>2. stage[c] = "reading" \/ stage[c] = "dangling" \/ (stage[c] = "writing" /\ client[c] = "gone")
  BY DEF Dangling, ReadEnds, WriteFails
<1>3. CASE Dies
  <2>1. program = "async_daytimesrc" \/ program \in Threaded
    BY <1>3 DEF TcpInv, TcpTypes, IConn, Dangling, ReadEnds, WriteFails, Dies, End
  <2>. QED
    BY <1>1, <1>3, <2>1, TcpDies DEF Threaded
<1>4. ASSUME NEW s \in {"closed", "spinning"}, up' = up, stage' = [stage EXCEPT ![c] = s],
             s = "spinning" => stage[c] = "reading"
      PROVE  TcpInv'
  <2>1. TcpTypes'
    BY <1>1, <1>4 DEF TcpInv, TcpTypes, streams
  <2>2. \A d \in Client \ {c} : Same(d)
    BY <1>1, <1>4 DEF TcpInv, TcpTypes, streams, Same
  <2>3. /\ stage'[c] = s /\ program' = program /\ client'[c] = client[c]
        /\ request'[c] = request[c] /\ upward'[c] = upward[c] /\ buffer'[c] = buffer[c]
        /\ downward'[c] = downward[c] /\ got'[c] = got[c]
    BY <1>1, <1>4 DEF TcpInv, TcpTypes, streams
  <2>4. IConn(c)'
    BY <1>2, <1>4, <2>3 DEF TcpInv, IConn, Owed, Down, Echo
  <2>. QED
    BY <2>1, <2>2, <2>4, OneConn
<1>. QED
  BY <1>3, <1>4 DEF Dangling, ReadEnds, WriteFails, End

LEMMA TcpAcceptFails == ASSUME TcpInv, AcceptFails PROVE TcpInv'
<1>1. UNCHANGED <<program, client>> /\ UNCHANGED streams /\ up = TRUE /\ Dies
  BY DEF AcceptFails, TcpInv, TcpTypes
<1>2. program \in {"daytimesrv", "aync_daytimesrc"} =>
          \A c \in Client : stage[c] \in {"none", "queued", "reset", "closed"}
  BY DEF TcpInv, TcpTypes, IConn, AcceptFails, InSession, Iterative, Threaded
<1>. QED
  BY <1>1, <1>2, TcpDies

LEMMA TcpStartEcho ==
    ASSUME TcpInv, NEW c \in Client, StartEcho(c)
    PROVE  TcpInv'
<1>1. /\ UNCHANGED <<program, client>> /\ UNCHANGED streams
      /\ up = TRUE /\ stage[c] = "queued" /\ program \in Echo
  BY DEF StartEcho, Accepts, TcpInv, TcpTypes
<1>2. CASE Dies
  BY <1>1, <1>2, TcpDies DEF Echo
<1>3. CASE up' = up /\ stage' = [stage EXCEPT ![c] = "reading"]
  <2>1. TcpTypes'
    BY <1>1, <1>3 DEF TcpInv, TcpTypes, streams
  <2>2. \A d \in Client \ {c} : Same(d)
    BY <1>1, <1>3 DEF TcpInv, TcpTypes, streams, Same
  <2>3. /\ stage'[c] = "reading" /\ program' = program /\ client'[c] = client[c]
        /\ request'[c] = request[c] /\ upward'[c] = request[c] /\ buffer'[c] = <<>>
        /\ downward'[c] = <<>> /\ got'[c] = <<>>
        /\ downward[c] = <<>> /\ got[c] = <<>>
    BY <1>1, <1>3 DEF TcpInv, TcpTypes, IConn, streams
  <2>4. /\ (<<>> \o <<>>) \o (<<>> \o request[c]) = request[c]
        /\ (<<>> \o <<>>) \o request[c] = request[c] /\ request[c] \in Bytes
    BY Empty DEF TcpInv, TcpTypes
  <2>5. IConn(c)'
    BY <1>1, <1>3, <2>3, <2>4 DEF TcpInv, IConn, Owed, Down, Echo
  <2>. QED
    BY <2>1, <2>2, <2>5, OneConn
<1>. QED
  BY <1>2, <1>3 DEF StartEcho

LEMMA TcpStartDaytime ==
    ASSUME TcpInv, NEW c \in Client, StartDaytime(c)
    PROVE  TcpInv'
<1>1. program \notin Echo /\ up = TRUE /\ stage[c] = "queued" /\ Time \in Bytes
  BY ServersAssumption DEF StartDaytime, Accepts, Echo, TcpInv, TcpTypes, Bytes
<1>2. TcpTypes'
  BY <1>1 DEF TcpInv, TcpTypes, StartDaytime
<1>3. \A d \in Client \ {c} : Same(d)
  BY DEF TcpInv, TcpTypes, StartDaytime, Same
<1>4. /\ stage'[c] = "writing" /\ program' = program /\ up' = up /\ client'[c] = client[c]
      /\ request'[c] = <<>> /\ upward'[c] = <<>> /\ buffer'[c] = Time
      /\ downward'[c] = <<>> /\ got'[c] = <<>> /\ got[c] = <<>> /\ request[c] = <<>>
  BY <1>1 DEF TcpInv, TcpTypes, IConn, StartDaytime
<1>5. (<<>> \o <<>>) \o (Time \o <<>>) = Time
  BY <1>1, Empty
<1>6. IConn(c)'
  BY <1>1, <1>4, <1>5 DEF TcpInv, IConn, Owed, Down
<1>. QED
  BY <1>2, <1>3, <1>6, OneConn

LEMMA TcpStartUnheld ==
    ASSUME TcpInv, NEW c \in Client, StartUnheld(c)
    PROVE  TcpInv'
<1>1. /\ program = "async_daytimesrc" /\ program \notin Echo
      /\ up = TRUE /\ stage[c] = "queued" /\ Time \in Bytes
  BY ServersAssumption DEF StartUnheld, Accepts, Echo, TcpInv, TcpTypes, Bytes
<1>2. PICK k \in 0 .. Len(Time) :
        /\ downward' = [downward EXCEPT ![c] = SubSeq(Time, 1, k)]
        /\ stage' = [stage EXCEPT ![c] = IF k \in {0, Len(Time)} THEN "closed" ELSE "dangling"]
  BY DEF StartUnheld
<1>3. SubSeq(Time, 1, k) \in Bytes
  <2>1. k \in Nat /\ Len(Time) \in Nat /\ k <= Len(Time)
    BY <1>1, Empty
  <2>2. \A i \in 1 .. k : Time[i] \in Nat
    BY <1>1, <2>1, ElementOfSeq DEF Bytes
  <2>. QED
    BY <2>1, <2>2, SubSeqProperties DEF Bytes
<1>4. stage'[c] \in {"closed", "dangling"}
  BY <1>2 DEF TcpInv, TcpTypes
<1>5. TcpTypes'
  BY <1>2, <1>3 DEF TcpInv, TcpTypes, StartUnheld
<1>6. \A d \in Client \ {c} : Same(d)
  BY <1>2 DEF TcpInv, TcpTypes, StartUnheld, Same
<1>7. /\ program' = program /\ up' = up /\ client'[c] = client[c] /\ request'[c] = request[c]
      /\ upward'[c] = upward[c]
  BY <1>1 DEF StartUnheld
<1>8. IConn(c)'
  BY <1>1, <1>4, <1>7 DEF TcpInv, IConn
<1>. QED
  BY <1>5, <1>6, <1>8, OneConn

LEMMA TcpRead ==
    ASSUME TcpInv, NEW c \in Client, Read(c)
    PROVE  TcpInv'
<1>1. PICK k \in 1 .. Len(upward[c]) :
        /\ buffer' = [buffer EXCEPT ![c] = SubSeq(upward[c], 1, k)]
        /\ upward' = [upward EXCEPT ![c] = Rest(@, k)]
  BY DEF Read
<1> DEFINE head == SubSeq(upward[c], 1, k)
           tail == Rest(upward[c], k)
<1>2. /\ upward[c] \in Bytes /\ up = TRUE /\ stage[c] = "reading"
      /\ buffer[c] = <<>> /\ program \in Echo
  BY DEF TcpInv, TcpTypes, IConn, Read
<1>3. head \in Bytes /\ tail \in Bytes /\ head \o tail = upward[c]
  BY <1>1, <1>2, Cut
<1>4. buffer'[c] = head /\ upward'[c] = tail
  BY <1>1 DEF TcpInv, TcpTypes
<1> HIDE DEF head, tail
<1>5. TcpTypes'
  BY <1>1, <1>3 DEF TcpInv, TcpTypes, Read, head, tail
<1>6. \A d \in Client \ {c} : Same(d)
  BY <1>1 DEF TcpInv, TcpTypes, Read, Same
<1>7. /\ program' = program /\ up' = up /\ client'[c] = client[c] /\ request'[c] = request[c]
      /\ downward'[c] = downward[c] /\ got'[c] = got[c] /\ stage'[c] = "writing"
  BY DEF TcpInv, TcpTypes, Read
<1>8. head \o tail = buffer[c] \o upward[c]
  BY <1>2, <1>3, Empty
<1>9. IConn(c)'
  BY <1>2, <1>4, <1>7, <1>8 DEF TcpInv, IConn, Owed, Down
<1>. QED
  BY <1>5, <1>6, <1>9, OneConn

LEMMA TcpWrite ==
    ASSUME TcpInv, NEW c \in Client, Write(c)
    PROVE  TcpInv'
<1>1. PICK k \in 1 .. Len(buffer[c]) :
        /\ downward' = [downward EXCEPT ![c] = @ \o SubSeq(buffer[c], 1, k)]
        /\ buffer' = [buffer EXCEPT ![c] = Rest(@, k)]
        /\ stage' = [stage EXCEPT ![c] =
              IF k < Len(buffer[c]) THEN "writing"
              ELSE IF program \in Echo THEN "reading" ELSE "closed"]
  BY DEF Write
<1> DEFINE head == SubSeq(buffer[c], 1, k)
           tail == Rest(buffer[c], k)
<1>2. /\ upward[c] \in Bytes /\ buffer[c] \in Bytes /\ got[c] \in Bytes
      /\ downward[c] \in Bytes /\ up = TRUE /\ stage[c] = "writing"
      /\ program \in Programs
  BY DEF TcpInv, TcpTypes, Write
<1>3. /\ head \in Bytes /\ tail \in Bytes /\ head \o tail = buffer[c]
      /\ Len(tail) = Len(buffer[c]) - k /\ Len(buffer[c]) \in Nat
  BY <1>1, <1>2, Cut, Empty
<1>4. downward'[c] = downward[c] \o head /\ buffer'[c] = tail
  BY <1>1 DEF TcpInv, TcpTypes
<1>5. /\ stage'[c] \in {"writing", "reading", "closed"}
      /\ (stage'[c] \in {"reading", "closed"} => tail = <<>>)
      /\ (stage'[c] = "reading" => program \in Echo)
      /\ (stage'[c] = "closed" => program \notin Echo)
  <2>1. ~(k < Len(buffer[c])) => tail = <<>>
    BY <1>3, Joins
  <2>. QED
    BY <1>1, <2>1 DEF TcpInv, TcpTypes
<1> HIDE DEF head, tail
<1>6. Passes(got[c], downward[c], head, tail, upward[c])
  BY <1>2, <1>3, Passed
<1>7. /\ downward[c] \o head \in Bytes /\ Down(c) \in Bytes /\ tail \o upward[c] \in Bytes
      /\ got[c] \o (downward[c] \o head) = Down(c) \o head
      /\ (got[c] \o (downward[c] \o head)) \o (tail \o upward[c])
           = Down(c) \o (buffer[c] \o upward[c])
  BY <1>3, <1>6 DEF Passes, Down
<1>8. Down(c)' \o (buffer'[c] \o upward[c]) = Owed(c)
  BY <1>2, <1>4, <1>7 DEF TcpInv, IConn, Down, Write
<1>9. TcpTypes'
  BY <1>1, <1>3, <1>5, <1>7 DEF TcpInv, TcpTypes, Write, head, tail
<1>10. \A d \in Client \ {c} : Same(d)
  BY <1>1 DEF TcpInv, TcpTypes, Write, Same
<1>11. /\ program' = program /\ up' = up /\ client'[c] = client[c] /\ request'[c] = request[c]
       /\ upward'[c] = upward[c] /\ got'[c] = got[c]
  BY DEF TcpInv, TcpTypes, Write
<1>12. stage'[c] = "closed" => Down(c)' = Time
  <2> SUFFICES ASSUME stage'[c] = "closed" PROVE Down(c)' = Time
    OBVIOUS
  <2>1. program \notin Echo /\ tail = <<>> /\ upward[c] = <<>> /\ Owed(c) = Time
    BY <1>5 DEF TcpInv, IConn, Owed
  <2>2. Down(c)' \in Bytes
    BY <1>2, <1>3, <1>4, <1>7, <1>11, Joins DEF Down
  <2>. QED
    BY <1>4, <1>8, <2>1, <2>2, Empty
<1>13. IConn(c)'
  BY <1>2, <1>4, <1>5, <1>7, <1>8, <1>11, <1>12 DEF TcpInv, IConn, Owed
<1>. QED
  BY <1>9, <1>10, <1>13, OneConn

LEMMA TcpStep == ASSUME TcpInv, [TcpNext]_tcpVars PROVE TcpInv'
<1>1. CASE UNCHANGED tcpVars
  BY <1>1, SameConn DEF TcpInv, TcpTypes, Same, tcpVars, Programs
<1>2. CASE TcpNext
  BY <1>2, TcpAcceptFails, TcpConnect, TcpAsk, TcpReceive, TcpFinish, TcpFails, TcpStartEcho,
     TcpStartDaytime, TcpStartUnheld, TcpRead, TcpEnds, TcpWrite DEF TcpNext, Serve
<1>. QED
  BY <1>1, <1>2

\* TcpServers.NoByteLost, for every set of clients, every length of a request,
\* every size of the buffer and every string: what is between the client's
\* write and the client's read is, in order, all that the server owes it, and a
\* client that came to its end has got that.
THEOREM NoByteLostCorrect == TcpSpec => []NoByteLost
<1>1. TcpInv => NoByteLost
  <2> SUFFICES ASSUME TcpInv, NEW c \in Client
               PROVE  /\ stage[c] \in {"reading", "writing"} =>
                            ((got[c] \o downward[c]) \o buffer[c]) \o upward[c] = Owed(c)
                      /\ client[c] = "done" /\ program # "async_daytimesrc" => got[c] = Owed(c)
    BY DEF NoByteLost
  <2>1. /\ Down(c) \in Bytes /\ buffer[c] \in Bytes /\ upward[c] \in Bytes
    BY Joins DEF TcpInv, TcpTypes, Down
  <2>2. (Down(c) \o buffer[c]) \o upward[c] = Down(c) \o (buffer[c] \o upward[c])
    BY <2>1, Regroup
  <2>. QED
    BY <2>2 DEF TcpInv, IConn, Down
<1>. QED
  BY <1>1, TcpStarts, TcpStep, PTL DEF TcpSpec
-----------------------------------------------------------------------------
(* The echo and daytime servers over udp. *)

UdpTypes ==
    /\ server \in {"receiving", "sending", "down"}
    /\ peer \in [Peer -> {"away", "waiting", "done", "gone"}]
    /\ port \in [Peer -> Port \cup {None}]
    /\ answer \in [Peer -> Peer \cup {None}]
    /\ copies \in Nat

Sent(x) == x \in Peer /\ peer[x] # "away"

\* Every datagram is the request of a client that sent one or the answer to it,
\* and what the server is about to send is one, too.
Mail ==
    /\ \A d \in net : /\ Sent(d.of)
                      /\ d \in {Request(port[d.of], d.of), Reply(port[d.of], d.of)}
    /\ server = "sending" => Sent(buf) /\ ep = port[buf]

\* A client that sent has a port, and no other that waits has the same one; an
\* answer is one to a client that sent.
Ports ==
    /\ \A x \in Peer : /\ peer[x] # "away" => port[x] \in Port
                       /\ peer[x] = "done" => Sent(answer[x])
    /\ \A x, y \in Peer : peer[x] = "waiting" /\ peer[y] = "waiting" /\ port[x] = port[y]
                            => x = y

\* As long as no datagram was delivered twice, an exchange has one datagram, or
\* the server its answer, or a client.
Once ==
    copies = 0 =>
        /\ \A d, e \in net : d.of = e.of => d = e
        /\ server = "sending" => \A d \in net : d.of # buf
        /\ \A y \in Peer : peer[y] = "done" =>
              /\ \A d \in net : d.of # answer[y]
              /\ server = "sending" => buf # answer[y]

UdpInv == UdpTypes /\ Mail /\ Ports /\ Once /\ OwnReply

LEMMA UdpStarts == UdpInit => UdpInv
BY DEF UdpInit, UdpInv, UdpTypes, Mail, Ports, Once, OwnReply

LEMMA UdpSend ==
    ASSUME UdpInv, NEW c \in Peer, Send(c)
    PROVE  UdpInv'
<1>1. PICK p \in Port : /\ \A d \in Peer : port[d] = p => peer[d] # "waiting"
                        /\ port' = [port EXCEPT ![c] = p]
                        /\ net' = net \cup {Request(p, c)}
  BY DEF Send
<1>2. /\ peer[c] = "away" /\ peer' = [peer EXCEPT ![c] = "waiting"]
      /\ answer' = answer /\ copies' = copies /\ server' = server /\ buf' = buf /\ ep' = ep
  BY DEF Send, serverVars
<1>3. UdpTypes'
  BY <1>1, <1>2 DEF UdpInv, UdpTypes
<1>4. /\ \A x \in Peer : Sent(x) => x # c /\ Sent(x)' /\ port'[x] = port[x]
      /\ Sent(c)' /\ port'[c] = p /\ peer'[c] = "waiting"
      /\ \A x \in Peer \ {c} : port'[x] = port[x] /\ peer'[x] = peer[x]
  BY <1>1, <1>2 DEF UdpInv, UdpTypes, Sent
<1>5. Mail'
  <2>1. ASSUME NEW d \in net'
        PROVE  /\ Sent(d.of)'
               /\ d \in {Request(port'[d.of], d.of), Reply(port'[d.of], d.of)}
    <3>1. CASE d \in net
      BY <3>1, <1>4 DEF UdpInv, Mail, Sent
    <3>2. CASE d = Request(p, c)
      BY <3>2, <1>4 DEF Request
    <3>. QED
      BY <3>1, <3>2, <1>1
  <2>2. server' = "sending" => Sent(buf)' /\ ep' = port'[buf']
    BY <1>2, <1>4 DEF UdpInv, Mail, Sent
  <2>. QED
    BY <2>1, <2>2 DEF Mail, Request, Reply
<1>6. Ports'
  BY <1>1, <1>2, <1>4 DEF UdpInv, Ports, Sent
<1>7. Once'
  <2>1. /\ \A d \in net : d.of # c
        /\ server = "sending" => buf # c
        /\ \A y \in Peer : peer[y] = "done" => answer[y] # c
        /\ Request(p, c).of = c
    BY <1>4 DEF UdpInv, Mail, Ports, Sent, Request
  <2>. QED
    BY <1>1, <1>2, <1>4, <2>1 DEF UdpInv, Once
<1>8. OwnReply'
  BY <1>2, <1>4 DEF UdpInv, Ports, Sent, OwnReply
<1>. QED
  BY <1>3, <1>5, <1>6, <1>7, <1>8 DEF UdpInv

\* The client's argument: an answer to another client's request comes from an
\* earlier client at the same port, which was killed, or which itself took the
\* answer to a client before it.
LEMMA UdpClientReceives ==
    ASSUME UdpInv, NEW c \in Peer, PeerReceives(c)
    PROVE  UdpInv'
<1>1. PICK d \in net : /\ d.to = port[c] /\ Delivered(d)
                       /\ answer' = [answer EXCEPT ![c] = d.of]
  BY DEF PeerReceives
<1>2. /\ peer[c] = "waiting" /\ peer' = [peer EXCEPT ![c] = "done"]
      /\ port' = port /\ server' = server /\ buf' = buf /\ ep' = ep
  BY DEF PeerReceives, serverVars
<1> DEFINE x == d.of
<1>3. x \in Peer /\ Sent(x) /\ port[x] = port[c] /\ port[c] \in Port
  <2>1. Sent(x) /\ d \in {Request(port[x], x), Reply(port[x], x)} /\ port[c] \in Port
    BY <1>2 DEF UdpInv, Mail, Ports
  <2>. QED
    BY <1>1, <2>1, DatagramsAssumption DEF Request, Reply, Sent
<1>4. /\ net' \subseteq net /\ copies' \in Nat /\ (copies' = 0 => copies = 0 /\ net' = net \ {d})
  BY <1>1 DEF Delivered, UdpInv, UdpTypes
<1>5. /\ answer'[c] = x /\ peer'[c] = "done"
      /\ \A y \in Peer \ {c} : answer'[y] = answer[y] /\ peer'[y] = peer[y]
      /\ \A y : Sent(y) => Sent(y)'
  BY <1>1, <1>2, <1>3 DEF UdpInv, UdpTypes, Sent
<1>6. UdpTypes'
  BY <1>1, <1>2, <1>3, <1>4 DEF UdpInv, UdpTypes
<1>7. Mail'
  BY <1>2, <1>4, <1>5 DEF UdpInv, Mail
<1>8. Ports'
  BY <1>2, <1>3, <1>5 DEF UdpInv, Ports
<1>9. Once'
  BY <1>2, <1>4, <1>5 DEF UdpInv, Once
<1>10. ASSUME copies' = 0, x # c
       PROVE  \E y \in Peer \ {c} : port[y] = port[c] /\ peer[y] = "gone"
  <2>1. peer[x] \in {"done", "gone"}
    BY <1>2, <1>3, <1>10 DEF UdpInv, UdpTypes, Ports, Sent
  <2>2. CASE peer[x] = "gone"
    BY <2>2, <1>3, <1>10
  <2>3. CASE peer[x] = "done"
    <3>1. answer[x] # x
      BY <2>3, <1>1, <1>3, <1>4, <1>10 DEF UdpInv, Once
    <3>2. PICK y \in Peer \ {x} : port[y] = port[x] /\ peer[y] = "gone"
      BY <2>3, <3>1, <1>3, <1>4, <1>10 DEF UdpInv, OwnReply
    <3>. QED
      BY <3>2, <1>2, <1>3
  <2>. QED
    BY <2>1, <2>2, <2>3
<1>11. OwnReply'
  <2> SUFFICES ASSUME NEW y \in Peer, peer'[y] = "done"
               PROVE  /\ port[answer'[y]] = port[y]
                      /\ \/ answer'[y] = y
                         \/ copies' > 0
                         \/ \E z \in Peer \ {y} : port[z] = port[y] /\ peer'[z] = "gone"
    BY <1>2 DEF OwnReply
  <2>1. CASE y = c
    BY <2>1, <1>2, <1>3, <1>4, <1>5, <1>10
  <2>2. CASE y # c
    <3>1. copies > 0 => copies' > 0
      BY <1>4 DEF UdpInv, UdpTypes
    <3>2. /\ port[answer[y]] = port[y]
          /\ \/ answer[y] = y
             \/ copies > 0
             \/ \E z \in Peer \ {y} : port[z] = port[y] /\ peer[z] = "gone"
      BY <2>2, <1>5 DEF UdpInv, OwnReply
    <3>. QED
      BY <2>2, <3>1, <3>2, <1>2, <1>5
  <2>. QED
    BY <2>1, <2>2
<1>. QED
  BY <1>6, <1>7, <1>8, <1>9, <1>11 DEF UdpInv

LEMMA UdpKilled ==
    ASSUME UdpInv, NEW c \in Peer, PeerKilled(c)
    PROVE  UdpInv'
<1>1. /\ peer[c] = "waiting" /\ peer' = [peer EXCEPT ![c] = "gone"]
      /\ UNCHANGED <<port, answer, net, copies, server, buf, ep>>
  BY DEF PeerKilled, serverVars
<1>2. \A y : Sent(y) => Sent(y)'
  BY <1>1 DEF UdpInv, UdpTypes, Sent
<1>3. UdpTypes' /\ Mail' /\ Ports' /\ Once'
  BY <1>1, <1>2 DEF UdpInv, UdpTypes, Mail, Ports, Once
<1>4. OwnReply'
  BY <1>1 DEF UdpInv, UdpTypes, OwnReply
<1>. QED
  BY <1>3, <1>4 DEF UdpInv

LEMMA UdpServerReceives == ASSUME UdpInv, ServerReceives PROVE UdpInv'
<1>1. PICK d \in net : d.to = "server" /\ Delivered(d) /\ buf' = d.of /\ ep' = d.from
  BY DEF ServerReceives
<1>2. server = "receiving" /\ server' = "sending" /\ UNCHANGED <<peer, port, answer>>
  BY DEF ServerReceives, peerVars
<1>3. /\ net' \subseteq net /\ copies' \in Nat /\ (copies' = 0 => copies = 0 /\ net' = net \ {d})
      /\ (copies > 0 => copies' > 0)
  BY <1>1 DEF Delivered, UdpInv, UdpTypes
<1>4. Sent(d.of) /\ d.from = port[d.of]
  <2>1. /\ Sent(d.of) /\ port[d.of] \in Port
        /\ d \in {Request(port[d.of], d.of), Reply(port[d.of], d.of)}
    BY DEF UdpInv, Mail, Ports, Sent
  <2>. QED
    BY <1>1, <2>1, DatagramsAssumption DEF Request, Reply
<1>5. UdpTypes' /\ Mail' /\ Ports'
  BY <1>1, <1>2, <1>3, <1>4 DEF UdpInv, UdpTypes, Mail, Ports, Sent
<1>6. Once'
  BY <1>1, <1>2, <1>3 DEF UdpInv, Once
<1>7. OwnReply'
  BY <1>2, <1>3 DEF UdpInv, OwnReply
<1>. QED
  BY <1>5, <1>6, <1>7 DEF UdpInv

LEMMA UdpServerSends == ASSUME UdpInv, ServerSends PROVE UdpInv'
<1>1. /\ server = "sending" /\ server' = "receiving" /\ net' = net \cup {Reply(ep, buf)}
      /\ UNCHANGED <<peer, port, answer, copies>>
  BY DEF ServerSends, peerVars
<1>2. Sent(buf) /\ Reply(ep, buf) = Reply(port[buf], buf) /\ Reply(ep, buf).of = buf
  BY <1>1 DEF UdpInv, Mail, Reply
<1>3. Mail'
  <2>1. ASSUME NEW d \in net'
        PROVE  Sent(d.of) /\ d \in {Request(port[d.of], d.of), Reply(port[d.of], d.of)}
    BY <1>1, <1>2 DEF UdpInv, Mail
  <2>. QED
    BY <1>1, <2>1 DEF Mail, Sent, Request, Reply
<1>4. UdpTypes' /\ Ports' /\ OwnReply'
  BY <1>1 DEF UdpInv, UdpTypes, Ports, Sent, OwnReply
<1>5. Once'
  BY <1>1, <1>2 DEF UdpInv, Once
<1>. QED
  BY <1>3, <1>4, <1>5 DEF UdpInv

LEMMA UdpFewer ==
    ASSUME UdpInv, ReceiveFails \/ SendFails \/ (\E d \in net : Lose(d))
    PROVE  UdpInv'
<1>1. /\ net' \subseteq net /\ UNCHANGED <<peer, port, answer, copies>>
      /\ server' \in {"receiving", "sending", "down"}
      /\ server' = "sending" => server = "sending" /\ buf' = buf /\ ep' = ep
  BY DEF UdpInv, UdpTypes, ReceiveFails, SendFails, Lose, peerVars, serverVars
<1>2. UdpTypes' /\ Mail' /\ Ports' /\ Once'
  BY <1>1 DEF UdpInv, UdpTypes, Mail, Ports, Once, Sent
<1>3. OwnReply'
  BY <1>1 DEF UdpInv, OwnReply
<1>. QED
  BY <1>2, <1>3 DEF UdpInv

LEMMA UdpStep == ASSUME UdpInv, [UdpNext]_udpVars PROVE UdpInv'
<1>1. CASE UNCHANGED udpVars
  BY <1>1 DEF UdpInv, UdpTypes, Mail, Ports, Once, Sent, OwnReply, udpVars
<1>2. CASE UdpNext
  BY <1>2, UdpSend, UdpClientReceives, UdpKilled, UdpServerReceives, UdpServerSends, UdpFewer
     DEF UdpNext
<1>. QED
  BY <1>1, <1>2

\* Datagrams.OwnReply, for every set of clients, every set of ports none of
\* which is the server's, and every bound on the datagrams that come twice: the
\* answer a client takes is its own unless a datagram came twice or a client
\* that was at its port before was killed.
THEOREM OwnReplyCorrect == UdpSpec => []OwnReply
<1>1. UdpInv => OwnReply
  BY DEF UdpInv
<1>. QED
  BY <1>1, UdpStarts, UdpStep, PTL DEF UdpSpec
=============================================================================
