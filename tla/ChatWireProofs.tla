--------------------------- MODULE ChatWireProofs ---------------------------
(***************************************************************************)
(* Theorems about ChatWire, for any number of lines and messages, any      *)
(* length of headers and bodies that a header has room for, and any bytes. *)
(***************************************************************************)
EXTENDS ChatWire, SequenceTheorems, Induction, TLAPS

-----------------------------------------------------------------------------
(* The client: what is typed is sent in order. *)

\* What may be posted.
Posts == {"write", "close"} \X Nat

\* The values of the variables that lines pass through.
LinesTyped ==
    /\ main \in {"input", "joining", "done"}
    /\ typed \in Seq(Nat) /\ sent \in Seq(Nat) /\ write_msgs \in Seq(Nat)
    /\ posted \in Seq(Posts)
    /\ writing \in [started : Nat, ready : Nat]

\* What is posted: lines, and behind them close() once the input has ended.
CloseLast ==
    /\ main # "input" => posted # <<>>
    /\ \A i \in 1 .. Len(posted) :
          (posted[i][1] = "close") <=> (main # "input" /\ i = Len(posted))

\* At most one write is under way, and what it writes is in the queue.
OneWrite ==
    /\ writing.started + writing.ready <= 1
    /\ writing.started + writing.ready > 0 => write_msgs # <<>>

ClientIInv == LinesTyped /\ CloseLast /\ OneWrite

\* Taking the head of a queue and putting it behind another keeps the order.
LEMMA MoveHead ==
    ASSUME NEW s \in Seq(Nat), NEW q \in Seq(Nat), q # <<>>
    PROVE  Append(s, Head(q)) \o Tail(q) = s \o q
<1>1. Append(s, Head(q)) = s \o <<Head(q)>>
  OBVIOUS
<1>2. Tail(q) \in Seq(Nat) /\ <<Head(q)>> \in Seq(Nat) /\ q = <<Head(q)>> \o Tail(q)
  OBVIOUS
<1> QED
  BY <1>1, <1>2, ConcatAssociative

\* What posting and running a handler does to posted, entry by entry.
LEMMA Post ==
    ASSUME LinesTyped, NEW what \in {"write", "close"}, NEW n \in Nat,
           posted' = Append(posted, <<what, n>>)
    PROVE  /\ posted' \in Seq(Posts) /\ Len(posted') = Len(posted) + 1
           /\ \A i \in 1 .. Len(posted) : posted'[i] = posted[i]
           /\ posted'[Len(posted) + 1][1] = what
           /\ posted'[Len(posted) + 1][2] = n
<1>1. <<what, n>> \in Posts /\ posted \in Seq(Posts)
  BY DEF Posts, LinesTyped
<1>2. posted'[Len(posted) + 1] = <<what, n>>
  BY <1>1, AppendProperties
<1> QED
  BY <1>1, <1>2, AppendProperties

LEMMA RunFirst ==
    ASSUME LinesTyped, posted # <<>>, posted' = Tail(posted)
    PROVE  /\ Len(posted) \in Nat \ {0} /\ Head(posted) = posted[1]
           /\ posted[1][1] \in {"write", "close"} /\ posted[1][2] \in Nat
           /\ posted' \in Seq(Posts) /\ Len(posted') = Len(posted) - 1
           /\ \A i \in 1 .. Len(posted') : posted'[i] = posted[i + 1]
<1>1. posted \in Seq(Posts)
  BY DEF LinesTyped
<1>2. Head(posted) \in Posts /\ Head(posted) = posted[1] /\ Len(posted) \in Nat \ {0}
  BY <1>1
<1>3. posted[1][1] \in {"write", "close"} /\ posted[1][2] \in Nat
  BY <1>2 DEF Posts
<1> QED
  BY <1>1, <1>2, <1>3, HeadTailProperties

LEMMA TailOfOne ==
    ASSUME NEW S, NEW s \in Seq(S), Len(s) = 1
    PROVE  Tail(s) = <<>>
<1>1. s # <<>>
  OBVIOUS
<1>2. Len(Tail(s)) = 0 /\ Tail(s) \in Seq(S)
  BY <1>1, HeadTailProperties
<1> QED
  BY <1>2, EmptySeq

\* Adding behind a sequence, and behind one that ends with it.
LEMMA AppendBehind ==
    ASSUME NEW s \in Seq(Nat), NEW t \in Seq(Nat), NEW n \in Nat
    PROVE  Append(s \o t, n) = s \o Append(t, n)
<1>1. /\ s \o t \in Seq(Nat) /\ <<n>> \in Seq(Nat)
      /\ Append(s \o t, n) = (s \o t) \o <<n>>
      /\ Append(t, n) = t \o <<n>>
  BY AppendIsConcat, ConcatProperties
<1> QED
  BY <1>1, ConcatAssociative

\* close() posted again is all that is posted.
LEMMA CloseAgain ==
    ASSUME LinesTyped, Len(posted) = 1, posted' = Append(Tail(posted), <<"close", 0>>)
    PROVE  /\ posted' \in Seq(Posts) /\ posted' # <<>> /\ Len(posted') = 1
           /\ posted'[1][1] = "close"
<1>1. Tail(posted) = <<>>
  BY TailOfOne DEF LinesTyped
<1>2. <<"close", 0>> \in Posts /\ <<>> \in Seq(Posts)
  BY DEF Posts
<1>3. posted' = Append(<<>>, <<"close", 0>>) /\ Len(<<>>) = 0
  BY <1>1, EmptySeq
<1>4. \A s \in Seq(Posts) : \A e \in Posts :
         /\ Append(s, e) \in Seq(Posts) /\ Append(s, e) # <<>>
         /\ Len(Append(s, e)) = Len(s) + 1 /\ Append(s, e)[Len(s) + 1] = e
  BY AppendProperties
<1>5. Len(posted') = 1 /\ posted'[1] = <<"close", 0>>
  BY <1>2, <1>3, <1>4
<1>6. posted'[1][1] = "close"
  BY <1>5
<1>7. posted' \in Seq(Posts) /\ posted' # <<>>
  BY <1>2, <1>3, <1>4
<1> QED
  BY <1>5, <1>6, <1>7

LEMMA PostedTyped == ClientIInv => PostedLines \in Seq(Nat)
<1> SUFFICES ASSUME ClientIInv PROVE PostedLines \in Seq(Nat)
  OBVIOUS
<1>1. Len(posted) - (IF main = "input" THEN 0 ELSE 1) \in Nat
  BY DEF ClientIInv, LinesTyped, CloseLast
<1>2. \A i \in 1 .. Len(posted) : posted[i] \in Posts
  BY ElementOfSeq DEF ClientIInv, LinesTyped
<1>3. \A i \in 1 .. Len(posted) - (IF main = "input" THEN 0 ELSE 1) :
         i \in 1 .. Len(posted) /\ posted[i][2] \in Nat
  <2>1. Len(posted) \in Nat
    BY DEF ClientIInv, LinesTyped
  <2>2. \A i \in 1 .. Len(posted) : posted[i][2] \in Nat
    BY <1>2 DEF Posts
  <2> QED
    BY <1>1, <2>1, <2>2
<1> QED
  BY <1>1, <1>3 DEF PostedLines

LEMMA ClientInit == Init => ClientIInv /\ LinesInOrder
BY DEF Init, ClientIInv, LinesTyped, CloseLast, OneWrite, LinesInOrder, PostedLines

LEMMA ClientNext == ClientIInv /\ [Next]_vars => ClientIInv'
<1> SUFFICES ASSUME ClientIInv, [Next]_vars PROVE ClientIInv'
  OBVIOUS
<1> USE DEF ClientIInv
<1>0. Len(posted) \in Nat /\ (posted = <<>> <=> Len(posted) = 0)
  BY DEF LinesTyped
<1>1. CASE TypeLine
  <2>1. Len(typed) + 1 \in Nat /\ posted' = Append(posted, <<"write", Len(typed) + 1>>)
    BY <1>1 DEF TypeLine, LinesTyped
  <2>2. /\ posted' \in Seq(Posts) /\ Len(posted') = Len(posted) + 1
        /\ \A i \in 1 .. Len(posted) : posted'[i] = posted[i]
        /\ posted'[Len(posted) + 1][1] = "write"
    BY <2>1, Post
  <2>3. main' = main /\ main = "input"
    BY <1>1 DEF TypeLine
  <2>4. CloseLast'
    BY <1>0, <2>2, <2>3 DEF CloseLast
  <2> QED
    BY <1>1, <2>1, <2>2, <2>4 DEF TypeLine, socket, LinesTyped, OneWrite
<1>2. CASE EndInput
  <2>1. posted' = Append(posted, <<"close", 0>>)
    BY <1>2 DEF EndInput
  <2>2. /\ posted' \in Seq(Posts) /\ Len(posted') = Len(posted) + 1
        /\ \A i \in 1 .. Len(posted) : posted'[i] = posted[i]
        /\ posted'[Len(posted) + 1][1] = "close"
    BY <2>1, Post
  <2>3. main' = "joining" /\ main = "input"
    BY <1>2 DEF EndInput
  <2>4. posted' # <<>>
    BY <2>2, <1>0
  <2>5. CloseLast'
    BY <1>0, <2>2, <2>3, <2>4 DEF CloseLast
  <2> QED
    BY <1>2, <2>2, <2>5 DEF EndInput, socket, LinesTyped, OneWrite
<1>3. CASE Joined
  BY <1>3 DEF Joined, socket, LinesTyped, CloseLast, OneWrite
<1>4. CASE ConnectReady \/ ReadReady \/ Connected \/ ReadHeader \/ ReadBody \/ ReadFails
  BY <1>4 DEF ConnectReady, ReadReady, Connected, ReadHeader, ReadBody, ReadFails,
     LinesTyped, CloseLast, OneWrite
<1>5. CASE WriteReady
  BY <1>5 DEF WriteReady, LinesTyped, CloseLast, OneWrite
<1>6. CASE RunWrite
  <2>1. /\ posted # <<>> /\ posted' = Tail(posted) /\ Head(posted)[1] = "write"
        /\ main' = main /\ typed' = typed /\ sent' = sent
        /\ write_msgs' = Append(write_msgs, Head(posted)[2])
        /\ writing' = [writing EXCEPT !.started = IF write_msgs = <<>> THEN @ + 1 ELSE @]
    BY <1>6 DEF RunWrite
  <2>2. /\ Len(posted) \in Nat \ {0} /\ Head(posted) = posted[1]
        /\ posted[1][2] \in Nat
        /\ posted' \in Seq(Posts) /\ Len(posted') = Len(posted) - 1
        /\ \A i \in 1 .. Len(posted') : posted'[i] = posted[i + 1]
    BY <2>1, RunFirst
  <2>3. main # "input" => Len(posted) # 1
    BY <2>1, <2>2 DEF CloseLast
  <2>4. Len(posted) # 1 => posted' # <<>>
    BY <2>2
  <2>5. CloseLast'
    <3>1. main' # "input" => posted' # <<>>
      BY <2>1, <2>3, <2>4
    <3>2. ASSUME NEW i \in 1 .. Len(posted')
          PROVE  (posted'[i][1] = "close") <=> (main' # "input" /\ i = Len(posted'))
      <4>1. i + 1 \in 1 .. Len(posted) /\ (i = Len(posted') <=> i + 1 = Len(posted))
        BY <2>2
      <4>2. posted'[i] = posted[i + 1]
        BY <2>2
      <4> QED
        BY <2>1, <4>1, <4>2 DEF CloseLast
    <3> QED
      BY <3>1, <3>2 DEF CloseLast
  <2>6. write_msgs' \in Seq(Nat) /\ write_msgs' # <<>>
    BY <2>1, <2>2 DEF LinesTyped
  <2>7. OneWrite'
    BY <2>1, <2>6 DEF OneWrite, LinesTyped
  <2>8. writing' \in [started : Nat, ready : Nat]
    <3>1. writing.started \in Nat /\ writing \in [started : Nat, ready : Nat]
      BY DEF LinesTyped
    <3>2. (IF write_msgs = <<>> THEN writing.started + 1 ELSE writing.started) \in Nat
      BY <3>1
    <3> QED
      BY <2>1, <3>1, <3>2
  <2>9. LinesTyped'
    BY <2>1, <2>2, <2>6, <2>8 DEF LinesTyped
  <2> QED
    BY <2>5, <2>7, <2>9
<1>7. CASE RunClose
  <2>1. /\ posted # <<>> /\ Head(posted)[1] = "close"
        /\ posted' = Append(Tail(posted), <<"close", 0>>)
        /\ main' = main /\ typed' = typed /\ sent' = sent
        /\ write_msgs' = write_msgs /\ writing' = writing
    BY <1>7 DEF RunClose
  <2>2. Head(posted) = posted[1] /\ 1 \in 1 .. Len(posted)
    BY <1>0, <2>1 DEF LinesTyped
  <2>3. Len(posted) = 1 /\ main # "input"
    BY <2>1, <2>2 DEF CloseLast
  <2>4. /\ posted' \in Seq(Posts) /\ posted' # <<>> /\ Len(posted') = 1
        /\ posted'[1][1] = "close"
    BY <2>1, <2>3, CloseAgain
  <2>6. CloseLast'
    <3>1. \A i \in 1 .. Len(posted') : i = 1 /\ posted'[i][1] = "close"
      BY <2>4
    <3> QED
      BY <2>1, <2>3, <2>4, <3>1 DEF CloseLast
  <2>7. LinesTyped' /\ OneWrite'
    BY <2>1, <2>4 DEF LinesTyped, OneWrite
  <2> QED
    BY <2>6, <2>7
<1>8. CASE Written
  <2>1. /\ writing.ready > 0 /\ write_msgs' = Tail(write_msgs)
        /\ sent' = Append(sent, Head(write_msgs))
        /\ writing' = [started |-> writing.started + (IF Len(write_msgs) > 1 THEN 1 ELSE 0),
                       ready |-> writing.ready - 1]
        /\ main' = main /\ typed' = typed /\ posted' = posted
    BY <1>8 DEF Written
  <2>2. write_msgs # <<>> /\ writing.started = 0 /\ writing.ready = 1
    BY <2>1 DEF OneWrite, LinesTyped
  <2>3. /\ Head(write_msgs) \in Nat /\ write_msgs' \in Seq(Nat)
        /\ Len(write_msgs') = Len(write_msgs) - 1
    BY <2>1, <2>2, HeadTailProperties DEF LinesTyped
  <2>4. sent' \in Seq(Nat)
    BY <2>1, <2>3 DEF LinesTyped
  <2>5. writing' = [started |-> IF Len(write_msgs) > 1 THEN 1 ELSE 0, ready |-> 0]
    BY <2>1, <2>2
  <2>6. Len(write_msgs) > 1 => write_msgs' # <<>>
    BY <2>3
  <2>7. OneWrite'
    BY <2>5, <2>6 DEF OneWrite
  <2>8. LinesTyped' /\ CloseLast'
    BY <2>1, <2>3, <2>4, <2>5 DEF LinesTyped, CloseLast
  <2> QED
    BY <2>7, <2>8
<1>9. CASE WriteFails
  <2>1. /\ writing.started > 0 /\ writing' = [writing EXCEPT !.started = @ - 1]
        /\ write_msgs' = write_msgs /\ sent' = sent
        /\ main' = main /\ typed' = typed /\ posted' = posted
    BY <1>9 DEF WriteFails
  <2>2. /\ writing'.started = writing.started - 1 /\ writing'.ready = writing.ready
        /\ writing' \in [started : Nat, ready : Nat]
    <3>1. /\ writing.started \in Nat /\ writing.ready \in Nat
          /\ writing \in [started : Nat, ready : Nat]
      BY DEF LinesTyped
    <3>2. writing.started - 1 \in Nat
      BY <2>1, <3>1
    <3> QED
      BY <2>1, <3>1, <3>2
  <2>3. LinesTyped' /\ CloseLast'
    BY <2>1, <2>2 DEF LinesTyped, CloseLast
  <2>4. OneWrite'
    BY <2>1, <2>2 DEF OneWrite, LinesTyped
  <2> QED
    BY <2>3, <2>4
<1>10. CASE RunReturns
  BY <1>10 DEF RunReturns, socket, LinesTyped, CloseLast, OneWrite
<1>11. CASE UNCHANGED vars
  BY <1>11 DEF vars, LinesTyped, CloseLast, OneWrite
<1> QED
  BY <1>1, <1>2, <1>3, <1>4, <1>5, <1>6, <1>7, <1>8, <1>9, <1>10, <1>11 DEF Next, Handler

LEMMA LinesNext == ClientIInv /\ ClientIInv' /\ LinesInOrder /\ [Next]_vars => LinesInOrder'
<1> SUFFICES ASSUME ClientIInv, ClientIInv', LinesInOrder, [Next]_vars PROVE LinesInOrder'
  OBVIOUS
<1>0. /\ PostedLines \in Seq(Nat) /\ sent \in Seq(Nat) /\ write_msgs \in Seq(Nat)
      /\ typed = (sent \o write_msgs) \o PostedLines
  BY PostedTyped DEF ClientIInv, LinesTyped, LinesInOrder
<1>1. CASE TypeLine
  <2>0. /\ Len(typed) + 1 \in Nat /\ main = "input" /\ main' = main
        /\ posted' = Append(posted, <<"write", Len(typed) + 1>>)
    BY <1>1 DEF TypeLine, ClientIInv, LinesTyped
  <2>a. /\ Len(posted') = Len(posted) + 1 /\ Len(posted) \in Nat
        /\ \A i \in 1 .. Len(posted) : posted'[i] = posted[i]
        /\ posted'[Len(posted) + 1][2] = Len(typed) + 1
    BY <2>0, Post DEF ClientIInv, LinesTyped
  <2>b. PostedLines' = [i \in 1 .. Len(posted) + 1 |-> posted'[i][2]]
        /\ PostedLines = [i \in 1 .. Len(posted) |-> posted[i][2]]
    BY <2>0, <2>a DEF PostedLines
  <2>c. Len(PostedLines') = Len(posted) + 1 /\ PostedLines' \in Seq(Nat)
        /\ Len(PostedLines) = Len(posted)
    BY <2>a, <2>b, PostedTyped DEF ClientIInv
  <2>1. PostedLines' = Append(PostedLines, Len(typed) + 1)
    BY <2>0, <2>a, <2>b, <2>c, <1>0, AppendProperties, SeqEqual
  <2>2. typed' = Append(typed, Len(typed) + 1) /\ sent' = sent /\ write_msgs' = write_msgs
    BY <1>1 DEF TypeLine, socket
  <2>4. Len(typed) + 1 \in Nat /\ sent \o write_msgs \in Seq(Nat)
    BY <1>0 DEF ClientIInv, LinesTyped
  <2>5. typed' = (sent \o write_msgs) \o PostedLines'
    BY <1>0, <2>1, <2>2, <2>4, AppendBehind
  <2> QED
    BY <2>2, <2>5 DEF LinesInOrder
<1>2. CASE EndInput
  <2>a. /\ main = "input" /\ main' = "joining" /\ Len(posted) \in Nat
        /\ posted' = Append(posted, <<"close", 0>>)
    BY <1>2 DEF EndInput, ClientIInv, LinesTyped
  <2>b. /\ Len(posted') = Len(posted) + 1
        /\ \A i \in 1 .. Len(posted) : posted'[i] = posted[i]
    BY <2>a, Post DEF ClientIInv, LinesTyped
  <2>1. PostedLines' = PostedLines
    BY <2>a, <2>b DEF PostedLines
  <2> QED
    BY <1>2, <2>1, <1>0 DEF EndInput, socket, LinesInOrder
<1>3. CASE Joined
  BY <1>3 DEF Joined, socket, LinesInOrder, PostedLines
<1>4. CASE ConnectReady \/ ReadReady \/ WriteReady \/ Connected \/ ReadHeader \/ ReadBody
           \/ ReadFails \/ WriteFails \/ RunReturns \/ UNCHANGED vars
  BY <1>4 DEF ConnectReady, ReadReady, WriteReady, Connected, ReadHeader, ReadBody,
     ReadFails, WriteFails, RunReturns, vars, socket, LinesInOrder, PostedLines
<1>5. CASE RunWrite
  <2>1. /\ posted # <<>> /\ posted' = Tail(posted) /\ main' = main
        /\ typed' = typed /\ sent' = sent
        /\ write_msgs' = Append(write_msgs, Head(posted)[2])
        /\ Head(posted)[1] = "write"
    BY <1>5 DEF RunWrite
  <2>a. /\ Len(posted) \in Nat \ {0} /\ Head(posted) = posted[1]
        /\ Len(posted') = Len(posted) - 1
        /\ \A i \in 1 .. Len(posted') : posted'[i] = posted[i + 1]
    BY <2>1, RunFirst DEF ClientIInv, LinesTyped
  <2>b. main # "input" => Len(posted) # 1
    <3>1. 1 \in 1 .. Len(posted)
      BY <2>a
    <3>2. (posted[1][1] = "close") <=> (main # "input" /\ 1 = Len(posted))
      BY <3>1 DEF ClientIInv, CloseLast
    <3> QED
      BY <2>1, <2>a, <3>2
  <2>c. Len(PostedLines) = Len(posted) - (IF main = "input" THEN 0 ELSE 1)
        /\ Len(PostedLines) > 0 /\ PostedLines[1] = posted[1][2]
    BY <2>a, <2>b DEF PostedLines
  <2>2. PostedLines # <<>> /\ Head(PostedLines) = Head(posted)[2]
    BY <1>0, <2>a, <2>c
  <2>d. Len(Tail(PostedLines)) = Len(PostedLines) - 1 /\ Tail(PostedLines) \in Seq(Nat)
        /\ \A i \in 1 .. Len(PostedLines) - 1 : Tail(PostedLines)[i] = PostedLines[i + 1]
    BY <1>0, <2>2, HeadTailProperties
  <2>e. PostedLines' \in Seq(Nat) /\ Len(PostedLines') = Len(PostedLines) - 1
    BY <2>1, <2>a, <2>c, PostedTyped DEF PostedLines
  <2>f. \A i \in 1 .. Len(PostedLines) - 1 : PostedLines'[i] = PostedLines[i + 1]
    BY <2>1, <2>a, <2>c DEF PostedLines
  <2>3. PostedLines' = Tail(PostedLines)
    BY <2>d, <2>e, <2>f, SeqEqual
  <2>4. sent \o write_msgs \in Seq(Nat) /\ Head(PostedLines) \in Nat
    BY <1>0, <2>2, ConcatProperties, HeadTailProperties
  <2>5. Append(sent \o write_msgs, Head(PostedLines)) \o Tail(PostedLines) = typed
    BY <1>0, <2>2, <2>4, MoveHead
  <2>6. Append(sent \o write_msgs, Head(PostedLines)) = sent \o Append(write_msgs, Head(PostedLines))
    BY <1>0, <2>4, AppendBehind
  <2> QED
    BY <2>1, <2>2, <2>3, <2>5, <2>6 DEF LinesInOrder
<1>6. CASE RunClose
  <2>1. posted # <<>> /\ Head(posted)[1] = "close" /\ Head(posted) = posted[1]
    BY <1>6 DEF RunClose, ClientIInv, LinesTyped
  <2>a. Len(posted) \in Nat /\ Len(posted) # 0
    BY <2>1 DEF ClientIInv, LinesTyped
  <2>b. Len(posted) = 1 /\ main # "input"
    <3>1. 1 \in 1 .. Len(posted)
      BY <2>a
    <3> QED
      BY <2>1, <3>1 DEF ClientIInv, CloseLast
  <2>c. posted' = Append(Tail(posted), <<"close", 0>>) /\ main' = main
    BY <1>6 DEF RunClose
  <2>d. Len(posted') = 1
    BY <2>b, <2>c, CloseAgain DEF ClientIInv
  <2>e. /\ PostedLines' = [i \in 1 .. 0 |-> posted'[i][2]]
        /\ PostedLines = [i \in 1 .. 0 |-> posted[i][2]]
    <3>1. /\ Len(posted) - (IF main = "input" THEN 0 ELSE 1) = 0
          /\ Len(posted') - (IF main' = "input" THEN 0 ELSE 1) = 0
      BY <2>b, <2>c, <2>d
    <3> QED
      BY <3>1, Zenon DEF PostedLines
  <2>f. \A i \in 1 .. 0 : posted'[i][2] = posted[i][2]
    OBVIOUS
  <2>2. PostedLines' = PostedLines
    BY <2>e, <2>f
  <2> QED
    BY <1>6, <2>2 DEF RunClose, LinesInOrder
<1>7. CASE Written
  <2>1. /\ write_msgs # <<>> /\ sent' = Append(sent, Head(write_msgs))
        /\ write_msgs' = Tail(write_msgs) /\ typed' = typed
        /\ posted' = posted /\ main' = main
    BY <1>7 DEF Written, ClientIInv, OneWrite, LinesTyped
  <2>2. sent' \o write_msgs' = sent \o write_msgs
    BY <2>1, <1>0, MoveHead
  <2> QED
    BY <2>1, <2>2 DEF LinesInOrder, PostedLines
<1> QED
  BY <1>1, <1>2, <1>3, <1>4, <1>5, <1>6, <1>7 DEF Next, Handler

-----------------------------------------------------------------------------
(* The header. *)

\* The powers of ten are what their recursion says.
LEMMA PowerEq == Power = [k \in Nat |-> IF k = 0 THEN 1 ELSE 10 * Power[k - 1]]
<1> DEFINE rank == [k \in Nat |-> k]
           F == [k \in Nat |-> [g \in [Nat -> Nat] |-> IF k = 0 THEN 1 ELSE 10 * g[k - 1]]]
<1>1. rank \in [Nat -> Nat]
  OBVIOUS
<1>2. ASSUME NEW k \in Nat, NEW g \in [Nat -> Nat]
      PROVE  (IF k = 0 THEN 1 ELSE 10 * g[k - 1]) \in Nat
  OBVIOUS
<1>3. F \in [Nat -> [[Nat -> Nat] -> Nat]]
  BY <1>2
<1>4. ASSUME NEW k \in Nat, NEW g \in [Nat -> Nat], NEW h \in [Nat -> Nat],
             \A j \in Nat : rank[j] < rank[k] => g[j] = h[j]
      PROVE  F[k][g] = F[k][h]
  <2>1. k # 0 => g[k - 1] = h[k - 1]
    BY <1>4
  <2>. QED
    BY <2>1
<1>5. Recursion(Nat, Nat, rank, F)
  <2> HIDE DEF F, rank
  <2>. QED
    BY <1>1, <1>3, <1>4 DEF Recursion
<1>6. PICK f \in [Nat -> Nat] : f = [k \in Nat |-> F[k][f]]
  <2> DEFINE N == Nat
  <2>1. Recursion(N, N, rank, F) /\ N # {}
    BY <1>5
  <2> HIDE DEF F, rank, N
  <2>2. \E f \in [N -> N] : f = [k \in N |-> F[k][f]]
    BY <2>1, RecursionDefines
  <2>. QED
    BY <2>2 DEF N
<1>7. f = [k \in Nat |-> IF k = 0 THEN 1 ELSE 10 * f[k - 1]]
  BY <1>6
<1>. QED
  BY <1>7 DEF Power

LEMMA Powers ==
    /\ Power[0] = 1
    /\ \A k \in Nat : Power[k] \in Nat \ {0} /\ Power[k + 1] = 10 * Power[k]
<1>1. Power[0] = 1 /\ \A k \in Nat : Power[k + 1] = 10 * Power[k]
  BY PowerEq
<1> DEFINE T == {k \in Nat : Power[k] \in Nat \ {0}}
<1>2. 0 \in T
  BY <1>1
<1>3. ASSUME NEW k \in Nat, k \in T PROVE k + 1 \in T
  BY <1>1, <1>3
<1>4. \A k \in Nat : k \in T
  <2> HIDE DEF T
  <2>. QED
    BY <1>2, <1>3, SetInduction
<1>. QED
  BY <1>1, <1>4
\* Dividing by something that may be any number.
LEMMA MulLess ==
    ASSUME NEW p \in Nat \ {0}, NEW x \in Int, NEW y \in Int, p * x < p * y
    PROVE  x < y
<1>1. SUFFICES ASSUME y <= x PROVE FALSE
  OBVIOUS
<1>2. x - y \in Nat /\ p * (x - y) \in Nat
  BY <1>1
<1>3. p * x = p * y + p * (x - y)
  OBVIOUS
<1>4. p * x \in Int /\ p * y \in Int
  OBVIOUS
<1>. QED
  BY <1>2, <1>3, <1>4

LEMMA Division ==
    ASSUME NEW n \in Nat, NEW p \in Nat \ {0}
    PROVE  n \div p \in Nat /\ p * (n \div p) <= n /\ n < p * ((n \div p) + 1)
<1>1. n \div p \in Int /\ n % p \in 0 .. p - 1 /\ n = p * (n \div p) + (n % p)
  OBVIOUS
<1>. QED
  BY <1>1

\* A quotient is its last digit behind the quotient by ten times as much.
LEMMA DigitBehind ==
    ASSUME NEW n \in Nat, NEW p \in Nat \ {0}
    PROVE  n \div p = 10 * (n \div (10 * p)) + ((n \div p) % 10)
<1> DEFINE a == n \div p
           b == n \div (10 * p)
<1>1. /\ a \in Nat /\ p * a <= n /\ n < p * (a + 1)
  BY Division
<1>2. /\ b \in Nat /\ (10 * p) * b <= n /\ n < (10 * p) * (b + 1)
  <2>1. 10 * p \in Nat \ {0}
    OBVIOUS
  <2>. QED
    BY <2>1, Division
<1> HIDE DEF a, b
<1>3. p * (10 * b) <= n /\ n < p * (10 * b + 10)
  BY <1>2
<1>4. p * (10 * b) \in Int /\ p * (10 * b + 10) \in Int /\ p * a \in Int /\ p * (a + 1) \in Int
  BY <1>1, <1>2
<1>5. p * (10 * b) < p * (a + 1) /\ p * a < p * (10 * b + 10)
  BY <1>1, <1>3, <1>4
<1>6. 10 * b < a + 1 /\ a < 10 * b + 10
  BY <1>5, <1>1, <1>2, MulLess
<1>7. a % 10 = a - 10 * b
  BY <1>1, <1>2, <1>6
<1>8. a = 10 * b + (a % 10)
  BY <1>1, <1>2, <1>7
<1>. QED
  BY <1>8 DEF a, b
-----------------------------------------------------------------------------
(* Reading a header. *)

\* There is a first place without one of S.
LEMMA PastOk ==
    ASSUME NEW h \in Seq(Char), NEW i \in 1 .. Len(h) + 1, NEW S
    PROVE  /\ Past(h, i, S) \in i .. Len(h) + 1
           /\ ~Has(h, Past(h, i, S), S)
           /\ \A k \in i .. Past(h, i, S) - 1 : Has(h, k, S)
<1> DEFINE T == {j \in i .. Len(h) + 1 : ~Has(h, j, S)}
<1>0. Len(h) \in Nat
  OBVIOUS
<1>1. Len(h) + 1 \in T /\ T \in SUBSET Nat
  BY <1>0 DEF Has
<1>2. PICK j \in T : \A k \in T : j <= k
  <2> HIDE DEF T
  <2>. QED
    BY <1>1, LeastElement
<1>3. \A k \in i .. j - 1 : Has(h, k, S)
  <2> SUFFICES ASSUME NEW k \in i .. j - 1, ~Has(h, k, S) PROVE FALSE
    OBVIOUS
  <2>1. j \in i .. Len(h) + 1
    OBVIOUS
  <2>2. k \in T
    BY <1>0, <2>1
  <2>. QED
    BY <1>0, <1>2, <2>1, <2>2
<1>4. \E jj \in i .. Len(h) + 1 : ~Has(h, jj, S) /\ \A k \in i .. jj - 1 : Has(h, k, S)
  BY <1>2, <1>3
<1>. QED
  BY <1>4 DEF Past

\* There is only one.
LEMMA PastIs ==
    ASSUME NEW h \in Seq(Char), NEW i \in 1 .. Len(h) + 1, NEW S,
           NEW j \in i .. Len(h) + 1, ~Has(h, j, S), \A k \in i .. j - 1 : Has(h, k, S)
    PROVE  Past(h, i, S) = j
<1>1. Len(h) \in Nat
  OBVIOUS
<1> DEFINE p == Past(h, i, S)
<1>2. /\ p \in i .. Len(h) + 1 /\ ~Has(h, p, S) /\ \A k \in i .. p - 1 : Has(h, k, S)
  BY PastOk
<1> HIDE DEF p
<1>3. ~ (p < j) /\ ~ (j < p)
  BY <1>1, <1>2
<1>. QED
  BY <1>1, <1>2, <1>3 DEF p

\* The digits from i on, read one after the other.
Value(h, i) ==
    CHOOSE v : v = [j \in i - 1 .. Len(h) |-> IF j < i THEN 0 ELSE 10 * v[j - 1] + h[j]]

LEMMA ValueEq ==
    ASSUME NEW h \in Seq(Char), NEW i \in 1 .. Len(h) + 1
    PROVE  Value(h, i) = [j \in i - 1 .. Len(h) |->
                            IF j < i THEN 0 ELSE 10 * Value(h, i)[j - 1] + h[j]]
<1> DEFINE D == i - 1 .. Len(h)
           rank == [j \in D |-> j]
           F == [j \in D |-> [g \in [D -> Nat] |-> IF j < i THEN 0 ELSE 10 * g[j - 1] + h[j]]]
<1>0. Len(h) \in Nat /\ \A j \in 1 .. Len(h) : h[j] \in Nat
  <2>1. \A j \in 1 .. Len(h) : h[j] \in Char
    BY ElementOfSeq
  <2>. QED
    BY <2>1 DEF Char
<1>1. rank \in [D -> Nat]
  BY <1>0
<1>2. ASSUME NEW j \in D, NEW g \in [D -> Nat]
      PROVE  (IF j < i THEN 0 ELSE 10 * g[j - 1] + h[j]) \in Nat
  <2>1. CASE j < i
    BY <2>1
  <2>2. CASE ~ (j < i)
    <3>1. j - 1 \in D /\ j \in 1 .. Len(h)
      BY <1>0, <2>2
    <3>2. g[j - 1] \in Nat /\ h[j] \in Nat
      BY <1>0, <3>1
    <3>. QED
      BY <2>2, <3>2
  <2>. QED
    BY <2>1, <2>2
<1>3. F \in [D -> [[D -> Nat] -> Nat]]
  BY <1>2
<1>4. ASSUME NEW j \in D, NEW g \in [D -> Nat], NEW f \in [D -> Nat],
             \A k \in D : rank[k] < rank[j] => g[k] = f[k]
      PROVE  F[j][g] = F[j][f]
  <2>1. ~ (j < i) => j - 1 \in D /\ j - 1 < j
    BY <1>0
  <2>2. ~ (j < i) => g[j - 1] = f[j - 1]
    BY <2>1, <1>4
  <2>. QED
    BY <2>2
<1>5. Recursion(D, Nat, rank, F)
  <2> HIDE DEF D, F, rank
  <2>. QED
    BY <1>1, <1>3, <1>4 DEF Recursion
<1>6. PICK f \in [D -> Nat] : f = [j \in D |-> F[j][f]]
  <2> DEFINE N == Nat
  <2>1. Recursion(D, N, rank, F) /\ N # {}
    BY <1>5
  <2> HIDE DEF D, F, rank, N
  <2>2. \E f \in [D -> N] : f = [j \in D |-> F[j][f]]
    BY <2>1, RecursionDefines
  <2>. QED
    BY <2>2 DEF N
<1>7. f = [j \in D |-> IF j < i THEN 0 ELSE 10 * f[j - 1] + h[j]]
  BY <1>6
<1>. QED
  BY <1>7 DEF Value

LEMMA Values ==
    ASSUME NEW h \in Seq(Char), NEW i \in 1 .. Len(h) + 1
    PROVE  /\ Value(h, i)[i - 1] = 0
           /\ \A j \in i .. Len(h) : Value(h, i)[j] = 10 * Value(h, i)[j - 1] + h[j]
           /\ \A j \in i - 1 .. Len(h) : Value(h, i)[j] \in Nat
<1>0. Len(h) \in Nat /\ \A j \in 1 .. Len(h) : h[j] \in Nat
  <2>1. \A j \in 1 .. Len(h) : h[j] \in Char
    BY ElementOfSeq
  <2>. QED
    BY <2>1 DEF Char
<1> DEFINE v == Value(h, i)
<1>1. v = [j \in i - 1 .. Len(h) |-> IF j < i THEN 0 ELSE 10 * v[j - 1] + h[j]]
  BY ValueEq
<1> HIDE DEF v
<1>2. \A j \in i - 1 .. Len(h) : v[j] = IF j < i THEN 0 ELSE 10 * v[j - 1] + h[j]
  BY <1>1
<1>3. v[i - 1] = 0 /\ \A j \in i .. Len(h) : v[j] = 10 * v[j - 1] + h[j]
  BY <1>0, <1>2
<1> DEFINE T == {n \in Nat : n <= Len(h) - i + 1 => v[i - 1 + n] \in Nat}
<1>4. 0 \in T
  BY <1>3
<1>5. ASSUME NEW n \in Nat, n \in T PROVE n + 1 \in T
  <2> SUFFICES ASSUME n + 1 <= Len(h) - i + 1 PROVE v[i + n] \in Nat
    BY <1>0
  <2>1. v[i - 1 + n] \in Nat /\ i + n \in i .. Len(h) /\ i + n - 1 = i - 1 + n
    BY <1>0, <1>5
  <2>2. v[i + n] = 10 * v[i - 1 + n] + h[i + n] /\ h[i + n] \in Nat
    BY <1>0, <1>3, <2>1
  <2>. QED
    BY <2>1, <2>2
<1>6. \A n \in Nat : n \in T
  <2> HIDE DEF T
  <2>. QED
    BY <1>4, <1>5, SetInduction
<1>7. ASSUME NEW j \in i - 1 .. Len(h) PROVE v[j] \in Nat
  <2>1. j - (i - 1) \in Nat /\ j - (i - 1) <= Len(h) - i + 1 /\ i - 1 + (j - (i - 1)) = j
    BY <1>0
  <2>. QED
    BY <1>6, <2>1
<1>. QED
  BY <1>3, <1>7 DEF v

LEMMA NumberIs ==
    ASSUME NEW h \in Seq(Char), NEW i \in 1 .. Len(h) + 1
    PROVE  Number(h, i) = Value(h, i)[Past(h, i, 0 .. 9) - 1] /\ Number(h, i) \in Nat
<1>1. Number(h, i) = Value(h, i)[Past(h, i, 0 .. 9) - 1]
  BY Zenon DEF Number, Value
<1>2. Past(h, i, 0 .. 9) - 1 \in i - 1 .. Len(h)
  <2>1. Past(h, i, 0 .. 9) \in i .. Len(h) + 1 /\ Len(h) \in Nat
    BY PastOk
  <2> DEFINE p == Past(h, i, 0 .. 9)
  <2> HIDE DEF p
  <2>2. p \in i .. Len(h) + 1 => p - 1 \in i - 1 .. Len(h)
    BY <2>1
  <2>. QED
    BY <2>1, <2>2 DEF p
<1>. QED
  BY <1>1, <1>2, Values

\* atoi makes a number of whatever it is given.
LEMMA AtoiInt ==
    ASSUME NEW h \in Seq(Char)
    PROVE  Atoi(h) \in Int
<1> DEFINE i == Past(h, 1, {Space})
<1>1. i \in 1 .. Len(h) + 1 /\ Len(h) \in Nat
  BY PastOk
<1> HIDE DEF i
<1>2. Number(h, i) \in Nat
  BY <1>1, NumberIs
<1>3. i + 1 \in 1 .. Len(h) + 1 => Number(h, i + 1) \in Nat
  BY NumberIs
<1>4. \A S : Has(h, i, S) => i + 1 \in 1 .. Len(h) + 1
  BY <1>1 DEF Has
<1>5. \A x \in Char : ~ (x \in {Minus} /\ x \in {Plus})
  BY DEF Minus, Plus
<1>6. Atoi(h) = CASE Has(h, i, {Minus}) -> -Number(h, i + 1)
                  [] Has(h, i, {Plus}) -> Number(h, i + 1)
                  [] OTHER -> Number(h, i)
  BY DEF Atoi, i
<1>7. ~ (Has(h, i, {Minus}) /\ Has(h, i, {Plus}))
  BY DEF Has, Minus, Plus
<1>8. CASE Has(h, i, {Minus})
  <2>1. Atoi(h) = -Number(h, i + 1)
    BY <1>6, <1>7, <1>8
  <2>. QED
    BY <2>1, <1>3, <1>4, <1>8
<1>9. CASE Has(h, i, {Plus})
  <2>1. Atoi(h) = Number(h, i + 1)
    BY <1>6, <1>7, <1>9
  <2>. QED
    BY <2>1, <1>3, <1>4, <1>9
<1>10. CASE ~Has(h, i, {Minus}) /\ ~Has(h, i, {Plus})
  <2>1. Atoi(h) = Number(h, i)
    BY <1>6, <1>10
  <2>. QED
    BY <2>1, <1>2
<1>. QED
  BY <1>8, <1>9, <1>10

\* decode_header lets no length pass that is not one of a body.
LEMMA DecodeFits ==
    ASSUME NEW h \in Seq(Char)
    PROVE  Decode(h).ok \in BOOLEAN /\ Decode(h).body_length \in 0 .. MaxBody
<1> DEFINE n == Atoi(h) % WordSize
<1>1. WordSize \in Nat \ {0} /\ MaxBody \in Nat
  <2>1. HeaderLength \in Nat /\ WordSize \in Nat /\ MaxBody \in Nat
    BY MessageAssumption
  <2>2. Power[HeaderLength] \in Nat \ {0} /\ Power[HeaderLength] < WordSize \div 2
    BY <2>1, Powers, MessageAssumption
  <2>3. WordSize # 0
    BY <2>2
  <2>. QED
    BY <2>1, <2>3
<1>2. n \in Nat
  <2>1. Atoi(h) \in Int
    BY AtoiInt
  <2>. QED
    BY <1>1, <2>1
<1> HIDE DEF n
<1>3. Decode(h) = IF n > MaxBody THEN [ok |-> FALSE, body_length |-> 0]
                                 ELSE [ok |-> TRUE, body_length |-> n]
  BY DEF Decode, n
<1>. QED
  BY <1>1, <1>2, <1>3

\* encode_header: digits, and blanks before them.
LEMMA EncodeAt ==
    ASSUME NEW n \in Nat, NEW i \in 1 .. HeaderLength
    PROVE  /\ Power[HeaderLength - i] \in Nat \ {0}
           /\ (n \div Power[HeaderLength - i]) % 10 \in 0 .. 9
           /\ Encode(n)[i] = IF n < Power[HeaderLength - i] /\ Power[HeaderLength - i] > 1
                             THEN Space ELSE (n \div Power[HeaderLength - i]) % 10
<1>1. HeaderLength - i \in Nat
  BY MessageAssumption
<1>2. Power[HeaderLength - i] \in Nat \ {0}
  BY <1>1, Powers
<1>3. n \div Power[HeaderLength - i] \in Nat
  BY <1>2, Division
<1>4. \A q \in Nat : q % 10 \in 0 .. 9
  OBVIOUS
<1>5. (n \div Power[HeaderLength - i]) % 10 \in 0 .. 9
  BY <1>3, <1>4
<1>6. Encode(n)[i] = IF n < Power[HeaderLength - i] /\ Power[HeaderLength - i] > 1
                     THEN Space ELSE (n \div Power[HeaderLength - i]) % 10
  BY DEF Encode
<1>. QED
  BY <1>2, <1>5, <1>6

LEMMA EncodeType ==
    ASSUME NEW n \in Nat
    PROVE  Encode(n) \in Seq(Char) /\ Len(Encode(n)) = HeaderLength
<1>1. \A i \in 1 .. HeaderLength : Encode(n)[i] \in Char
  BY EncodeAt DEF Char, Space
<1>2. HeaderLength \in Nat
  BY MessageAssumption
<1>3. Encode(n) = [i \in 1 .. HeaderLength |-> Encode(n)[i]]
  BY DEF Encode
<1>. QED
  BY <1>1, <1>2, <1>3

\* Where the digits begin.
LEMMA FirstDigit ==
    ASSUME NEW n \in 0 .. MaxBody
    PROVE  \E d \in 1 .. HeaderLength :
              /\ \A k \in 1 .. d - 1 : Encode(n)[k] = Space
              /\ \A k \in d .. HeaderLength :
                    Encode(n)[k] = (n \div Power[HeaderLength - k]) % 10
              /\ n < Power[HeaderLength - d + 1]
<1> DEFINE P(k) == Power[HeaderLength - k]
           Digit(k) == ~ (n < P(k) /\ P(k) > 1)
           T == {k \in 1 .. HeaderLength : Digit(k)}
<1>1. HeaderLength \in Nat \ {0} /\ n \in Nat /\ n < Power[HeaderLength]
  BY MessageAssumption, Powers
<1>2. HeaderLength \in T
  BY <1>1, Powers
<1>3. PICK d \in T : \A k \in T : d <= k
  <2>1. T \in SUBSET Nat
    BY <1>1
  <2> HIDE DEF T
  <2>. QED
    BY <1>2, <2>1, LeastElement
<1>4. d \in 1 .. HeaderLength /\ Digit(d)
  OBVIOUS
<1>5. \A k \in 1 .. d - 1 : ~Digit(k)
  <2> SUFFICES ASSUME NEW k \in 1 .. d - 1, Digit(k) PROVE FALSE
    OBVIOUS
  <2>1. k \in T
    BY <1>1, <1>4
  <2>. QED
    BY <1>3, <1>4, <2>1
<1>6. \A k \in 1 .. HeaderLength - 1 : P(k) = 10 * P(k + 1) /\ P(k + 1) \in Nat \ {0}
  <2> SUFFICES ASSUME NEW k \in 1 .. HeaderLength - 1
               PROVE P(k) = 10 * P(k + 1) /\ P(k + 1) \in Nat \ {0}
    OBVIOUS
  <2>1. HeaderLength - (k + 1) \in Nat /\ HeaderLength - k = HeaderLength - (k + 1) + 1
    BY <1>1
  <2>. QED
    BY <2>1, Powers
<1> DEFINE U == {m \in Nat : d + m <= HeaderLength => Digit(d + m)}
<1>7. 0 \in U
  BY <1>4
<1>8. ASSUME NEW m \in Nat, m \in U PROVE m + 1 \in U
  <2> SUFFICES ASSUME d + m + 1 <= HeaderLength PROVE Digit(d + m + 1)
    BY <1>4
  <2>1. Digit(d + m) /\ d + m \in 1 .. HeaderLength - 1
    BY <1>1, <1>4, <1>8
  <2>2. P(d + m) = 10 * P(d + m + 1) /\ P(d + m + 1) \in Nat \ {0}
    BY <1>6, <2>1
  <2> HIDE DEF P
  <2>. QED
    BY <1>1, <2>1, <2>2
<1>9. \A m \in Nat : m \in U
  <2> HIDE DEF U
  <2>. QED
    BY <1>7, <1>8, SetInduction
<1>10. \A k \in d .. HeaderLength : Digit(k)
  <2> SUFFICES ASSUME NEW k \in d .. HeaderLength PROVE Digit(k)
    OBVIOUS
  <2> HIDE DEF Digit
  <2>1. k - d \in Nat /\ d + (k - d) = k /\ k <= HeaderLength
    BY <1>1, <1>4
  <2>. QED
    BY <1>9, <2>1
<1>11. n < Power[HeaderLength - d + 1]
  <2>1. CASE d = 1
    BY <1>1, <2>1
  <2>2. CASE d # 1
    <3>1. d - 1 \in 1 .. d - 1 /\ HeaderLength - (d - 1) = HeaderLength - d + 1
      BY <1>1, <1>4, <2>2
    <3>. QED
      BY <1>5, <3>1
  <2>. QED
    BY <2>1, <2>2
<1>12. \A k \in 1 .. d - 1 : Encode(n)[k] = Space
  BY <1>1, <1>4, <1>5, EncodeAt
<1>13. \A k \in d .. HeaderLength : Encode(n)[k] = (n \div Power[HeaderLength - k]) % 10
  BY <1>1, <1>4, <1>10, EncodeAt
<1>. QED
  BY <1>4, <1>11, <1>12, <1>13

\* decode_header gives back what encode_header wrote.
LEMMA Roundtrip ==
    ASSUME NEW n \in 0 .. MaxBody
    PROVE  Decode(Encode(n)) = [ok |-> TRUE, body_length |-> n]
<1> DEFINE h == Encode(n)
<1>1. HeaderLength \in Nat \ {0} /\ n \in Nat /\ h \in Seq(Char) /\ Len(h) = HeaderLength
  BY MessageAssumption, EncodeType
<1>2. PICK d \in 1 .. HeaderLength :
              /\ \A k \in 1 .. d - 1 : h[k] = Space
              /\ \A k \in d .. HeaderLength : h[k] = (n \div Power[HeaderLength - k]) % 10
              /\ n < Power[HeaderLength - d + 1]
  BY FirstDigit
<1>3. \A k \in d .. HeaderLength : h[k] \in 0 .. 9
  <2> SUFFICES ASSUME NEW k \in d .. HeaderLength PROVE h[k] \in 0 .. 9
    OBVIOUS
  <2>1. k \in 1 .. HeaderLength
    BY <1>1
  <2>. QED
    BY <1>1, <1>2, <2>1, EncodeAt
<1> HIDE DEF h
<1>4. d \in 1 .. Len(h) + 1 /\ d \in d .. HeaderLength
  BY <1>1
<1>5. Past(h, 1, {Space}) = d
  <2>1. ~Has(h, d, {Space}) /\ \A k \in 1 .. d - 1 : Has(h, k, {Space})
    BY <1>1, <1>2, <1>3, <1>4 DEF Has, Space
  <2>2. 1 \in 1 .. Len(h) + 1
    BY <1>1
  <2>. QED
    BY <1>1, <1>4, <2>1, <2>2, PastIs
<1>6. Past(h, d, 0 .. 9) = HeaderLength + 1
  <2>1. ~Has(h, HeaderLength + 1, 0 .. 9)
    BY <1>1 DEF Has
  <2>2. \A k \in d .. HeaderLength : Has(h, k, 0 .. 9)
    BY <1>1, <1>3 DEF Has
  <2>3. HeaderLength + 1 \in d .. Len(h) + 1 /\ HeaderLength + 1 - 1 = HeaderLength
    BY <1>1
  <2>. QED
    BY <1>1, <1>4, <2>1, <2>2, <2>3, PastIs
<1> DEFINE T == {m \in Nat : m <= HeaderLength - d + 1 =>
                    Value(h, d)[d - 1 + m] = n \div Power[HeaderLength - d + 1 - m]}
<1>7. 0 \in T
  <2>1. Power[HeaderLength - d + 1] \in Nat \ {0}
    BY <1>1, Powers
  <2>2. \A q \in Nat \ {0} : n < q => n \div q = 0
    <3> SUFFICES ASSUME NEW q \in Nat \ {0}, n < q PROVE n \div q = 0
      OBVIOUS
    <3>1. n \div q \in Nat /\ q * (n \div q) <= n
      BY <1>1, Division
    <3>2. q * (n \div q) < q * 1
      BY <1>1, <3>1
    <3>. QED
      BY <3>1, <3>2, MulLess
  <2>3. Value(h, d)[d - 1] = 0
    BY <1>1, <1>4, Values
  <2>4. HeaderLength - d + 1 - 0 = HeaderLength - d + 1 /\ d - 1 + 0 = d - 1
    BY <1>1
  <2>. QED
    BY <1>2, <2>1, <2>2, <2>3, <2>4
<1>8. ASSUME NEW m \in Nat, m \in T PROVE m + 1 \in T
  <2> SUFFICES ASSUME m + 1 <= HeaderLength - d + 1
               PROVE Value(h, d)[d + m] = n \div Power[HeaderLength - d - m]
    BY <1>1
  <2> DEFINE p == Power[HeaderLength - d - m]
  <2>1. HeaderLength - d - m \in Nat /\ HeaderLength - d - m + 1 = HeaderLength - d + 1 - m
    BY <1>1
  <2>2. p \in Nat \ {0} /\ Power[HeaderLength - d + 1 - m] = 10 * p
    BY <2>1, Powers
  <2>3. d + m \in d .. HeaderLength /\ HeaderLength - (d + m) = HeaderLength - d - m
    BY <1>1
  <2>4. h[d + m] = (n \div p) % 10
    BY <1>2, <2>3
  <2>5. Value(h, d)[d - 1 + m] = n \div (10 * p)
    <3>1. m <= HeaderLength - d + 1
      BY <1>1
    <3>2. Value(h, d)[d - 1 + m] = n \div Power[HeaderLength - d + 1 - m]
      BY <1>8, <3>1
    <3>. QED
      BY <2>2, <3>2
  <2>6. Value(h, d)[d + m] = 10 * Value(h, d)[d + m - 1] + h[d + m]
    <3>1. d + m \in d .. Len(h)
      BY <1>1, <2>3
    <3>2. \A j \in d .. Len(h) : Value(h, d)[j] = 10 * Value(h, d)[j - 1] + h[j]
      BY <1>1, <1>4, Values
    <3>. QED
      BY <3>1, <3>2
  <2>7. d + m - 1 = d - 1 + m
    OBVIOUS
  <2> HIDE DEF p
  <2>8. n \div p = 10 * (n \div (10 * p)) + ((n \div p) % 10)
    BY <1>1, <2>2, DigitBehind
  <2>. QED
    BY <2>4, <2>5, <2>6, <2>7, <2>8 DEF p
<1>9. \A m \in Nat : m \in T
  <2> HIDE DEF T
  <2>. QED
    BY <1>7, <1>8, SetInduction
<1>10. Value(h, d)[HeaderLength] = n
  <2>1. /\ HeaderLength - d + 1 \in Nat /\ HeaderLength - d + 1 - (HeaderLength - d + 1) = 0
        /\ d - 1 + (HeaderLength - d + 1) = HeaderLength
    BY <1>1
  <2>2. Value(h, d)[HeaderLength] = n \div Power[0]
    BY <1>9, <2>1
  <2>. QED
    BY <1>1, <2>2, Powers
<1>11. Number(h, d) = n
  BY <1>1, <1>4, <1>6, <1>10, NumberIs
<1>12. ~Has(h, d, {Minus}) /\ ~Has(h, d, {Plus})
  BY <1>3, <1>4 DEF Has, Minus, Plus
<1>13. Atoi(h) = n
  <2>1. Atoi(h) = CASE Has(h, d, {Minus}) -> -Number(h, d + 1)
                    [] Has(h, d, {Plus}) -> Number(h, d + 1)
                    [] OTHER -> Number(h, d)
    BY <1>5 DEF Atoi
  <2>. QED
    BY <1>11, <1>12, <2>1
<1>14. n % WordSize = n /\ ~ (n > MaxBody)
  <2>1. MaxBody \in Nat /\ WordSize \in Nat /\ Power[HeaderLength] \in Nat \ {0}
    BY <1>1, MessageAssumption, Powers
  <2>2. MaxBody < Power[HeaderLength] /\ Power[HeaderLength] < WordSize \div 2
    BY MessageAssumption
  <2>3. n < WordSize
    BY <1>1, <2>1, <2>2
  <2>. QED
    BY <1>1, <2>1, <2>3
<1>15. Decode(h) = [ok |-> TRUE, body_length |-> n]
  BY <1>13, <1>14 DEF Decode
<1>. QED
  BY <1>15 DEF h
-----------------------------------------------------------------------------
(* The stream. *)

LEMMA LineType ==
    ASSUME NEW line \in Line
    PROVE  line \in Seq(Char) /\ Len(line) \in 0 .. MaxBody
<1>1. line \in Seq(Char \ {Nul}) /\ Len(line) <= MaxBody /\ MaxBody \in Nat
  BY WireAssumption, MessageAssumption
<1>. QED
  BY <1>1

\* A line fits into a message, which is its header and the line.
LEMMA FrameIs ==
    ASSUME NEW line \in Line
    PROVE  /\ Frame(line) \in Seq(Char) /\ Len(Frame(line)) = HeaderLength + Len(line)
           /\ \A i \in 1 .. HeaderLength : Frame(line)[i] = Encode(Len(line))[i]
           /\ \A i \in 1 .. Len(line) : Frame(line)[HeaderLength + i] = line[i]
<1>1. line \in Seq(Char) /\ Len(line) \in 0 .. MaxBody /\ Len(line) \in Nat
  BY LineType
<1>2. Clip(Len(line)) = Len(line)
  BY <1>1, MessageAssumption DEF Clip
<1>3. SubSeq(line, 1, Len(line)) = line
  BY <1>1
<1>4. Frame(line) = Encode(Len(line)) \o line
  BY <1>2, <1>3 DEF Frame, Body
<1>5. Encode(Len(line)) \in Seq(Char) /\ Len(Encode(Len(line))) = HeaderLength
  BY <1>1, EncodeType
<1> DEFINE e == Encode(Len(line))
<1> HIDE DEF e
<1>6. /\ e \o line \in Seq(Char) /\ Len(e \o line) = Len(e) + Len(line)
      /\ \A i \in 1 .. Len(e) + Len(line) :
            (e \o line)[i] = IF i <= Len(e) THEN e[i] ELSE line[i - Len(e)]
  BY <1>1, <1>5, ConcatProperties DEF e
<1>7. HeaderLength \in Nat \ {0}
  BY MessageAssumption
<1>. QED
  BY <1>1, <1>4, <1>5, <1>6, <1>7 DEF e

\* s[k]: where the message of the k-th line ends in the stream of all of them.
Ends(s, t) ==
    /\ s \in [0 .. Len(t) -> Nat]
    /\ s[0] = 0
    /\ \A k \in 1 .. Len(t) : s[k] = s[k - 1] + HeaderLength + Len(t[k])

LEMMA EndsAt ==
    ASSUME NEW t \in Seq(Line), NEW s, Ends(s, t)
    PROVE  /\ Len(t) \in Nat /\ s[Len(t)] \in Nat
           /\ \A k \in 0 .. Len(t) : s[k] \in Nat
           /\ \A k \in 1 .. Len(t) :
                 /\ s[k] \in Nat /\ s[k - 1] \in Nat /\ t[k] \in Line
                 /\ Len(t[k]) \in 0 .. MaxBody
                 /\ Len(Frame(t[k])) = HeaderLength + Len(t[k])
                 /\ s[k] = s[k - 1] + HeaderLength + Len(t[k])
<1>1. Len(t) \in Nat /\ \A k \in 0 .. Len(t) : s[k] \in Nat
  BY DEF Ends
<1>2. s[Len(t)] \in Nat
  <2>1. Len(t) \in 0 .. Len(t)
    BY <1>1
  <2>. QED
    BY <1>1, <2>1
<1>3. ASSUME NEW k \in 1 .. Len(t)
      PROVE  /\ s[k] \in Nat /\ s[k - 1] \in Nat /\ t[k] \in Line
             /\ Len(t[k]) \in 0 .. MaxBody
             /\ Len(Frame(t[k])) = HeaderLength + Len(t[k])
             /\ s[k] = s[k - 1] + HeaderLength + Len(t[k])
  <2>1. k \in 0 .. Len(t) /\ k - 1 \in 0 .. Len(t)
    BY <1>1
  <2>2. t[k] \in Line
    BY ElementOfSeq
  <2>3. s[k] = s[k - 1] + HeaderLength + Len(t[k])
    BY DEF Ends
  <2>. QED
    BY <1>1, <2>1, <2>2, <2>3, LineType, FrameIs
<1>. QED
  BY <1>1, <1>2, <1>3

LEMMA EndsGrow ==
    ASSUME NEW t \in Seq(Line), NEW s, Ends(s, t), NEW j \in 0 .. Len(t), NEW k \in j .. Len(t)
    PROVE  s[j] <= s[k]
<1>0. Len(t) \in Nat /\ HeaderLength \in Nat /\ \A i \in 0 .. Len(t) : s[i] \in Nat
  BY EndsAt, MessageAssumption
<1> DEFINE T == {n \in Nat : j + n <= Len(t) => s[j] <= s[j + n]}
<1>1. 0 \in T
  BY <1>0
<1>2. ASSUME NEW n \in Nat, n \in T PROVE n + 1 \in T
  <2> SUFFICES ASSUME j + n + 1 <= Len(t) PROVE s[j] <= s[j + n + 1]
    OBVIOUS
  <2>1. PICK m \in 1 .. Len(t) : m = j + n + 1
    BY <1>0
  <2>2. s[m] = s[m - 1] + HeaderLength + Len(t[m]) /\ Len(t[m]) \in Nat
    BY EndsAt
  <2>3. m - 1 = j + n /\ j + n <= Len(t) /\ m - 1 \in 0 .. Len(t)
    BY <1>0, <2>1
  <2>4. s[j] <= s[m - 1]
    BY <1>2, <2>3
  <2>5. s[m - 1] \in Nat /\ s[j] \in Nat
    BY <1>0, <2>3
  <2>. QED
    BY <1>0, <2>1, <2>2, <2>4, <2>5
<1>3. \A n \in Nat : n \in T
  <2> HIDE DEF T
  <2>. QED
    BY <1>1, <1>2, SetInduction
<1>4. k - j \in Nat /\ j + (k - j) = k
  BY <1>0
<1>. QED
  BY <1>0, <1>3, <1>4

\* The x-th byte of the stream, if it is in the message of the k-th line.
Inside(s, k, x) == s[k - 1] < x /\ x <= s[k]
Byte(s, t, k, x) == Frame(t[k])[x - s[k - 1]]

LEMMA ByteAt ==
    ASSUME NEW s, NEW t, NEW k, NEW x, NEW y, x - s[k - 1] = y
    PROVE  Byte(s, t, k, x) = Frame(t[k])[y]
BY DEF Byte

\* The bytes w are those of the stream behind its first a ones.
Carries(s, t, w, a) ==
    /\ a + Len(w) <= s[Len(t)]
    /\ \A i \in 1 .. Len(w) : \A k \in 1 .. Len(t) :
          Inside(s, k, a + i) => w[i] = Byte(s, t, k, a + i)

LEMMA CarriesAt ==
    ASSUME NEW s, NEW t, NEW w, NEW a, Carries(s, t, w, a),
           NEW i \in 1 .. Len(w), NEW k \in 1 .. Len(t), Inside(s, k, a + i)
    PROVE  w[i] = Byte(s, t, k, a + i)
BY DEF Carries

\* What is lost at the end, what is read, what is written, a line typed.
LEMMA CarriesLess ==
    ASSUME NEW t \in Seq(Line), NEW s, Ends(s, t), NEW w \in Seq(Char), NEW a \in Nat,
           Carries(s, t, w, a), NEW n \in 0 .. Len(w)
    PROVE  Carries(s, t, SubSeq(w, 1, n), a)
<1>1. /\ Len(w) \in Nat /\ Len(SubSeq(w, 1, n)) = n
      /\ \A i \in 1 .. n : SubSeq(w, 1, n)[i] = w[i]
  BY SubSeqProperties
<1>2. s[Len(t)] \in Nat
  BY EndsAt
<1> DEFINE v == SubSeq(w, 1, n)
<1> HIDE DEF v
<1>3. Len(v) = n /\ \A i \in 1 .. n : v[i] = w[i]
  BY <1>1 DEF v
<1>4. a + Len(v) <= s[Len(t)]
  BY <1>1, <1>2, <1>3 DEF Carries
<1>5. \A i \in 1 .. n : i \in 1 .. Len(w)
  BY <1>1
<1>6. Carries(s, t, v, a)
  BY <1>3, <1>4, <1>5 DEF Carries
<1>. QED
  BY <1>6 DEF v

LEMMA CarriesRest ==
    ASSUME NEW t \in Seq(Line), NEW s, Ends(s, t), NEW w \in Seq(Char), NEW a \in Nat,
           Carries(s, t, w, a), NEW n \in 0 .. Len(w)
    PROVE  /\ SubSeq(w, n + 1, Len(w)) \in Seq(Char)
           /\ Len(SubSeq(w, n + 1, Len(w))) = Len(w) - n
           /\ Carries(s, t, SubSeq(w, n + 1, Len(w)), a + n)
<1> DEFINE v == SubSeq(w, n + 1, Len(w))
<1>1. Len(w) \in Nat
  OBVIOUS
<1>2. /\ v \in Seq(Char) /\ Len(v) = Len(w) - n
      /\ \A i \in 1 .. Len(w) - n : v[i] = w[n + i]
  <2>1. CASE n = Len(w)
    BY <1>1, <2>1
  <2>2. CASE n # Len(w)
    BY <1>1, <2>2
  <2>. QED
    BY <2>1, <2>2
<1>3. s[Len(t)] \in Nat
  BY EndsAt
<1> HIDE DEF v
<1>4. a + n + Len(v) <= s[Len(t)]
  BY <1>1, <1>2, <1>3 DEF Carries
<1>5. ASSUME NEW i \in 1 .. Len(v), NEW k \in 1 .. Len(t), Inside(s, k, (a + n) + i)
      PROVE  v[i] = Byte(s, t, k, (a + n) + i)
  <2> DEFINE m == n + i
  <2>1. m \in 1 .. Len(w) /\ (a + n) + i = a + m
    BY <1>1, <1>2
  <2>2. v[i] = w[m]
    BY <1>2
  <2> HIDE DEF m
  <2>. QED
    BY <1>5, <2>1, <2>2 DEF Carries
<1>6. Carries(s, t, v, a + n)
  BY <1>4, <1>5 DEF Carries
<1>. QED
  BY <1>2, <1>6 DEF v

LEMMA CarriesMore ==
    ASSUME NEW t \in Seq(Line), NEW s, Ends(s, t), NEW w \in Seq(Char), NEW a \in Nat,
           Carries(s, t, w, a), NEW j \in 1 .. Len(t), a + Len(w) = s[j - 1],
           NEW f \in Seq(Char), Len(f) <= Len(Frame(t[j])),
           \A i \in 1 .. Len(f) : f[i] = Frame(t[j])[i]
    PROVE  /\ w \o f \in Seq(Char) /\ Len(w \o f) = Len(w) + Len(f)
           /\ Carries(s, t, w \o f, a)
<1>0. /\ Len(t) \in Nat /\ s[j - 1] \in Nat /\ s[j] \in Nat /\ s[Len(t)] \in Nat
      /\ Len(w) \in Nat /\ Len(f) \in Nat
  BY EndsAt
<1>1. Len(Frame(t[j])) \in Nat /\ s[j] = s[j - 1] + Len(Frame(t[j]))
  <2>1. /\ s[j] = s[j - 1] + HeaderLength + Len(t[j]) /\ Len(t[j]) \in Nat
        /\ Len(Frame(t[j])) = HeaderLength + Len(t[j])
    BY EndsAt
  <2>2. HeaderLength \in Nat
    BY MessageAssumption
  <2> DEFINE l == Len(t[j])
             m == Len(Frame(t[j]))
             b == s[j - 1]
             c == s[j]
  <2>3. /\ b \in Nat /\ l \in Nat
        /\ c = b + HeaderLength + l /\ m = HeaderLength + l
    BY <1>0, <2>1
  <2>4. m \in Nat /\ c = b + m
    <3> HIDE DEF b, c, l, m
    <3>. QED
      BY <2>2, <2>3
  <2>. QED
    BY <2>4
<1> DEFINE v == w \o f
<1>3. /\ v \in Seq(Char) /\ Len(v) = Len(w) + Len(f)
      /\ \A i \in 1 .. Len(w) + Len(f) : v[i] = IF i <= Len(w) THEN w[i] ELSE f[i - Len(w)]
  BY ConcatProperties
<1> HIDE DEF v
<1>4. s[j] <= s[Len(t)]
  <2>1. j \in 0 .. Len(t) /\ Len(t) \in j .. Len(t)
    BY <1>0
  <2>. QED
    BY <2>1, EndsGrow
<1>5. a + Len(v) <= s[Len(t)]
  BY <1>0, <1>1, <1>3, <1>4
<1>6. ASSUME NEW i \in 1 .. Len(v), NEW k \in 1 .. Len(t), Inside(s, k, a + i)
      PROVE  v[i] = Byte(s, t, k, a + i)
  <2>0. s[k - 1] \in Nat /\ s[k] \in Nat
    BY EndsAt
  <2>1. CASE i <= Len(w)
    <3>1. i \in 1 .. Len(w) /\ v[i] = w[i]
      BY <1>0, <1>3, <2>1
    <3>. QED
      BY <1>6, <3>1 DEF Carries
  <2>2. CASE ~ (i <= Len(w))
    <3> DEFINE m == i - Len(w)
    <3>1. m \in 1 .. Len(f) /\ v[i] = f[m] /\ a + i = s[j - 1] + m
      BY <1>0, <1>3, <2>2
    <3> HIDE DEF m
    <3>a. m \in Nat /\ 1 <= m /\ m <= Len(Frame(t[j])) /\ i \in Nat
      BY <1>0, <1>1, <1>3, <3>1
    <3> DEFINE b == s[j - 1]
               c == s[j]
               l == Len(Frame(t[j]))
    <3>b. b \in Nat /\ c \in Nat /\ l \in Nat /\ c = b + l /\ a + i = b + m /\ m <= l
      BY <1>0, <1>1, <3>1, <3>a
    <3>c. b < a + i /\ a + i <= c /\ a + i - b = m
      <4> HIDE DEF b, c, l
      <4>. QED
        BY <3>a, <3>b
    <3>2. a + i > s[j - 1] /\ a + i <= s[j]
      BY <3>b, <3>c, <3>a
    <3>3. ~ (k < j)
      <4> SUFFICES ASSUME k < j PROVE FALSE
        OBVIOUS
      <4>1. k \in 0 .. Len(t) /\ j - 1 \in k .. Len(t)
        BY <1>0
      <4>2. s[k] <= s[j - 1]
        BY <4>1, EndsGrow
      <4>. QED
        BY <1>0, <1>6, <2>0, <3>2, <4>2 DEF Inside
    <3>4. ~ (j < k)
      <4> SUFFICES ASSUME j < k PROVE FALSE
        OBVIOUS
      <4>1. j \in 0 .. Len(t) /\ k - 1 \in j .. Len(t)
        BY <1>0
      <4>2. s[j] <= s[k - 1]
        BY <4>1, EndsGrow
      <4>. QED
        BY <1>0, <1>6, <2>0, <3>2, <4>2 DEF Inside
    <3>5. k = j
      BY <1>0, <3>3, <3>4
    <3>6. a + i - s[k - 1] = m
      BY <3>5, <3>c
    <3>7. v[i] = Frame(t[j])[m]
      BY <3>1
    <3>. QED
      BY <3>5, <3>6, <3>7 DEF Byte
  <2>. QED
    BY <2>1, <2>2
<1>7. Carries(s, t, v, a)
  BY <1>5, <1>6 DEF Carries
<1>. QED
  BY <1>3, <1>7 DEF v

LEMMA CarriesLine ==
    ASSUME NEW t \in Seq(Line), NEW s, Ends(s, t), NEW w \in Seq(Char), NEW a \in Nat,
           Carries(s, t, w, a), NEW line \in Line
    PROVE  \E r : /\ Ends(r, Append(t, line)) /\ Carries(r, Append(t, line), w, a)
                  /\ \A k \in 0 .. Len(t) : r[k] = s[k]
<1> DEFINE n == Len(t)
           u == Append(t, line)
           r == [k \in 0 .. n + 1 |-> IF k <= n THEN s[k] ELSE s[n] + HeaderLength + Len(line)]
<1>1. /\ n \in Nat /\ u \in Seq(Line) /\ Len(u) = n + 1
      /\ \A k \in 1 .. n : u[k] = t[k]
      /\ u[n + 1] = line
  BY AppendProperties
<1>2. Len(line) \in Nat /\ HeaderLength \in Nat
  BY LineType, MessageAssumption
<1>3. /\ \A k \in 0 .. n : s[k] \in Nat
      /\ s[0] = 0
      /\ \A k \in 1 .. n : s[k] = s[k - 1] + HeaderLength + Len(t[k])
  BY DEF Ends
<1> HIDE DEF n, u
<1>4. /\ r \in [0 .. n + 1 -> Nat]
      /\ \A k \in 0 .. n : r[k] = s[k]
      /\ r[n + 1] = s[n] + HeaderLength + Len(line)
  BY <1>1, <1>2, <1>3
<1> HIDE DEF r
<1>5. \A k \in 1 .. n + 1 : r[k] = r[k - 1] + HeaderLength + Len(u[k])
  <2> SUFFICES ASSUME NEW k \in 1 .. n + 1 PROVE r[k] = r[k - 1] + HeaderLength + Len(u[k])
    OBVIOUS
  <2>1. CASE k = n + 1
    <3>1. k - 1 = n /\ n \in 0 .. n
      BY <1>1, <2>1
    <3>. QED
      BY <1>1, <1>4, <2>1, <3>1
  <2>2. CASE k # n + 1
    <3>1. k \in 1 .. n /\ k \in 0 .. n /\ k - 1 \in 0 .. n
      BY <1>1, <2>2
    <3>. QED
      BY <1>1, <1>3, <1>4, <3>1
  <2>. QED
    BY <2>1, <2>2
<1>6. r[0] = 0
  BY <1>1, <1>3, <1>4
<1>7. Ends(r, u)
  BY <1>1, <1>4, <1>5, <1>6 DEF Ends
<1>8. a + Len(w) <= s[n] /\ Len(w) \in Nat /\ s[n] \in Nat
  <2>1. n \in 0 .. n
    BY <1>1
  <2>. QED
    BY <1>3, <2>1 DEF Carries, n
<1>9. a + Len(w) <= r[n + 1]
  BY <1>2, <1>4, <1>8
<1>10. ASSUME NEW i \in 1 .. Len(w), NEW k \in 1 .. n + 1, Inside(r, k, a + i)
       PROVE  w[i] = Byte(r, u, k, a + i)
  <2>1. CASE k = n + 1
    <3>1. k - 1 = n /\ n \in 0 .. n
      BY <1>1, <2>1
    <3>2. r[k - 1] = s[n]
      BY <1>4, <3>1
    <3>. QED
      BY <1>8, <1>10, <3>2 DEF Inside
  <2>2. CASE k # n + 1
    <3>1. k \in 1 .. n /\ k \in 0 .. n /\ k - 1 \in 0 .. n
      BY <1>1, <2>2
    <3>2. r[k] = s[k] /\ r[k - 1] = s[k - 1] /\ u[k] = t[k]
      BY <1>1, <1>4, <3>1
    <3>. QED
      BY <1>10, <3>1, <3>2 DEF Carries, Inside, Byte, n
  <2>. QED
    BY <2>1, <2>2
<1>11. Carries(r, u, w, a)
  BY <1>1, <1>9, <1>10 DEF Carries
<1>. QED
  BY <1>4, <1>7, <1>11 DEF n, u
-----------------------------------------------------------------------------
(* The inductive invariant. *)

\* Bytes of the stream that the session has taken, as far as the messages go.
Taken(s) == s[Len(got)] + (IF phase = "body" THEN HeaderLength ELSE 0)

\* Lines that are written, whether or not the handler of the write has run.
Through == Len(sent) + writing.ready

\* What is on its way to a session that still reads is the rest of the stream;
\* it goes as far as what is written, unless the connection is closed.
InStep ==
    \E s : /\ Ends(s, text)
           /\ Carries(s, text, wire, Taken(s))
           /\ conn # "closed" => Taken(s) + Len(wire) = s[Through]

\* The lines are numbered as they are typed, and the session has the first ones.
Numbered ==
    /\ Len(text) = Len(typed)
    /\ \A i \in 1 .. Len(typed) : typed[i] = i

Got ==
    /\ Len(got) <= Len(text)
    /\ \A i \in 1 .. Len(got) : got[i] = text[i]
    /\ phase = "body" => Len(got) < Len(text) /\ body_length = Len(text[Len(got) + 1])

WireTypes ==
    /\ honest \in BOOLEAN
    /\ text \in Seq(Line)
    /\ wire \in Seq(Char)
    /\ phase \in {"header", "body", "closed"}
    /\ body_length \in 0 .. MaxBody
    /\ got \in Seq(Seq(Char))

HonestInv ==
    /\ ClientIInv
    /\ LinesInOrder
    /\ Numbered
    /\ Got
    /\ phase = "closed" => conn = "closed"
    /\ phase # "closed" => InStep

WireIInv ==
    /\ WireTypes
    /\ honest => HonestInv
    /\ ~honest => NoClient

\* The front of the queue is the line after those that were sent.
LEMMA NextLine ==
    ASSUME ClientIInv, LinesInOrder, Numbered
    PROVE  /\ Through \in 0 .. Len(text) /\ Len(sent) \in Nat /\ Len(text) \in Nat
           /\ writing.started > 0 =>
                 /\ Len(sent) < Len(text) /\ Head(write_msgs) = Len(sent) + 1
                 /\ writing.ready = 0
<1>1. /\ sent \in Seq(Nat) /\ write_msgs \in Seq(Nat) /\ PostedLines \in Seq(Nat)
      /\ writing.started \in Nat /\ writing.ready \in Nat
      /\ writing.started + writing.ready <= 1
      /\ writing.started + writing.ready > 0 => write_msgs # <<>>
  BY PostedTyped DEF ClientIInv, LinesTyped, OneWrite
<1> DEFINE q == sent \o write_msgs
           p == PostedLines
<1>2. /\ q \in Seq(Nat) /\ Len(q) = Len(sent) + Len(write_msgs)
      /\ \A i \in 1 .. Len(sent) + Len(write_msgs) :
            q[i] = IF i <= Len(sent) THEN sent[i] ELSE write_msgs[i - Len(sent)]
  BY <1>1, ConcatProperties
<1>3. typed = q \o p
  BY DEF LinesInOrder
<1> HIDE DEF q, p
<1>4. p \in Seq(Nat) /\ Len(p) \in Nat
  BY <1>1 DEF p
<1>5. /\ Len(typed) = Len(q) + Len(p)
      /\ \A i \in 1 .. Len(q) + Len(p) : typed[i] = IF i <= Len(q) THEN q[i] ELSE p[i - Len(q)]
  <2> DEFINE c == q \o p
  <2>1. /\ Len(c) = Len(q) + Len(p)
        /\ \A i \in 1 .. Len(q) + Len(p) : c[i] = IF i <= Len(q) THEN q[i] ELSE p[i - Len(q)]
    <3>1. q \in Seq(Nat) /\ p \in Seq(Nat)
      BY <1>2, <1>4
    <3>. QED
      BY <3>1, ConcatProperties
  <2>2. typed = c
    BY <1>3
  <2> HIDE DEF c
  <2>. QED
    BY <2>1, <2>2
<1>6. Len(sent) \in Nat /\ Len(write_msgs) \in Nat /\ Len(text) = Len(typed)
  BY <1>1 DEF Numbered
<1>7. write_msgs # <<>> => Len(write_msgs) > 0 /\ Head(write_msgs) = write_msgs[1]
  BY <1>1, <1>6
<1>8. ASSUME write_msgs # <<>>
      PROVE  Len(sent) < Len(text) /\ Head(write_msgs) = Len(sent) + 1
  <2> DEFINE k == Len(sent) + 1
  <2>1. k \in 1 .. Len(q) + Len(p) /\ k <= Len(q) /\ ~ (k <= Len(sent)) /\ k - Len(sent) = 1
        /\ k \in 1 .. Len(sent) + Len(write_msgs) /\ k \in 1 .. Len(typed)
    BY <1>2, <1>4, <1>5, <1>6, <1>7, <1>8
  <2> HIDE DEF k
  <2>2. typed[k] = q[k] /\ q[k] = write_msgs[k - Len(sent)]
    BY <1>2, <1>5, <2>1
  <2>3. typed[k] = k
    BY <2>1 DEF Numbered
  <2>4. Head(write_msgs) = k
    BY <1>7, <1>8, <2>1, <2>2, <2>3
  <2>5. Len(sent) < Len(text)
    BY <1>2, <1>4, <1>5, <1>6, <1>7, <1>8
  <2>. QED
    BY <2>4, <2>5 DEF k
<1>9. Len(text) \in Nat /\ Len(sent) <= Len(text)
  BY <1>2, <1>4, <1>5, <1>6
<1>10. Through \in 0 .. Len(text)
  BY <1>1, <1>6, <1>8, <1>9 DEF Through
<1>11. writing.started > 0 => write_msgs # <<>> /\ writing.ready = 0
  BY <1>1
<1>. QED
  BY <1>6, <1>8, <1>9, <1>10, <1>11

\* A client keeps its own invariant.
LEMMA ClientKeeps ==
    ASSUME ClientIInv, LinesInOrder, [Next]_vars
    PROVE  ClientIInv' /\ LinesInOrder'
<1>1. ClientIInv'
  BY ClientNext
<1>. QED
  BY <1>1, LinesNext

LEMMA InitWire == WireInit => WireIInv
<1> SUFFICES ASSUME WireInit PROVE WireIInv
  OBVIOUS
<1>1. /\ honest \in BOOLEAN /\ text = <<>> /\ wire = <<>> /\ phase = "header"
      /\ body_length = 0 /\ got = <<>>
      /\ honest => Init
      /\ ~honest => NoClient
  BY DEF WireInit
<1>2. WireTypes
  BY <1>1, MessageAssumption DEF WireTypes
<1>3. ASSUME honest PROVE HonestInv
  <2>1. Init /\ ClientIInv /\ LinesInOrder
    BY <1>1, <1>3, ClientInit
  <2>2. typed = <<>> /\ sent = <<>> /\ writing.ready = 0
    BY <2>1 DEF Init
  <2>3. Numbered /\ Got
    BY <1>1, <2>2 DEF Numbered, Got
  <2> DEFINE s == [k \in 0 .. 0 |-> 0]
  <2>4. Ends(s, text)
    BY <1>1 DEF Ends
  <2>5. Taken(s) = 0 /\ s[Through] = 0 /\ Len(wire) = 0 /\ s[Len(text)] = 0
    BY <1>1, <2>2 DEF Taken, Through
  <2> HIDE DEF s
  <2>6. Carries(s, text, wire, Taken(s))
    BY <2>5 DEF Carries
  <2>7. InStep
    BY <2>4, <2>5, <2>6 DEF InStep
  <2>. QED
    BY <1>1, <2>1, <2>3, <2>7 DEF HonestInv
<1>. QED
  BY <1>1, <1>2, <1>3 DEF WireIInv

\* Without a client no step of one is possible.
LEMMA NoClientStays ==
    ASSUME NoClient
    PROVE  ~TypeText /\ ~WriteFrame /\ ~WriteSome /\ ~ClientAlone
<1>1. /\ main = "done" /\ io = "returned" /\ conn = "open" /\ posted = <<>>
      /\ connecting = "none" /\ reading = None /\ writing = [started |-> 0, ready |-> 0]
  BY DEF NoClient
<1>2. reading[2] = "none" /\ writing.started = 0 /\ writing.ready = 0
  BY <1>1 DEF None
<1>3. ~TypeLine /\ ~WriteReady /\ ~WriteFails
  BY <1>1, <1>2 DEF TypeLine, WriteReady, WriteFails
<1>4. ~EndInput /\ ~Joined /\ ~ConnectReady /\ ~ReadReady /\ ~Connected /\ ~ReadHeader
      /\ ~ReadBody /\ ~ReadFails /\ ~RunWrite /\ ~RunClose /\ ~Written /\ ~RunReturns
  BY <1>1, <1>2 DEF EndInput, Joined, ConnectReady, ReadReady, Connected, ReadHeader,
     ReadBody, ReadFails, RunWrite, RunClose, Written, RunReturns
<1>. QED
  BY <1>3, <1>4 DEF TypeText, WriteFrame, WriteSome, ClientAlone

LEMMA TypeWire ==
    ASSUME WireIInv, TypeText
    PROVE  WireIInv'
<1>1. honest /\ WireTypes /\ HonestInv
  BY NoClientStays DEF WireIInv, WireTypes
<1>2. PICK line \in Line : text' = Append(text, line)
  BY DEF TypeText
<1>3. /\ TypeLine /\ UNCHANGED <<honest, wire>> /\ UNCHANGED <<phase, body_length, got>>
      /\ UNCHANGED <<conn, sent, writing>> /\ typed' = Append(typed, Len(typed) + 1)
  BY DEF TypeText, TypeLine, session, socket
<1>4. ClientIInv' /\ LinesInOrder'
  <2>1. Next
    BY <1>3 DEF Next
  <2>. QED
    BY <1>1, <2>1, ClientKeeps DEF HonestInv
<1>5. /\ text \in Seq(Line) /\ text' \in Seq(Line) /\ Len(text') = Len(text) + 1
      /\ Len(text) \in Nat
      /\ \A i \in 1 .. Len(text) : text'[i] = text[i]
  BY <1>1, <1>2, AppendProperties DEF WireTypes
<1>6. WireTypes'
  BY <1>1, <1>3, <1>5 DEF WireTypes
<1>7. Numbered'
  <2>1. typed \in Seq(Nat) /\ Len(typed) \in Nat /\ Len(typed) + 1 \in Nat
    BY <1>1 DEF HonestInv, ClientIInv, LinesTyped
  <2>2. /\ Len(typed') = Len(typed) + 1 /\ typed'[Len(typed) + 1] = Len(typed) + 1
        /\ \A i \in 1 .. Len(typed) : typed'[i] = typed[i]
    BY <1>3, <2>1, AppendProperties
  <2>. QED
    BY <1>1, <1>5, <2>1, <2>2 DEF HonestInv, Numbered
<1>8. Got'
  <2>1. Len(got) \in Nat /\ Len(got) <= Len(text) /\ \A i \in 1 .. Len(got) : got[i] = text[i]
        /\ (phase = "body" => Len(got) < Len(text) /\ body_length = Len(text[Len(got) + 1]))
    BY <1>1 DEF HonestInv, Got, WireTypes
  <2>2. \A i \in 1 .. Len(got) : i \in 1 .. Len(text)
    BY <1>5, <2>1
  <2>3. Len(got) < Len(text) => Len(got) + 1 \in 1 .. Len(text)
    BY <1>5, <2>1
  <2>4. Len(got') <= Len(text') /\ \A i \in 1 .. Len(got') : got'[i] = text'[i]
    BY <1>3, <1>5, <2>1, <2>2
  <2>5. phase' = "body" =>
           Len(got') < Len(text') /\ body_length' = Len(text'[Len(got') + 1])
    <3> SUFFICES ASSUME phase' = "body"
                 PROVE  Len(got') < Len(text') /\ body_length' = Len(text'[Len(got') + 1])
      OBVIOUS
    <3>1. got' = got /\ phase = "body" /\ body_length' = body_length
      BY <1>3
    <3>2. Len(got) + 1 \in 1 .. Len(text) /\ body_length = Len(text[Len(got) + 1])
      <4>1. Len(got) < Len(text) /\ body_length = Len(text[Len(got) + 1])
        BY <1>1, <3>1 DEF HonestInv, Got
      <4>. QED
        BY <2>3, <4>1
    <3>3. text'[Len(got) + 1] = text[Len(got) + 1]
      BY <1>5, <3>2
    <3>. QED
      BY <1>5, <2>1, <3>1, <3>2, <3>3
  <2>. QED
    BY <2>4, <2>5 DEF Got
<1>9. ASSUME phase' # "closed" PROVE InStep'
  <2>1. PICK s : /\ Ends(s, text) /\ Carries(s, text, wire, Taken(s))
                 /\ conn # "closed" => Taken(s) + Len(wire) = s[Through]
    BY <1>1, <1>3, <1>9 DEF HonestInv, InStep
  <2>2. Len(got) \in 0 .. Len(text) /\ Through \in 0 .. Len(text)
    BY <1>1, <1>5, NextLine DEF HonestInv, Got, WireTypes
  <2>3. Taken(s) \in Nat
    BY <2>1, <2>2, <1>5, EndsAt, MessageAssumption DEF Taken
  <2>4. wire \in Seq(Char)
    BY <1>1 DEF WireTypes
  <2>5. PICK r : /\ Ends(r, text') /\ Carries(r, text', wire, Taken(s))
                 /\ \A k \in 0 .. Len(text) : r[k] = s[k]
    BY <1>2, <1>5, <2>1, <2>3, <2>4, CarriesLine
  <2>6. Taken(r)' = Taken(s) /\ Through' = Through /\ r[Through] = s[Through]
    BY <1>3, <2>2, <2>5 DEF Taken, Through
  <2>7. /\ Ends(r, text') /\ Carries(r, text', wire', Taken(r)')
        /\ conn' # "closed" => Taken(r)' + Len(wire') = r[Through']
    BY <1>3, <2>1, <2>5, <2>6
  <2>. QED
    BY <2>7 DEF InStep
<1>10. phase' = "closed" => conn' = "closed"
  BY <1>1, <1>3 DEF HonestInv
<1>. QED
  BY <1>1, <1>3, <1>4, <1>6, <1>7, <1>8, <1>9, <1>10 DEF WireIInv, HonestInv

\* What a write puts on the wire is what the session has to get next.
LEMMA Writes ==
    ASSUME WireIInv, honest, writing.started > 0, NEW k \in Nat,
           k <= Len(Frame(text[Head(write_msgs)])),
           wire' = wire \o SubSeq(Frame(text[Head(write_msgs)]), 1, k),
           conn = "open", UNCHANGED <<text, phase, got>>
    PROVE  /\ wire' \in Seq(Char)
           /\ \E s : /\ Ends(s, text) /\ Carries(s, text, wire', Taken(s)')
                     /\ k = Len(Frame(text[Head(write_msgs)])) =>
                           Taken(s)' + Len(wire') = s[Len(sent) + 1]
<1>1. WireTypes /\ HonestInv
  BY DEF WireIInv
<1>2. phase # "closed"
  BY <1>1 DEF HonestInv
<1>3. PICK s : /\ Ends(s, text) /\ Carries(s, text, wire, Taken(s))
               /\ Taken(s) + Len(wire) = s[Through]
  BY <1>1, <1>2 DEF HonestInv, InStep
<1>4. /\ Len(sent) \in Nat /\ Len(text) \in Nat /\ Len(sent) < Len(text)
      /\ Head(write_msgs) = Len(sent) + 1 /\ writing.ready = 0
  BY <1>1, NextLine DEF HonestInv
<1> DEFINE j == Len(sent) + 1
           f == Frame(text[j])
           a == Taken(s)
<1>5. j \in 1 .. Len(text) /\ j - 1 = Len(sent) /\ Through = j - 1
  BY <1>4 DEF Through
<1>6. a \in Nat
  <2>1. Len(got) \in 0 .. Len(text)
    BY <1>1, <1>4 DEF HonestInv, Got, WireTypes
  <2>. QED
    BY <1>1, <1>3, <2>1, EndsAt, MessageAssumption DEF Taken, WireTypes
<1>7. text \in Seq(Line) /\ wire \in Seq(Char)
  BY <1>1 DEF WireTypes
<1>8. f \in Seq(Char) /\ Len(f) \in Nat /\ s[j] = s[j - 1] + Len(f) /\ s[j - 1] \in Nat
  <2>1. text[j] \in Line
    BY <1>5, <1>7, ElementOfSeq
  <2>2. f \in Seq(Char)
    BY <2>1, FrameIs
  <2>3. /\ s[j] = s[j - 1] + HeaderLength + Len(text[j]) /\ Len(f) = HeaderLength + Len(text[j])
        /\ s[j - 1] \in Nat /\ Len(text[j]) \in Nat
    BY <1>3, <1>5, <1>7, EndsAt
  <2>4. HeaderLength \in Nat
    BY MessageAssumption
  <2> HIDE DEF j, f
  <2>. QED
    BY <2>2, <2>3, <2>4
<1>9. Head(write_msgs) = j
  BY <1>4
<1> HIDE DEF j, f
<1> DEFINE g == SubSeq(f, 1, k)
<1>10. k \in 0 .. Len(f) /\ wire' = wire \o g
  BY <1>9 DEF f
<1>11. g \in Seq(Char) /\ Len(g) = k /\ \A i \in 1 .. k : g[i] = f[i]
  BY <1>8, <1>10, SubSeqProperties
<1> HIDE DEF g, a
<1>12. a + Len(wire) = s[j - 1] /\ Carries(s, text, wire, a)
  BY <1>3, <1>5 DEF a
<1>13. Len(g) <= Len(Frame(text[j])) /\ \A i \in 1 .. Len(g) : g[i] = Frame(text[j])[i]
  BY <1>8, <1>10, <1>11 DEF f
<1>14. /\ wire' \in Seq(Char) /\ Len(wire') = Len(wire) + k
       /\ Carries(s, text, wire', a)
  <2>1. /\ wire \o g \in Seq(Char) /\ Len(wire \o g) = Len(wire) + Len(g)
        /\ Carries(s, text, wire \o g, a)
    BY <1>3, <1>5, <1>6, <1>7, <1>11, <1>12, <1>13, CarriesMore
  <2>. QED
    BY <1>10, <1>11, <2>1
<1>15. Taken(s)' = a
  BY DEF Taken, a
<1>16. k = Len(f) => a + Len(wire') = s[j]
  <2> DEFINE b == s[j - 1]
             c == s[j]
             m == Len(wire)
             l == Len(wire')
  <2>1. m \in Nat /\ b \in Nat /\ a + m = b /\ l = m + k /\ c = b + Len(f)
    BY <1>7, <1>8, <1>12, <1>14
  <2>2. k = Len(f) => a + l = c
    <3> HIDE DEF b, c, l, m
    <3> SUFFICES ASSUME k = Len(f) PROVE a + l = c
      OBVIOUS
    <3>1. l = m + k /\ m \in Nat /\ b \in Nat /\ a + m = b
      BY <2>1
    <3>2. a + l = b + k
      BY <1>6, <3>1
    <3>3. c = b + k
      BY <2>1
    <3>. QED
      BY <3>2, <3>3
  <2>. QED
    BY <2>2
<1>17. k = Len(Frame(text[Head(write_msgs)])) => Taken(s)' + Len(wire') = s[Len(sent) + 1]
  BY <1>9, <1>15, <1>16 DEF f, j
<1>. QED
  BY <1>3, <1>14, <1>15, <1>17

LEMMA WriteWire ==
    ASSUME WireIInv, WriteFrame
    PROVE  WireIInv'
<1>1. honest /\ WireTypes /\ HonestInv
  BY NoClientStays DEF WireIInv, WireTypes
<1>2. /\ WriteReady /\ conn = "open" /\ writing.started > 0
      /\ writing' = [started |-> writing.started - 1, ready |-> writing.ready + 1]
      /\ wire' = wire \o Frame(text[Head(write_msgs)])
      /\ UNCHANGED <<honest, text, phase, body_length, got, conn, sent, typed>>
  BY DEF WriteFrame, WriteReady, session
<1>3. ClientIInv' /\ LinesInOrder'
  <2>1. Next
    BY <1>2 DEF Next
  <2>. QED
    BY <1>1, <2>1, ClientKeeps DEF HonestInv
<1>4. /\ Len(sent) \in Nat /\ Len(text) \in Nat /\ Len(sent) < Len(text)
      /\ Head(write_msgs) = Len(sent) + 1 /\ writing.ready = 0
  BY <1>1, <1>2, NextLine DEF HonestInv
<1> DEFINE f == Frame(text[Head(write_msgs)])
<1>5. f \in Seq(Char) /\ Len(f) \in Nat /\ SubSeq(f, 1, Len(f)) = f
  <2>1. Head(write_msgs) \in 1 .. Len(text)
    BY <1>4
  <2>2. text[Head(write_msgs)] \in Line
    BY <1>1, <2>1, ElementOfSeq DEF WireTypes
  <2>3. f \in Seq(Char)
    BY <2>2, FrameIs
  <2> HIDE DEF f
  <2>. QED
    BY <2>3
<1>6. wire' = wire \o SubSeq(f, 1, Len(f))
  BY <1>2, <1>5
<1>7. /\ wire' \in Seq(Char)
      /\ \E s : /\ Ends(s, text) /\ Carries(s, text, wire', Taken(s)')
                /\ Taken(s)' + Len(wire') = s[Len(sent) + 1]
  BY <1>1, <1>2, <1>5, <1>6, Writes
<1>8. Through' = Len(sent) + 1
  BY <1>2, <1>4 DEF Through
<1>9. InStep'
  BY <1>2, <1>7, <1>8 DEF InStep
<1>10. WireTypes' /\ Numbered' /\ Got'
  BY <1>1, <1>2, <1>7 DEF WireTypes, HonestInv, Numbered, Got
<1>. QED
  BY <1>1, <1>2, <1>3, <1>9, <1>10 DEF WireIInv, HonestInv

LEMMA WriteSomeWire ==
    ASSUME WireIInv, WriteSome
    PROVE  WireIInv'
<1>1. honest /\ WireTypes /\ HonestInv
  BY NoClientStays DEF WireIInv, WireTypes
<1>2. /\ WriteFails /\ writing.started > 0 /\ conn' = "closed"
      /\ UNCHANGED <<honest, text, phase, body_length, got, typed>>
  BY DEF WriteSome, WriteFails, session
<1> DEFINE f == Frame(text[Head(write_msgs)])
<1>3. PICK k \in 0 .. Len(f) - 1 : /\ conn # "open" => k = 0
                                   /\ wire' = wire \o SubSeq(f, 1, k)
  BY DEF WriteSome
<1>4. ClientIInv' /\ LinesInOrder'
  <2>1. Next
    BY <1>2 DEF Next, Handler
  <2>. QED
    BY <1>1, <2>1, ClientKeeps DEF HonestInv
<1>5. Head(write_msgs) \in 1 .. Len(text)
  BY <1>1, <1>2, NextLine DEF HonestInv
<1>6. f \in Seq(Char) /\ Len(f) \in Nat
  <2>1. text[Head(write_msgs)] \in Line
    BY <1>1, <1>5, ElementOfSeq DEF WireTypes
  <2>2. f \in Seq(Char)
    BY <2>1, FrameIs
  <2> HIDE DEF f
  <2>. QED
    BY <2>2
<1>7. wire' \in Seq(Char) /\ (phase' # "closed" => InStep')
  <2>1. CASE conn = "open"
    <3>1. k \in Nat /\ k <= Len(f)
      BY <1>6
    <3>2. /\ wire' \in Seq(Char)
          /\ \E s : Ends(s, text) /\ Carries(s, text, wire', Taken(s)')
      BY <1>1, <1>2, <1>3, <2>1, <3>1, Writes
    <3>. QED
      BY <1>2, <3>2 DEF InStep
  <2>2. CASE conn # "open"
    <3>1. wire' = wire \o SubSeq(f, 1, 0)
      BY <1>3, <2>2
    <3>2. SubSeq(f, 1, 0) = <<>> /\ wire \in Seq(Char)
      BY <1>1, <1>6 DEF WireTypes
    <3>3. wire' = wire
      BY <3>1, <3>2
    <3>4. phase # "closed" => InStep
      BY <1>1 DEF HonestInv
    <3>5. \A s : Taken(s)' = Taken(s)
      BY <1>2 DEF Taken
    <3>6. phase' # "closed" => InStep'
      BY <1>2, <3>3, <3>4, <3>5 DEF InStep
    <3>. QED
      BY <3>2, <3>3, <3>6
  <2>. QED
    BY <2>1, <2>2
<1>8. WireTypes' /\ Numbered' /\ Got'
  BY <1>1, <1>2, <1>7 DEF WireTypes, HonestInv, Numbered, Got
<1>. QED
  BY <1>1, <1>2, <1>4, <1>7, <1>8 DEF WireIInv, HonestInv

LEMMA AloneWire ==
    ASSUME WireIInv, ClientAlone
    PROVE  WireIInv'
<1>1. honest /\ WireTypes /\ HonestInv
  BY NoClientStays DEF WireIInv, WireTypes
<1>2. UNCHANGED <<honest, text, wire, phase, body_length, got>>
  BY DEF ClientAlone, wireVars
<1>3. ClientIInv' /\ LinesInOrder'
  <2>1. Next
    BY DEF ClientAlone, Next, Handler
  <2>. QED
    BY <1>1, <2>1, ClientKeeps DEF HonestInv
<1>4. typed' = typed
  BY DEF ClientAlone, EndInput, Joined, ConnectReady, ReadReady, Connected, ReadHeader,
     ReadBody, ReadFails, RunWrite, RunClose, Written, RunReturns, socket
<1>5. conn = "closed" => conn' = "closed"
  BY DEF ClientAlone, EndInput, Joined, ConnectReady, ReadReady, Connected, ReadHeader,
     ReadBody, ReadFails, RunWrite, RunClose, Written, RunReturns, socket
<1>6. Through' = Through
  <2>1. /\ sent \in Seq(Nat) /\ write_msgs \in Seq(Nat)
        /\ writing \in [started : Nat, ready : Nat]
        /\ writing.ready > 0 => write_msgs # <<>>
    BY <1>1 DEF HonestInv, ClientIInv, LinesTyped, OneWrite
  <2>2. CASE Written
    <3>1. /\ writing.ready > 0 /\ sent' = Append(sent, Head(write_msgs))
          /\ writing'.ready = writing.ready - 1
      BY <2>2 DEF Written
    <3>2. Head(write_msgs) \in Nat
      BY <2>1, <3>1
    <3>3. Len(sent') = Len(sent) + 1 /\ Len(sent) \in Nat /\ writing.ready \in Nat
      BY <2>1, <3>1, <3>2, AppendProperties
    <3>4. Through' = Len(sent') + writing'.ready /\ Through = Len(sent) + writing.ready
      BY DEF Through
    <3>. QED
      BY <3>1, <3>3, <3>4
  <2>3. CASE RunWrite
    <3>1. sent' = sent /\ writing'.ready = writing.ready
      BY <2>1, <2>3 DEF RunWrite
    <3>. QED
      BY <3>1 DEF Through
  <2>4. CASE ~Written /\ ~RunWrite
    <3>1. sent' = sent /\ writing' = writing
      BY <2>4 DEF ClientAlone, EndInput, Joined, ConnectReady, ReadReady, Connected,
         ReadHeader, ReadBody, ReadFails, RunClose, RunReturns, socket
    <3>. QED
      BY <3>1 DEF Through
  <2>. QED
    BY <2>2, <2>3, <2>4
<1>7. phase' # "closed" => InStep'
  <2>1. \A s : Taken(s)' = Taken(s)
    BY <1>2 DEF Taken
  <2>. QED
    BY <1>1, <1>2, <1>5, <1>6, <2>1 DEF HonestInv, InStep
<1>8. WireTypes' /\ Numbered' /\ Got'
  BY <1>1, <1>2, <1>4 DEF WireTypes, HonestInv, Numbered, Got
<1>. QED
  BY <1>1, <1>2, <1>3, <1>5, <1>7, <1>8 DEF WireIInv, HonestInv

\* What a step of the session or of the stream leaves alone.
LEMMA QuietClient ==
    ASSUME HonestInv, UNCHANGED vars, UNCHANGED text
    PROVE  ClientIInv' /\ LinesInOrder' /\ Numbered' /\ Through' = Through
<1>1. ClientIInv' /\ LinesInOrder'
  BY ClientKeeps DEF HonestInv
<1>2. Numbered' /\ Through' = Through
  BY DEF HonestInv, Numbered, Through, vars
<1>. QED
  BY <1>1, <1>2

\* The header that comes next is the one of the next line.
LEMMA HeaderWire ==
    ASSUME WireIInv, SessionHeader
    PROVE  WireIInv'
<1>1. /\ phase = "header" /\ Len(wire) >= HeaderLength
      /\ wire' = SubSeq(wire, HeaderLength + 1, Len(wire))
      /\ UNCHANGED <<honest, text, got>> /\ UNCHANGED vars
  BY DEF SessionHeader
<1> DEFINE h == SubSeq(wire, 1, HeaderLength)
<1>2. /\ body_length' = Decode(h).body_length
      /\ phase' = IF Decode(h).ok THEN "body" ELSE "closed"
  BY DEF SessionHeader
<1>3. /\ wire \in Seq(Char) /\ Len(wire) \in Nat /\ HeaderLength \in 0 .. Len(wire)
      /\ HeaderLength \in Nat \ {0}
  BY <1>1, MessageAssumption DEF WireIInv, WireTypes
<1>4. /\ h \in Seq(Char) /\ Len(h) = HeaderLength
      /\ \A i \in 1 .. HeaderLength : h[i] = wire[i]
  BY <1>3, SubSeqProperties
<1> HIDE DEF h
<1>5. wire' \in Seq(Char)
  BY <1>1, <1>3
<1>6. WireTypes'
  <2>1. body_length' \in 0 .. MaxBody /\ phase' \in {"header", "body", "closed"}
    BY <1>2, <1>4, DecodeFits
  <2>. QED
    BY <1>1, <1>5, <2>1 DEF WireIInv, WireTypes
<1>7. ASSUME ~honest PROVE NoClient'
  BY <1>1, <1>7 DEF WireIInv, NoClient, vars
<1>8. ASSUME honest PROVE HonestInv'
  <2>1. HonestInv /\ text \in Seq(Line) /\ got \in Seq(Seq(Char))
    BY <1>8 DEF WireIInv, WireTypes
  <2>2. PICK s : /\ Ends(s, text) /\ Carries(s, text, wire, Taken(s))
                 /\ conn # "closed" => Taken(s) + Len(wire) = s[Through]
    BY <1>1, <2>1 DEF HonestInv, InStep
  <2> DEFINE g == Len(got)
             n == Len(text)
  <2>3. g \in Nat /\ n \in Nat /\ g <= n /\ \A i \in 1 .. g : got[i] = text[i]
    BY <2>1 DEF HonestInv, Got
  <2> HIDE DEF g, n
  <2>4. Taken(s) = s[g] /\ s[g] \in Nat /\ s[n] \in Nat
    <3>1. g \in 0 .. n
      BY <2>3
    <3>2. s[g] \in Nat /\ s[n] \in Nat
      BY <2>1, <2>2, <3>1, EndsAt DEF n
    <3>. QED
      BY <1>1, <3>2 DEF Taken, g
  <2>5. s[g] + Len(wire) <= s[n]
    BY <2>2, <2>4 DEF Carries, n
  <2>6. g # n
    BY <1>1, <1>3, <2>4, <2>5
  <2> DEFINE k == g + 1
  <2>7. k \in 1 .. n /\ k - 1 = g
    BY <2>3, <2>6
  <2>8. /\ text[k] \in Line /\ Len(text[k]) \in 0 .. MaxBody
        /\ s[k] = s[g] + HeaderLength + Len(text[k]) /\ s[k] \in Nat
    BY <2>1, <2>2, <2>7, EndsAt DEF n
  <2> HIDE DEF k
  <2>9. ASSUME NEW i \in 1 .. HeaderLength PROVE h[i] = Encode(Len(text[k]))[i]
    <3>1. i \in 1 .. Len(wire) /\ h[i] = wire[i]
      BY <1>3, <1>4
    <3>2. s[k - 1] < s[g] + i /\ s[g] + i <= s[k] /\ (s[g] + i) - s[k - 1] = i
      BY <1>3, <2>4, <2>7, <2>8
    <3>3. wire[i] = Byte(s, text, k, s[g] + i)
      <4>1. Carries(s, text, wire, s[g])
        BY <2>2, <2>4
      <4>2. Inside(s, k, s[g] + i) /\ k \in 1 .. Len(text)
        BY <2>7, <3>2 DEF Inside, n
      <4>. QED
        BY <3>1, <4>1, <4>2, CarriesAt
    <3>4. Byte(s, text, k, s[g] + i) = Frame(text[k])[i]
      BY <3>2, ByteAt
    <3>5. Frame(text[k])[i] = Encode(Len(text[k]))[i]
      BY <2>8, FrameIs
    <3>. QED
      BY <3>1, <3>3, <3>4, <3>5
  <2>10. h = Encode(Len(text[k]))
    <3>1. Len(text[k]) \in Nat
      BY <2>8
    <3>2. Encode(Len(text[k])) \in Seq(Char) /\ Len(Encode(Len(text[k]))) = HeaderLength
      BY <3>1, EncodeType
    <3>. QED
      BY <1>4, <2>9, <3>2, SeqEqual
  <2>11. body_length' = Len(text[k]) /\ phase' = "body"
    BY <1>2, <2>8, <2>10, Roundtrip
  <2>12. Got'
    BY <1>1, <2>3, <2>7, <2>11 DEF Got, k, g, n
  <2>13. Taken(s)' = s[g] + HeaderLength
    BY <1>1, <2>11 DEF Taken, g
  <2>14. /\ Len(wire') = Len(wire) - HeaderLength
         /\ Carries(s, text, wire', s[g] + HeaderLength)
    BY <1>1, <1>3, <2>1, <2>2, <2>4, CarriesRest
  <2>15. ClientIInv' /\ LinesInOrder' /\ Numbered' /\ Through' = Through /\ conn' = conn
    BY <1>1, <2>1, QuietClient DEF vars
  <2>16. s[g] + HeaderLength + Len(wire') = s[g] + Len(wire)
    BY <1>3, <2>4, <2>14
  <2>17. InStep'
    BY <1>1, <2>2, <2>4, <2>13, <2>14, <2>15, <2>16 DEF InStep
  <2>. QED
    BY <2>11, <2>12, <2>15, <2>17 DEF HonestInv
<1>. QED
  BY <1>1, <1>6, <1>7, <1>8 DEF WireIInv

\* The body that comes next is the next line.
LEMMA BodyWire ==
    ASSUME WireIInv, SessionBody
    PROVE  WireIInv'
<1> DEFINE b == SubSeq(wire, 1, body_length)
<1>1. /\ phase = "body" /\ Len(wire) >= body_length /\ phase' = "header"
      /\ wire' = SubSeq(wire, body_length + 1, Len(wire))
      /\ got' = Append(got, b)
      /\ UNCHANGED <<honest, text, body_length>> /\ UNCHANGED vars
  BY DEF SessionBody
<1>2. /\ wire \in Seq(Char) /\ Len(wire) \in Nat /\ body_length \in 0 .. Len(wire)
      /\ body_length \in Nat /\ HeaderLength \in Nat \ {0} /\ got \in Seq(Seq(Char))
  BY <1>1, MessageAssumption DEF WireIInv, WireTypes
<1>3. /\ b \in Seq(Char) /\ Len(b) = body_length
      /\ \A i \in 1 .. body_length : b[i] = wire[i]
  BY <1>2, SubSeqProperties
<1> HIDE DEF b
<1>4. wire' \in Seq(Char) /\ got' \in Seq(Seq(Char))
  BY <1>1, <1>2, <1>3
<1>5. WireTypes'
  BY <1>1, <1>4 DEF WireIInv, WireTypes
<1>6. ASSUME ~honest PROVE NoClient'
  BY <1>1, <1>6 DEF WireIInv, NoClient, vars
<1>7. ASSUME honest PROVE HonestInv'
  <2>1. HonestInv /\ text \in Seq(Line)
    BY <1>7 DEF WireIInv, WireTypes
  <2>2. PICK s : /\ Ends(s, text) /\ Carries(s, text, wire, Taken(s))
                 /\ conn # "closed" => Taken(s) + Len(wire) = s[Through]
    BY <1>1, <2>1 DEF HonestInv, InStep
  <2> DEFINE g == Len(got)
             n == Len(text)
             k == g + 1
  <2>3. /\ g \in Nat /\ n \in Nat /\ g < n /\ k \in 1 .. n /\ k - 1 = g
        /\ \A i \in 1 .. g : got[i] = text[i]
        /\ body_length = Len(text[k])
    BY <1>1, <1>2, <2>1 DEF HonestInv, Got
  <2>4. /\ text[k] \in Line /\ s[g] \in Nat /\ s[k] \in Nat
        /\ s[k] = s[g] + HeaderLength + Len(text[k])
    <3> HIDE DEF g, k
    <3>. QED
      BY <2>1, <2>2, <2>3, EndsAt DEF n
  <2>5. Taken(s) = s[g] + HeaderLength
    BY <1>1 DEF Taken
  <2>6. Len(got') = k /\ got'[k] = b /\ \A i \in 1 .. g : got'[i] = got[i]
    BY <1>1, <1>2, <1>3, AppendProperties
  <2> HIDE DEF g, n, k
  <2> DEFINE a == s[g] + HeaderLength
  <2>7. a \in Nat /\ s[k] = a + body_length /\ s[k - 1] = s[g]
    BY <1>2, <2>3, <2>4
  <2>8. ASSUME NEW i \in 1 .. body_length PROVE b[i] = text[k][i]
    <3>1. i \in 1 .. Len(wire) /\ b[i] = wire[i]
      BY <1>2, <1>3
    <3>2. s[k - 1] < a + i /\ a + i <= s[k] /\ (a + i) - s[k - 1] = HeaderLength + i
      BY <1>2, <2>4, <2>7
    <3>3. wire[i] = Byte(s, text, k, a + i)
      <4> HIDE DEF a
      <4>1. Carries(s, text, wire, a)
        BY <2>2, <2>5 DEF a
      <4>2. Inside(s, k, a + i) /\ k \in 1 .. Len(text)
        BY <2>3, <3>2 DEF Inside, n
      <4>. QED
        BY <3>1, <4>1, <4>2, CarriesAt
    <3>4. Byte(s, text, k, a + i) = Frame(text[k])[HeaderLength + i]
      BY <3>2, ByteAt
    <3>5. Frame(text[k])[HeaderLength + i] = text[k][i]
      BY <2>3, <2>4, FrameIs
    <3>. QED
      BY <3>1, <3>3, <3>4, <3>5
  <2>9. b = text[k]
    <3>1. text[k] \in Seq(Char)
      BY <2>4, LineType
    <3>. QED
      BY <1>3, <2>3, <2>8, <3>1, SeqEqual
  <2>10. \A i \in 1 .. k : got'[i] = text[i]
    <3> SUFFICES ASSUME NEW i \in 1 .. k PROVE got'[i] = text[i]
      OBVIOUS
    <3>1. CASE i = k
      BY <2>6, <2>9, <3>1
    <3>2. CASE i # k
      <4>1. i \in 1 .. g
        BY <2>3, <3>2 DEF k
      <4>. QED
        BY <2>3, <2>6, <4>1
    <3>. QED
      BY <3>1, <3>2
  <2>11. Got'
    <3>1. k <= Len(text)
      BY <2>3 DEF n
    <3>. QED
      BY <1>1, <2>6, <2>10, <3>1 DEF Got
  <2>12. Taken(s)' = s[k]
    <3>1. s[k] \in Nat
      BY <2>4
    <3>. QED
      BY <1>1, <2>6, <3>1 DEF Taken
  <2>13. /\ Len(wire') = Len(wire) - body_length
         /\ Carries(s, text, wire', s[k])
    <3> HIDE DEF a
    <3>1. Carries(s, text, wire, a)
      BY <2>2, <2>5 DEF a
    <3>. QED
      BY <1>1, <1>2, <2>1, <2>2, <2>7, <3>1, CarriesRest
  <2>14. ClientIInv' /\ LinesInOrder' /\ Numbered' /\ Through' = Through /\ conn' = conn
    BY <1>1, <2>1, QuietClient DEF vars
  <2>15. s[k] + Len(wire') = a + Len(wire)
    <3> HIDE DEF a
    <3>. QED
      BY <1>2, <2>7, <2>13
  <2>16. InStep'
    BY <1>1, <2>2, <2>5, <2>12, <2>13, <2>14, <2>15 DEF InStep
  <2>. QED
    BY <1>1, <2>11, <2>14, <2>16 DEF HonestInv
<1>. QED
  BY <1>1, <1>5, <1>6, <1>7 DEF WireIInv

LEMMA FailsWire ==
    ASSUME WireIInv, SessionFails
    PROVE  WireIInv'
<1>1. /\ conn = "closed" /\ phase' = "closed"
      /\ UNCHANGED <<honest, text, wire, body_length, got>> /\ UNCHANGED vars
  BY DEF SessionFails
<1>2. WireTypes'
  BY <1>1 DEF WireIInv, WireTypes
<1>3. ASSUME ~honest PROVE NoClient'
  BY <1>1, <1>3 DEF WireIInv, NoClient, vars
<1>4. ASSUME honest PROVE HonestInv'
  <2>1. HonestInv
    BY <1>4 DEF WireIInv
  <2>2. ClientIInv' /\ LinesInOrder' /\ Numbered' /\ conn' = "closed"
    BY <1>1, <2>1, QuietClient DEF vars
  <2>3. Got'
    BY <1>1, <2>1 DEF HonestInv, Got
  <2>. QED
    BY <1>1, <2>2, <2>3 DEF HonestInv
<1>. QED
  BY <1>1, <1>2, <1>3, <1>4 DEF WireIInv

LEMMA TruncatedWire ==
    ASSUME WireIInv, Truncated
    PROVE  WireIInv'
<1>1. /\ conn = "closed" /\ UNCHANGED <<honest, text, phase, body_length, got>>
      /\ UNCHANGED vars
  BY DEF Truncated, session
<1>2. PICK n \in 0 .. Len(wire) - 1 : wire' = SubSeq(wire, 1, n)
  BY DEF Truncated
<1>3. wire \in Seq(Char) /\ n \in 0 .. Len(wire)
  BY DEF WireIInv, WireTypes
<1>4. wire' \in Seq(Char)
  BY <1>2, <1>3, SubSeqProperties
<1>5. WireTypes'
  BY <1>1, <1>4 DEF WireIInv, WireTypes
<1>6. ASSUME ~honest PROVE NoClient'
  BY <1>1, <1>6 DEF WireIInv, NoClient, vars
<1>7. ASSUME honest PROVE HonestInv'
  <2>1. HonestInv /\ text \in Seq(Line) /\ got \in Seq(Seq(Char))
    BY <1>7 DEF WireIInv, WireTypes
  <2>2. ClientIInv' /\ LinesInOrder' /\ Numbered' /\ conn' = "closed"
    BY <1>1, <2>1, QuietClient DEF vars
  <2>3. Got'
    BY <1>1, <2>1 DEF HonestInv, Got
  <2>4. ASSUME phase' # "closed" PROVE InStep'
    <3>1. PICK s : Ends(s, text) /\ Carries(s, text, wire, Taken(s))
      BY <1>1, <2>1, <2>4 DEF HonestInv, InStep
    <3>2. Taken(s) \in Nat /\ Taken(s)' = Taken(s)
      <4>1. Len(got) \in 0 .. Len(text)
        BY <2>1 DEF HonestInv, Got
      <4>. QED
        BY <1>1, <2>1, <3>1, <4>1, EndsAt, MessageAssumption DEF Taken
    <3>3. Carries(s, text, wire', Taken(s))
      BY <1>2, <1>3, <2>1, <3>1, <3>2, CarriesLess
    <3>. QED
      BY <1>1, <2>2, <3>1, <3>2, <3>3 DEF InStep
  <2>. QED
    BY <1>1, <2>2, <2>3, <2>4 DEF HonestInv
<1>. QED
  BY <1>1, <1>5, <1>6, <1>7 DEF WireIInv

LEMMA RogueWire ==
    ASSUME WireIInv, NEW h \in Rogue, WriteRogue(h)
    PROVE  WireIInv'
<1>1. /\ ~honest /\ wire' = h
      /\ UNCHANGED <<honest, text, phase, body_length, got>> /\ UNCHANGED vars
  BY DEF WriteRogue, session
<1>2. h \in Seq(Char)
  BY WireAssumption, MessageAssumption
<1>3. WireTypes'
  BY <1>1, <1>2 DEF WireIInv, WireTypes
<1>4. NoClient'
  BY <1>1 DEF WireIInv, NoClient, vars
<1>. QED
  BY <1>1, <1>3, <1>4 DEF WireIInv

LEMMA StutterWire ==
    ASSUME WireIInv, UNCHANGED allVars
    PROVE  WireIInv'
<1>1. UNCHANGED <<honest, text, wire, phase, body_length, got>> /\ UNCHANGED vars
  BY DEF allVars, wireVars
<1>2. WireTypes'
  BY <1>1 DEF WireIInv, WireTypes
<1>3. ASSUME ~honest PROVE NoClient'
  BY <1>1, <1>3 DEF WireIInv, NoClient, vars
<1>4. ASSUME honest PROVE HonestInv'
  <2>1. HonestInv
    BY <1>4 DEF WireIInv
  <2>2. ClientIInv' /\ LinesInOrder' /\ Numbered' /\ Through' = Through /\ conn' = conn
    BY <1>1, <2>1, QuietClient DEF vars
  <2>3. \A s : Taken(s)' = Taken(s)
    BY <1>1 DEF Taken
  <2>. QED
    BY <1>1, <2>1, <2>2, <2>3 DEF HonestInv, Got, InStep
<1>. QED
  BY <1>1, <1>2, <1>3, <1>4 DEF WireIInv

LEMMA NextWire == WireIInv /\ [WireNext]_allVars => WireIInv'
BY TypeWire, WriteWire, WriteSomeWire, AloneWire, HeaderWire, BodyWire, FailsWire,
   TruncatedWire, RogueWire, StutterWire DEF WireNext

LEMMA WireInvariance == WireSpec => []WireIInv
BY InitWire, NextWire, PTL DEF WireSpec
-----------------------------------------------------------------------------
\* Every line typed is sent once and in order, or is still queued or posted:
\* through the hand-over of chat_client::write() to the io thread, the queue and
\* the chain of writes, whatever fails and for however many lines.
THEOREM LinesInOrderCorrect == WireSpec => []LinesInOrder
<1>1. ASSUME NoClient PROVE LinesInOrder
  <2>1. typed = <<>> /\ sent = <<>> /\ write_msgs = <<>> /\ posted = <<>> /\ main = "done"
    BY <1>1 DEF NoClient
  <2>2. PostedLines = <<>>
    BY <2>1 DEF PostedLines
  <2>. QED
    BY <2>1, <2>2 DEF LinesInOrder
<1>2. WireIInv => LinesInOrder
  BY <1>1 DEF WireIInv, HonestInv
<1>. QED
  BY <1>2, WireInvariance, PTL

\* chat_message::decode_header: no header makes the session ask for more bytes
\* than data_ has room for.
THEOREM BodyFitsCorrect == WireSpec => []BodyFits
<1>1. WireIInv => BodyFits
  BY DEF WireIInv, WireTypes, BodyFits
<1>. QED
  BY <1>1, WireInvariance, PTL

\* The read chain of chat_session stays in step with encode_header at the other
\* end: it takes the lines that were typed for messages, and gives up only when
\* the connection has closed.
THEOREM FramingCorrect == WireSpec => []Framing
<1>1. ASSUME WireIInv, honest PROVE IsPrefix(got, text)
  <2>1. /\ text \in Seq(Line) /\ got \in Seq(Seq(Char))
        /\ Len(got) <= Len(text) /\ \A i \in 1 .. Len(got) : got[i] = text[i]
    BY <1>1 DEF WireIInv, WireTypes, HonestInv, Got
  <2>2. Len(got) \in Nat /\ Len(text) \in Nat
    BY <2>1
  <2>3. SubSeq(got, 1, Len(got)) = SubSeq(text, 1, Len(got))
    <3>1. /\ SubSeq(got, 1, Len(got)) = [i \in 1 .. Len(got) |-> got[i]]
          /\ SubSeq(text, 1, Len(got)) = [i \in 1 .. Len(got) |-> text[i]]
      BY <2>1, <2>2
    <3>. QED
      BY <2>1, <3>1
  <2>. QED
    BY <2>1, <2>3 DEF IsPrefix
<1>2. WireIInv => Framing
  BY <1>1 DEF WireIInv, HonestInv, Framing
<1>. QED
  BY <1>2, WireInvariance, PTL
=============================================================================
