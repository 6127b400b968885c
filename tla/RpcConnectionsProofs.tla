------------------------ MODULE RpcConnectionsProofs ------------------------
(* A connection of an RPC session has one user at a time, for any number of  *)
(* threads and connections and any depth of nested calls.                    *)
EXTENDS RpcConnections, TLAPS

USE SMTT(20)

Waits == {"find", "asleep", "woken"}
Holding == {"using", "serving", "adding", "added"}
Frame == [at : Waits, use : Use]
         \cup [at : {"using"}, use : Use, conn : Conn, mReentrant : BOOLEAN]
         \cup [at : {"serving"}, conn : Conn, oneway : BOOLEAN, saved : BOOLEAN]
         \cup [at : {"adding", "added"}, conn : Conn]

Holds(f, c) == f.at \in Holding /\ f.conn = c

(* A frame whose end gives the connection up.                                *)
Releaser(f) == f.at \in {"adding", "added"} \/ (f.at = "using" /\ f.mReentrant = FALSE)

Listed == {mOutgoing[i] : i \in 1..Len(mOutgoing)}

(* The values of the variables; mOutgoing is a prefix of what it will be.    *)
TypeInv ==
  /\ mOutgoing \in Seq(Conn)
  /\ expected \in 0..Len(Outgoing) /\ Len(mOutgoing) <= expected
  /\ \A i \in 1..Len(mOutgoing) : mOutgoing[i] = Outgoing[i]
  /\ mOutgoingOffset \in Nat
  /\ exclusiveTid \in [Conn -> Threads \cup {NoThread}]
  /\ allowNested \in [Conn -> BOOLEAN]
  /\ stack \in [Threads -> Seq(Frame)]

(* Serving threads own their connection for good.  Whoever holds a           *)
(* connection owns it, and of the frames of a thread that hold it the        *)
(* outermost gives it up.                                                    *)
Ownership ==
  /\ \A t \in DOMAIN Serving : exclusiveTid[Serving[t]] = t
  /\ \A t \in Threads : \A i \in 1..Len(stack[t]) :
       stack[t][i].at \in Holding
       => exclusiveTid[stack[t][i].conn] = t /\ stack[t][i].conn \in Listed \cup Incoming
  /\ \A t \in Threads : \A i \in 1..Len(stack[t]) :
       Releaser(stack[t][i]) => /\ stack[t][i].conn \in Listed
                                /\ \A j \in 1..Len(stack[t]) :
                                     Holds(stack[t][j], stack[t][i].conn) => j <= i

(* The stack of a serving thread t: at the bottom is what came in on its     *)
(* connection; twoway, everything twoway above it stays on that connection;  *)
(* oneway, nothing twoway above it does.                                     *)
Bottom(t, twoway, f) == /\ f.at = "serving" /\ f.conn = Serving[t]
                        /\ f.saved = FALSE /\ f.oneway = ~twoway

Fits(t, twoway, f) ==
  /\ f.at \notin {"adding", "added"}
  /\ f.at = "serving" /\ twoway = TRUE => f.conn = Serving[t] /\ f.oneway = FALSE
  /\ f.at = "using" /\ f.use = "CLIENT"
     => IF twoway = TRUE THEN f.conn = Serving[t] ELSE f.conn \notin Incoming

Above(twoway, f) ==
  f.at = "serving" => IF twoway = TRUE THEN f.saved = TRUE ELSE f.conn \notin Incoming

Nesting(t) ==
  /\ Len(stack[t]) = 0 => allowNested[Serving[t]] = FALSE
  /\ Len(stack[t]) > 0 => Bottom(t, allowNested[Serving[t]], stack[t][Len(stack[t])])
  /\ \A i \in 1..Len(stack[t]) :
       /\ Fits(t, allowNested[Serving[t]], stack[t][i])
       /\ i < Len(stack[t]) => Above(allowNested[Serving[t]], stack[t][i])
       /\ stack[t][i].at # "serving" => i < Len(stack[t]) /\ stack[t][i + 1].at = "serving"

Nestings == \A t \in DOMAIN Serving : Nesting(t)

(* The inductive invariant.                                                  *)
IInv == TypeInv /\ Ownership /\ Nestings

----------------------------------------------------------------------------
(* A set of positions has a smallest one; the end of the module proves it    *)
(* from well-founded induction.                                              *)
LeastPosition == \A S \in SUBSET Nat : S # {} => \E x \in S : \A y \in S : x <= y

(* The smallest position of a set is one of it.                              *)
LEMMA MinOfNat ==
    ASSUME LeastPosition, NEW S \in SUBSET Nat, S # {}
    PROVE  MinOf(S) \in S
  BY Zenon DEF LeastPosition, MinOf

(* What a change of one stack does to the positions in it: k frames more.    *)
Moves(t, k) ==
  /\ stack' \in [Threads -> Seq(Frame)]
  /\ \A u \in Threads \ {t} : stack'[u] = stack[u]
  /\ Len(stack'[t]) = Len(stack[t]) + k
  /\ \A i \in 1..Len(stack'[t]) :
       i > 1 \/ k = -1 => i - k \in 1..Len(stack[t]) /\ stack'[t][i] = stack[t][i - k]

LEMMA PushMoves ==
    ASSUME TypeInv, NEW t \in Threads, NEW f \in Frame, Push(t, f)
    PROVE  Moves(t, 1) /\ Len(stack'[t]) > 0 /\ stack'[t][1] = f
<1>1. stack[t] \in Seq(Frame) /\ Len(stack[t]) \in Nat /\ <<f>> \in Seq(Frame)
  BY DEF TypeInv
<1>2. stack'[t] = <<f>> \o stack[t] /\ stack' = [stack EXCEPT ![t] = <<f>> \o stack[t]]
  BY Zenon DEF Push, TypeInv
<1>3. <<f>> \o stack[t] \in Seq(Frame)
  BY <1>1
<1>4. stack' \in [Threads -> Seq(Frame)] /\ \A u \in Threads \ {t} : stack'[u] = stack[u]
  BY Zenon, <1>2, <1>3 DEF TypeInv
<1>5. Len(stack'[t]) = Len(stack[t]) + 1 /\ stack'[t][1] = f
  BY <1>1, <1>2
<1>6. \A i \in 2..Len(stack'[t]) : stack'[t][i] = stack[t][i - 1]
  BY <1>1, <1>2, <1>5
<1> QED
  BY <1>1, <1>4, <1>5, <1>6 DEF Moves

LEMMA PopMoves ==
    ASSUME TypeInv, NEW t \in Threads, stack[t] # <<>>, Pop(t)
    PROVE  Moves(t, -1)
<1>1. stack[t] \in Seq(Frame) /\ Len(stack[t]) \in Nat /\ Len(stack[t]) > 0
  BY DEF TypeInv
<1>2. stack'[t] = Tail(stack[t]) /\ stack' = [stack EXCEPT ![t] = Tail(stack[t])]
  BY Zenon DEF Pop, TypeInv
<1>3. Tail(stack[t]) \in Seq(Frame) /\ Len(Tail(stack[t])) = Len(stack[t]) - 1
      /\ \A i \in 1..Len(Tail(stack[t])) : Tail(stack[t])[i] = stack[t][i + 1]
  BY <1>1
<1>4. stack' \in [Threads -> Seq(Frame)] /\ \A u \in Threads \ {t} : stack'[u] = stack[u]
  BY Zenon, <1>2, <1>3 DEF TypeInv
<1> QED
  BY <1>1, <1>2, <1>3, <1>4 DEF Moves

LEMMA ReplaceMoves ==
    ASSUME TypeInv, NEW t \in Threads, stack[t] # <<>>, NEW f \in Frame, Replace(t, f)
    PROVE  Moves(t, 0) /\ Len(stack'[t]) > 0 /\ stack'[t][1] = f
<1>1. stack[t] \in Seq(Frame) /\ Len(stack[t]) \in Nat /\ Len(stack[t]) > 0 /\ <<f>> \in Seq(Frame)
  BY DEF TypeInv
<1>2. /\ stack'[t] = <<f>> \o Tail(stack[t])
      /\ stack' = [stack EXCEPT ![t] = <<f>> \o Tail(stack[t])]
  BY Zenon DEF Replace, TypeInv
<1>3. Tail(stack[t]) \in Seq(Frame) /\ Len(Tail(stack[t])) = Len(stack[t]) - 1
      /\ \A i \in 1..Len(Tail(stack[t])) : Tail(stack[t])[i] = stack[t][i + 1]
  BY <1>1
<1>4. <<f>> \o Tail(stack[t]) \in Seq(Frame)
  BY <1>1, <1>3
<1>5. stack' \in [Threads -> Seq(Frame)] /\ \A u \in Threads \ {t} : stack'[u] = stack[u]
  BY Zenon, <1>2, <1>4 DEF TypeInv
<1>6. Len(stack'[t]) = Len(stack[t]) /\ stack'[t][1] = f
  BY <1>1, <1>2, <1>3
<1>7. \A i \in 2..Len(stack'[t]) : stack'[t][i] = stack[t][i]
  BY <1>1, <1>2, <1>3, <1>6
<1> QED
  BY <1>1, <1>5, <1>6, <1>7 DEF Moves

(* The frame f may become the top of the stack of t.                         *)
MayTop(t, f) ==
  /\ f.at \in Holding => exclusiveTid'[f.conn] = t /\ f.conn \in Listed' \cup Incoming
  /\ Releaser(f) => /\ f.conn \in Listed'
                    /\ \A j \in 2..Len(stack'[t]) : ~Holds(stack'[t][j], f.conn)

(* A step that moves one stack keeps Ownership when the new top may be there *)
(* and the owners of what the other frames hold stay.                        *)
LEMMA OwnershipKept ==
    ASSUME IInv, NEW t \in Threads, NEW k \in {-1, 0, 1}, Moves(t, k), Listed \subseteq Listed',
           \A u \in DOMAIN Serving : exclusiveTid'[Serving[u]] = u,
           \A u \in Threads : \A i \in 1..Len(stack'[u]) :
             (u # t \/ i > 1 \/ k = -1) /\ stack'[u][i].at \in Holding
             => exclusiveTid'[stack'[u][i].conn] = exclusiveTid[stack'[u][i].conn],
           k = -1 \/ MayTop(t, stack'[t][1])
    PROVE  Ownership'
<1> DEFINE Kept(u, i) == u # t \/ i > 1 \/ k = -1
           from(u, i) == IF u = t THEN i - k ELSE i
<1>0. \A u \in Threads : Len(stack[u]) \in Nat /\ Len(stack'[u]) \in Nat
  BY DEF IInv, TypeInv, Moves
<1>1. \A u \in Threads : \A i \in 1..Len(stack'[u]) :
        Kept(u, i) => from(u, i) \in 1..Len(stack[u]) /\ stack'[u][i] = stack[u][from(u, i)]
  BY Zenon, <1>0 DEF Moves
<1>2. \A u \in Threads : \A i, j \in 1..Len(stack'[u]) : from(u, j) <= from(u, i) <=> j <= i
  BY <1>0
<1>3. \A u \in Threads : \A i \in 1..Len(stack'[u]) : ~Kept(u, i) => u = t /\ i = 1 /\ k # -1
  BY <1>0
<1> HIDE DEF Kept, from
<1>4. \A u \in Threads : \A i \in 1..Len(stack'[u]) :
        Kept(u, i) /\ stack'[u][i].at \in Holding
        => exclusiveTid'[stack'[u][i].conn] = exclusiveTid[stack'[u][i].conn]
  BY Zenon DEF Kept
<1>5. ASSUME NEW u \in Threads, NEW i \in 1..Len(stack'[u]), stack'[u][i].at \in Holding
      PROVE  /\ exclusiveTid'[stack'[u][i].conn] = u
             /\ stack'[u][i].conn \in Listed' \cup Incoming
  <2>1. CASE Kept(u, i)
    BY <1>1, <1>4, <1>5, <2>1 DEF IInv, Ownership
  <2>2. CASE ~Kept(u, i)
    BY Zenon, <1>3, <1>5, <2>2 DEF MayTop
  <2> QED
    BY Zenon, <2>1, <2>2
<1>6. ASSUME NEW u \in Threads, NEW i \in 1..Len(stack'[u]), Releaser(stack'[u][i])
      PROVE  /\ stack'[u][i].conn \in Listed'
             /\ \A j \in 1..Len(stack'[u]) : Holds(stack'[u][j], stack'[u][i].conn) => j <= i
  <2>1. CASE ~Kept(u, i)
    <3>1. u = t /\ i = 1 /\ MayTop(t, stack'[t][1])
      BY Zenon, <1>3, <2>1
    <3> QED
      BY <1>0, <1>6, <3>1 DEF MayTop
  <2>2. CASE Kept(u, i)
    <3>1. stack'[u][i] = stack[u][from(u, i)] /\ from(u, i) \in 1..Len(stack[u])
      BY Zenon, <1>1, <2>2
    <3>2. stack'[u][i].conn \in Listed'
      BY Zenon, <1>6, <3>1 DEF IInv, Ownership
    <3>3. ASSUME NEW j \in 1..Len(stack'[u]), Holds(stack'[u][j], stack'[u][i].conn)
          PROVE  j <= i
      <4>1. CASE Kept(u, j)
        <5>1. stack'[u][j] = stack[u][from(u, j)] /\ from(u, j) \in 1..Len(stack[u])
          BY Zenon, <1>1, <4>1
        <5>2. from(u, j) <= from(u, i)
          BY Zenon, <1>6, <3>1, <3>3, <5>1 DEF IInv, Ownership
        <5> QED
          BY Zenon, <1>2, <5>2
      <4>2. CASE ~Kept(u, j)
        BY <1>0, <1>3, <4>2
      <4> QED
        BY Zenon, <4>1, <4>2
    <3> QED
      BY Zenon, <3>2, <3>3
  <2> QED
    BY Zenon, <2>1, <2>2
<1> QED
  BY Zenon, <1>5, <1>6 DEF Ownership

LEMMA OwnershipUnchanged ==
    ASSUME Ownership, UNCHANGED <<mOutgoing, exclusiveTid, stack>>
    PROVE  Ownership'
<1>1. Listed' = Listed
  BY Zenon DEF Listed
<1>2. exclusiveTid' = exclusiveTid /\ stack' = stack
  BY Zenon
<1> QED
  BY Zenon, <1>1, <1>2 DEF Ownership

LEMMA SameOwners ==
    ASSUME IInv, NEW t \in Threads, NEW k \in {-1, 0, 1}, Moves(t, k),
           UNCHANGED <<mOutgoing, exclusiveTid>>, k = -1 \/ MayTop(t, stack'[t][1])
    PROVE  Ownership'
<1>1. Listed' = Listed
  BY Zenon DEF Listed
<1>2. \A u \in DOMAIN Serving : exclusiveTid'[Serving[u]] = u
  BY Zenon DEF IInv, Ownership
<1> QED
  BY Zenon, <1>1, <1>2, OwnershipKept

(* The stacks and the connections of the other threads.                      *)
LEMMA OthersNest ==
    ASSUME IInv, NEW t \in Threads, NEW k \in {-1, 0, 1}, Moves(t, k),
           \A u \in DOMAIN Serving \ {t} : allowNested'[Serving[u]] = allowNested[Serving[u]]
    PROVE  \A u \in DOMAIN Serving \ {t} : Nesting(u)'
  BY ServingThreads DEF IInv, Nestings, Nesting, Moves

(* The frame f may become the top of the stack of the serving thread t.      *)
NestsTop(t, twoway, f) ==
  /\ Fits(t, twoway, f) /\ Above(twoway, f)
  /\ f.at # "serving" => stack'[t][2].at = "serving"

(* The stack of the thread itself, above its bottom.                         *)
LEMMA NestingKept ==
    ASSUME IInv, NEW t \in DOMAIN Serving, NEW k \in {-1, 0, 1}, Moves(t, k),
           allowNested'[Serving[t]] = allowNested[Serving[t]],
           Len(stack[t]) > 0, k = 1 \/ Len(stack[t]) > 1,
           k = -1 \/ NestsTop(t, allowNested[Serving[t]], stack'[t][1])
    PROVE  Nesting(t)'
<1> DEFINE n == Len(stack[t])
           m == Len(stack'[t])
           two == allowNested[Serving[t]]
<1>0. t \in Threads /\ Nesting(t)
  BY Zenon, ServingThreads DEF IInv, Nestings
<1>1. n \in Nat /\ m \in Nat /\ m = n + k /\ n > 0 /\ m > 0 /\ (k # -1 => m > 1)
  BY <1>0 DEF IInv, TypeInv, Moves
<1>2. \A i \in 1..m : i > 1 \/ k = -1 => i - k \in 1..n /\ stack'[t][i] = stack[t][i - k]
  BY Zenon DEF Moves
<1>3. /\ Bottom(t, two, stack[t][n])
      /\ \A i \in 1..n : /\ Fits(t, two, stack[t][i])
                         /\ i < n => Above(two, stack[t][i])
                         /\ stack[t][i].at # "serving" => i < n /\ stack[t][i + 1].at = "serving"
  BY Zenon, <1>0, <1>1 DEF Nesting
<1>4. k = -1 \/ NestsTop(t, two, stack'[t][1])
  BY Zenon
<1>5. two = allowNested'[Serving[t]]
  BY Zenon
<1> HIDE DEF n, m, two
<1>6. Bottom(t, two, stack'[t][m])
  <2>1. m - k = n /\ m \in 1..m /\ (m > 1 \/ k = -1)
    BY <1>1
  <2> QED
    BY Zenon, <1>2, <1>3, <2>1
<1>7. ASSUME NEW i \in 1..m
      PROVE  /\ Fits(t, two, stack'[t][i])
             /\ i < m => Above(two, stack'[t][i])
             /\ stack'[t][i].at # "serving" => i < m /\ stack'[t][i + 1].at = "serving"
  <2>1. CASE i > 1 \/ k = -1
    <3>1. i - k \in 1..n /\ stack'[t][i] = stack[t][i - k]
      BY Zenon, <1>2, <2>1
    <3>2. i < m => i + 1 \in 1..m /\ i - k < n /\ stack'[t][i + 1] = stack[t][(i - k) + 1]
      BY <1>1, <1>2
    <3>3. i - k < n => i < m
      BY <1>1
    <3> QED
      BY Zenon, <1>3, <3>1, <3>2, <3>3
  <2>2. CASE ~(i > 1 \/ k = -1)
    <3>1. i = 1 /\ NestsTop(t, two, stack'[t][1]) /\ i < m
      BY <1>1, <1>4, <2>2
    <3> QED
      BY <3>1 DEF NestsTop
  <2> QED
    BY Zenon, <2>1, <2>2
<1>8. m = Len(stack'[t])
  BY Zenon DEF m
<1> QED
  BY <1>1, <1>5, <1>6, <1>7, <1>8 DEF Nesting

----------------------------------------------------------------------------
LEMMA InitIInv == Init => IInv
<1> SUFFICES ASSUME Init PROVE IInv
  BY Zenon
<1>1. PICK s \in SetUps : mOutgoing = SubSeq(Outgoing, 1, s[1]) /\ expected = s[2]
  BY Zenon DEF Init
<1>2. s[2] \in 0..Len(Outgoing) /\ s[1] \in 0..s[2]
  BY Zenon, SetUpsInRange
<1>3. Len(Outgoing) \in Nat /\ Outgoing \in Seq(Conn)
  BY OutgoingApart DEF Conn
<1>4. /\ mOutgoing \in Seq(Conn) /\ Len(mOutgoing) = s[1]
      /\ \A i \in 1..Len(mOutgoing) : mOutgoing[i] = Outgoing[i]
  BY <1>1, <1>2, <1>3
<1>5. \A t \in DOMAIN Serving : Serving[t] \in Conn /\ exclusiveTid[Serving[t]] = t
  BY Zenon, ServingThreads DEF Init, Incoming, Conn
<1>6. exclusiveTid \in [Conn -> Threads \cup {NoThread}]
  BY Zenon, ServingThreads DEF Init, Incoming
<1>7. TypeInv
  BY <1>1, <1>2, <1>3, <1>4, <1>6 DEF Init, TypeInv
<1>8. \A t \in Threads : Len(stack[t]) = 0
  BY Zenon DEF Init
<1>9. Ownership
  BY <1>5, <1>8 DEF Ownership
<1>10. Nestings
  <2> SUFFICES ASSUME NEW t \in DOMAIN Serving PROVE Nesting(t)
    BY Zenon DEF Nestings
  <2>1. Len(stack[t]) = 0 /\ allowNested[Serving[t]] = FALSE
    BY Zenon, <1>5, <1>8, ServingThreads DEF Init
  <2> QED
    BY <2>1 DEF Nesting
<1> QED
  BY Zenon, <1>7, <1>9, <1>10 DEF IInv

(* The connection that find settles on is the one the thread serves, one it  *)
(* has already, or a free one.                                               *)
LEMMA ChosenSound ==
    ASSUME LeastPosition, IInv, NEW t \in Threads, NEW use \in Use, NEW c \in Chosen(t, use)
    PROVE  /\ c.conn \in Conn /\ c.reentrant \in BOOLEAN
           /\ \/ /\ t \in DOMAIN Serving /\ c.conn = Serving[t] /\ c.reentrant = TRUE
                 /\ use = "CLIENT" => allowNested[Serving[t]] = TRUE
              \/ /\ c.conn \in Listed
                 /\ \/ c.reentrant = TRUE /\ exclusiveTid[c.conn] = t
                    \/ c.reentrant = FALSE /\ exclusiveTid[c.conn] = NoThread
                 /\ t \in DOMAIN Serving /\ use = "CLIENT" => allowNested[Serving[t]] = FALSE
<1>1. Size \in Nat /\ \A i \in 0..(Size - 1) : Slot(i) \in Listed
  <2>1. Size \in Nat /\ mOutgoingOffset \in Nat
    BY DEF IInv, TypeInv, Size
  <2>2. \A i \in 0..(Size - 1) : ((i + mOutgoingOffset) % Size) + 1 \in 1..Size
    BY <2>1
  <2>3. ASSUME NEW i \in 0..(Size - 1) PROVE Slot(i) \in Listed
    <3>1. ((i + mOutgoingOffset) % Size) + 1 \in 1..Len(mOutgoing)
      BY Zenon, <2>2 DEF Size
    <3> QED
      BY <3>1, Zenon DEF Slot, Listed
  <2> QED
    BY Zenon, <2>1, <2>3
<1>2. Listed \subseteq Conn
  BY DEF Listed, IInv, TypeInv
<1>3. /\ Owned(t) # {} => MinOf(Owned(t)) \in Owned(t)
      /\ Free(t) # {} => MinOf(Free(t)) \in Free(t)
  <2>1. Owned(t) \in SUBSET Nat /\ Free(t) \in SUBSET Nat
    BY <1>1 DEF Owned, Free
  <2> QED
    BY Zenon, <2>1, MinOfNat
<1>4. t \in DOMAIN Serving => allowNested[Serving[t]] \in BOOLEAN /\ Serving[t] \in Conn
  BY Zenon DEF IInv, TypeInv, Conn, Incoming
<1> DEFINE nested == t \in DOMAIN Serving /\ use # "CLIENT_ASYNC"
                       /\ \/ allowNested[Serving[t]]
                          \/ use = "CLIENT_REFCOUNT" /\ Free(t) = {}
<1>5. CASE nested
  <2>1. c = [conn |-> Serving[t], reentrant |-> TRUE]
    BY Zenon, <1>5 DEF Chosen
  <2> QED
    BY Zenon, <1>4, <1>5, <2>1
<1>6. CASE ~nested /\ Owned(t) # {}
  <2>1. c = [conn |-> Slot(MinOf(Owned(t))), reentrant |-> TRUE]
    BY Zenon, <1>6 DEF Chosen
  <2>2. Slot(MinOf(Owned(t))) \in Listed /\ exclusiveTid[Slot(MinOf(Owned(t)))] = t
    BY Zenon, <1>1, <1>3, <1>6 DEF Owned
  <2> QED
    BY Zenon, <1>2, <1>4, <1>6, <2>1, <2>2
<1>7. CASE ~nested /\ Owned(t) = {}
  <2>1. Free(t) # {} /\ c = [conn |-> Slot(MinOf(Free(t))), reentrant |-> FALSE]
    BY Zenon, <1>7 DEF Chosen
  <2>2. Slot(MinOf(Free(t))) \in Listed /\ exclusiveTid[Slot(MinOf(Free(t)))] = NoThread
    BY Zenon, <1>1, <1>3, <2>1 DEF Free
  <2> QED
    BY Zenon, <1>2, <1>4, <1>7, <2>1, <2>2
<1> QED
  BY <1>5, <1>6, <1>7, Zenon

(* The top of a stack that is at some place.                                 *)
LEMMA TopOf ==
    ASSUME IInv, NEW t \in Threads, NEW where, At(t, where)
    PROVE  /\ stack[t] # <<>> /\ stack[t] \in Seq(Frame) /\ Len(stack[t]) \in Nat /\ Len(stack[t]) > 0
           /\ Top(t) = stack[t][1] /\ Top(t) \in Frame /\ Top(t).at = where
<1>1. stack[t] # <<>> /\ stack[t] \in Seq(Frame) /\ Top(t).at = where
  BY Zenon DEF At, IInv, TypeInv
<1>2. Len(stack[t]) \in Nat /\ Len(stack[t]) > 0 /\ Head(stack[t]) = stack[t][1]
  BY <1>1
<1>3. stack[t][1] \in Frame
  BY <1>1, <1>2
<1> QED
  BY Zenon, <1>1, <1>2, <1>3 DEF Top

(* A connection that nobody else may change: who serves it owns it.          *)
LEMMA IncomingOwner ==
    ASSUME IInv, NEW t \in Threads, NEW c \in Incoming, exclusiveTid[c] = t
    PROVE  t \in DOMAIN Serving /\ c = Serving[t]
  BY DEF IInv, Ownership, Incoming

(* A thread that waits has something it serves below.                        *)
LEMMA BelowWait ==
    ASSUME IInv, NEW t \in DOMAIN Serving, Len(stack[t]) > 0, stack[t][1].at # "serving"
    PROVE  Len(stack[t]) > 1 /\ stack[t][2].at = "serving"
<1>1. t \in Threads /\ Nesting(t)
  BY Zenon, ServingThreads DEF IInv, Nestings
<1>2. Len(stack[t]) \in Nat /\ 1 \in 1..Len(stack[t])
  BY <1>1 DEF IInv, TypeInv
<1> QED
  BY <1>1, <1>2 DEF Nesting

(* A thread replaces the way it waits.                                       *)
LEMMA WaitStep ==
    ASSUME IInv, NEW t \in Threads, Len(stack[t]) > 0, stack[t][1].at # "serving", Moves(t, 0),
           stack'[t][1].at \in Waits, mOutgoingOffset' \in Nat,
           UNCHANGED <<mOutgoing, expected, exclusiveTid, allowNested>>
    PROVE  IInv'
<1>1. TypeInv'
  BY Zenon DEF IInv, TypeInv, Moves
<1>2. Ownership'
  <2>1. MayTop(t, stack'[t][1])
    BY Zenon DEF MayTop, Holding, Releaser, Waits
  <2> QED
    BY Zenon, <2>1, SameOwners
<1>3. ASSUME t \in DOMAIN Serving PROVE Nesting(t)'
  <2>1. Len(stack[t]) > 1 /\ stack[t][2].at = "serving"
    BY Zenon, <1>3, BelowWait
  <2>2. stack'[t][2] = stack[t][2]
    BY <2>1 DEF Moves, IInv, TypeInv
  <2>3. NestsTop(t, allowNested[Serving[t]], stack'[t][1])
    BY Zenon, <2>1, <2>2 DEF Fits, Above, NestsTop, Waits
  <2> QED
    BY Zenon, <1>3, <2>1, <2>3, NestingKept
<1>4. Nestings'
  BY Zenon, <1>3, OthersNest DEF Nestings
<1> QED
  BY Zenon, <1>1, <1>2, <1>4 DEF IInv

(* A thread wants a connection.                                              *)
LEMMA BeginStep ==
    ASSUME IInv, NEW t \in Threads, NEW use \in Use, Begin(t, use)
    PROVE  IInv'
<1> DEFINE f == Finding(use)
<1>1. f \in Frame /\ f.at = "find"
  BY Zenon DEF Finding, Frame, Waits
<1>2. Push(t, f) /\ UNCHANGED <<mOutgoing, expected, mOutgoingOffset, exclusiveTid, allowNested>>
  BY Zenon DEF Begin
<1> HIDE DEF f
<1>3. Moves(t, 1) /\ Len(stack'[t]) > 0 /\ stack'[t][1] = f
  BY Zenon, <1>1, <1>2, PushMoves DEF IInv
<1>4. TypeInv'
  BY Zenon, <1>2, <1>3 DEF IInv, TypeInv, Moves
<1>5. Ownership'
  <2>1. MayTop(t, f)
    BY Zenon, <1>1 DEF MayTop, Holding, Releaser
  <2> QED
    BY Zenon, <1>2, <1>3, <2>1, SameOwners
<1>6. ASSUME t \in DOMAIN Serving PROVE Nesting(t)'
  <2>1. At(t, "serving")
    BY Zenon, <1>6 DEF Begin
  <2>2. stack[t][1].at = "serving" /\ Len(stack[t]) \in Nat /\ Len(stack[t]) > 0
    BY Zenon, <2>1, TopOf
  <2>3. stack'[t][2] = stack[t][1]
    BY <1>3, <2>2 DEF Moves
  <2>4. NestsTop(t, allowNested[Serving[t]], stack'[t][1])
    BY Zenon, <1>1, <1>3, <2>2, <2>3 DEF Fits, Above, NestsTop
  <2> QED
    <3>1. allowNested'[Serving[t]] = allowNested[Serving[t]]
      BY Zenon, <1>2
    <3> QED
      BY Zenon, <1>3, <1>6, <2>2, <2>4, <3>1, NestingKept
<1>7. Nestings'
  BY Zenon, <1>2, <1>3, <1>6, OthersNest DEF Nestings
<1> QED
  BY Zenon, <1>4, <1>5, <1>7 DEF IInv

(* The frames that a step keeps, and what they hold.                         *)
LEMMA KeptFrames ==
    ASSUME IInv, NEW t \in Threads, NEW k \in {-1, 0, 1}, Moves(t, k)
    PROVE  \A u \in Threads : \A i \in 1..Len(stack'[u]) :
             (u # t \/ i > 1 \/ k = -1) /\ stack'[u][i].at \in Holding
             => /\ exclusiveTid[stack'[u][i].conn] = u
                /\ stack'[u][i].conn \in Listed \cup Incoming
<1> SUFFICES ASSUME NEW u \in Threads, NEW i \in 1..Len(stack'[u]), u # t \/ i > 1 \/ k = -1,
                    stack'[u][i].at \in Holding
             PROVE  /\ exclusiveTid[stack'[u][i].conn] = u
                    /\ stack'[u][i].conn \in Listed \cup Incoming
  BY Zenon
<1>1. PICK j \in 1..Len(stack[u]) : stack'[u][i] = stack[u][j]
  BY Zenon DEF Moves
<1> QED
  BY <1>1 DEF IInv, Ownership

(* A frame that holds a connection holds one of the session's.               *)
LEMMA FrameConn ==
    ASSUME NEW s \in Seq(Frame), NEW i \in 1..Len(s), s[i].at \in Holding
    PROVE  s[i].conn \in Conn
<1>1. s[i] \in Frame
  OBVIOUS
<1> QED
  BY Zenon, <1>1 DEF Frame, Holding, Waits

LEMMA ListedOutgoing ==
    ASSUME IInv
    PROVE  Listed \subseteq Conn /\ \A t \in DOMAIN Serving : Serving[t] \notin Listed
<1>1. Listed \subseteq Seq2Set(Outgoing)
  <2>1. \A i \in 1..Len(mOutgoing) : i \in DOMAIN Outgoing /\ mOutgoing[i] = Outgoing[i]
    BY OutgoingApart DEF IInv, TypeInv
  <2> QED
    BY Zenon, <2>1 DEF Listed, Seq2Set
<1> QED
  BY Zenon, <1>1, OutgoingApart DEF Conn, Incoming

LEMMA NextOffsetNat ==
    ASSUME IInv, NEW t \in Threads, NEW use \in Use
    PROVE  NextOffset(t, use) \in Nat
<1>1. Size \in Nat /\ mOutgoingOffset \in Nat
  BY DEF IInv, TypeInv, Size
<1>2. Owned(t) \cup Free(t) # {} => Size > 0
  BY <1>1 DEF Owned, Free
<1>3. Size > 0 => (mOutgoingOffset + 1) % Size \in Nat
  BY <1>1
<1> QED
  BY Zenon, <1>1, <1>2, <1>3 DEF NextOffset

(* A pass of find: the connection is taken, the thread goes to sleep, or the *)
(* call fails.                                                               *)
LEMMA FindStep ==
    ASSUME LeastPosition, IInv, NEW t \in Threads, NEW where \in {"find", "woken"}, At(t, where), NEW waiting,
           FindPass(t, Top(t).use, waiting)
    PROVE  IInv'
<1> DEFINE use == Top(t).use
<1>1. /\ stack[t] # <<>> /\ Len(stack[t]) \in Nat /\ Len(stack[t]) > 0
      /\ stack[t][1] = Top(t) /\ Top(t) \in Frame /\ Top(t).at = where
  BY Zenon, TopOf
<1>2. Top(t) \in [at : Waits, use : Use] /\ use \in Use
  BY Zenon, <1>1 DEF Frame, Waits
<1>3. mOutgoingOffset' \in Nat /\ UNCHANGED <<mOutgoing, expected, allowNested>>
  BY Zenon, <1>2, NextOffsetNat DEF FindPass
<1>4. t \in DOMAIN Serving => Len(stack[t]) > 1 /\ stack[t][2].at = "serving"
  BY Zenon, <1>1, BelowWait
<1>5. TypeInv /\ Listed' = Listed
  BY Zenon, <1>3 DEF IInv, Listed
<1>6. CASE \E c \in Chosen(t, use) :
             /\ Replace(t, Using(use, c.conn, c.reentrant))
             /\ exclusiveTid' = [exclusiveTid EXCEPT ![c.conn] = t]
  <2>1. PICK c \in Chosen(t, use) : /\ Replace(t, Using(use, c.conn, c.reentrant))
                                    /\ exclusiveTid' = [exclusiveTid EXCEPT ![c.conn] = t]
    BY <1>6, Zenon
  <2> DEFINE f == Using(use, c.conn, c.reentrant)
             free == c.reentrant = FALSE /\ exclusiveTid[c.conn] = NoThread
             own == c.reentrant = TRUE /\ exclusiveTid[c.conn] = t
  <2>2. c.conn \in Conn /\ c.reentrant \in BOOLEAN
    BY <1>2, ChosenSound, Zenon
  <2>3. \/ t \in DOMAIN Serving /\ c.conn = Serving[t] /\ own
        \/ c.conn \in Listed /\ (own \/ free)
    <3>1. t \in DOMAIN Serving => exclusiveTid[Serving[t]] = t
      BY Zenon DEF IInv, Ownership
    <3> QED
      BY <1>2, <3>1, ChosenSound, Zenon
  <2>4. t \in DOMAIN Serving /\ use = "CLIENT"
        => IF allowNested[Serving[t]] = TRUE THEN c.conn = Serving[t] ELSE c.conn \notin Incoming
    <3>1. t \in DOMAIN Serving /\ use = "CLIENT"
          => \/ c.conn = Serving[t] /\ allowNested[Serving[t]] = TRUE
             \/ c.conn \in Listed /\ allowNested[Serving[t]] = FALSE
      BY <1>2, ChosenSound, Zenon
    <3>2. c.conn \in Listed => c.conn \notin Incoming
      BY ListedOutgoing, Zenon DEF Incoming
    <3> QED
      BY <3>1, <3>2, Zenon
  <2>5. f \in Frame /\ f.at = "using" /\ f.use = use /\ f.conn = c.conn /\ f.mReentrant = c.reentrant
    BY Zenon, <1>2, <2>2 DEF Using, Frame
  <2> HIDE DEF f, use
  <2>6. Moves(t, 0) /\ stack'[t][1] = f
    BY Zenon, <1>1, <1>5, <2>1, <2>5, ReplaceMoves DEF f
  <2>7. TypeInv'
    BY <1>3, <1>5, <2>1, <2>6, Zenon DEF TypeInv, Moves
  <2>8. /\ exclusiveTid'[c.conn] = t
        /\ \A d \in Conn : (d = c.conn /\ free) \/ exclusiveTid'[d] = exclusiveTid[d]
    BY Zenon, <1>5, <2>1, <2>2, <2>3 DEF TypeInv
  <2>9. \A u \in DOMAIN Serving : exclusiveTid'[Serving[u]] = u
    BY <2>3, <2>8, ListedOutgoing, NoThreadIsNone, ServingThreads DEF IInv, Ownership, Conn, Incoming
  <2> HIDE DEF free
  <2>10. free => exclusiveTid[c.conn] = NoThread
    BY Zenon DEF free
  <2>11. \A u \in Threads : \A i \in 1..Len(stack'[u]) :
           (u # t \/ i > 1 \/ 0 = -1) /\ stack'[u][i].at \in Holding
           => /\ stack'[u][i].conn \in Conn /\ ~(stack'[u][i].conn = c.conn /\ free)
              /\ exclusiveTid'[stack'[u][i].conn] = exclusiveTid[stack'[u][i].conn]
    <3> SUFFICES ASSUME NEW u \in Threads, NEW i \in 1..Len(stack'[u]),
                        u # t \/ i > 1 \/ 0 = -1, stack'[u][i].at \in Holding
                 PROVE  /\ stack'[u][i].conn \in Conn /\ ~(stack'[u][i].conn = c.conn /\ free)
                        /\ exclusiveTid'[stack'[u][i].conn] = exclusiveTid[stack'[u][i].conn]
      BY Zenon
    <3>1. exclusiveTid[stack'[u][i].conn] = u
      BY <2>6, KeptFrames
    <3>2. stack'[u][i].conn \in Conn
      BY Zenon, <2>6, FrameConn DEF Moves
    <3> QED
      BY Zenon, <2>8, <2>10, <3>1, <3>2, NoThreadIsNone
  <2>12. MayTop(t, stack'[t][1])
    <3>1. stack'[t][1].conn \in Listed' \cup Incoming
      BY Zenon, <1>5, <2>3, <2>5, <2>6 DEF Incoming
    <3>2. ASSUME Releaser(f)
          PROVE  f.conn \in Listed' /\ \A j \in 2..Len(stack'[t]) : ~Holds(stack'[t][j], f.conn)
      <4>1. c.conn \in Listed /\ free
        BY Zenon, <2>3, <2>5, <3>2 DEF Releaser, free
      <4>2. \A j \in 2..Len(stack'[t]) : j \in 1..Len(stack'[t]) /\ j > 1
        OBVIOUS
      <4> QED
        BY Zenon, <1>5, <2>5, <2>11, <4>1, <4>2 DEF Holds
    <3> QED
      BY Zenon, <2>5, <2>6, <2>8, <3>1, <3>2 DEF MayTop
  <2>13. Ownership'
    BY Zenon, <1>5, <2>6, <2>9, <2>11, <2>12, OwnershipKept
  <2>14. ASSUME t \in DOMAIN Serving PROVE Nesting(t)'
    <3>1. stack'[t][2] = stack[t][2]
      BY <1>1, <1>4, <2>6, <2>14 DEF Moves
    <3>2. NestsTop(t, allowNested[Serving[t]], stack'[t][1])
      BY Zenon, <1>4, <2>4, <2>5, <2>6, <2>14, <3>1 DEF Fits, Above, NestsTop
    <3>3. allowNested'[Serving[t]] = allowNested[Serving[t]]
      BY Zenon, <1>3
    <3> QED
      BY Zenon, <1>1, <1>4, <2>6, <2>14, <3>2, <3>3, NestingKept
  <2>15. Nestings'
    BY Zenon, <1>3, <2>6, <2>14, OthersNest DEF Nestings
  <2> QED
    BY Zenon, <2>7, <2>13, <2>15 DEF IInv
<1>7. CASE Pop(t) /\ UNCHANGED exclusiveTid
  <2>1. Moves(t, -1)
    BY Zenon, <1>1, <1>5, <1>7, PopMoves
  <2>2. TypeInv'
    BY Zenon, <1>3, <1>5, <1>7, <2>1 DEF TypeInv, Moves
  <2>3. Ownership'
    BY Zenon, <1>3, <1>7, <2>1, SameOwners
  <2>4. t \in DOMAIN Serving => Nesting(t)'
    BY Zenon, <1>1, <1>3, <1>4, <2>1, NestingKept
  <2>5. Nestings'
    BY Zenon, <1>3, <2>1, <2>4, OthersNest DEF Nestings
  <2> QED
    BY Zenon, <2>2, <2>3, <2>5 DEF IInv
<1>8. CASE Replace(t, [Top(t) EXCEPT !.at = "asleep"]) /\ UNCHANGED exclusiveTid
  <2> DEFINE f == [Top(t) EXCEPT !.at = "asleep"]
  <2>1. f \in Frame /\ f.at = "asleep"
    BY Zenon, <1>2 DEF Frame, Waits
  <2> HIDE DEF f
  <2>2. Moves(t, 0) /\ stack'[t][1] = f
    BY Zenon, <1>1, <1>5, <1>8, <2>1, ReplaceMoves DEF f
  <2>3. stack[t][1].at # "serving" /\ stack'[t][1].at \in Waits
    BY Zenon, <1>1, <2>1, <2>2 DEF Waits
  <2> QED
    BY Zenon, <1>1, <1>3, <1>8, <2>2, <2>3, WaitStep
<1> QED
  BY Zenon, <1>6, <1>7, <1>8 DEF FindPass

(* A transaction is served on the connection that the thread owns.           *)
LEMMA ServeStep ==
    ASSUME IInv, NEW t \in Threads, NEW oneway \in BOOLEAN, Serve(t, oneway)
    PROVE  IInv'
<1>1. PICK c \in Conn :
        /\ \/ stack[t] = <<>> /\ t \in DOMAIN Serving /\ c = Serving[t]
           \/ At(t, "using") /\ Top(t).use = "CLIENT" /\ c = Top(t).conn /\ ~oneway
        /\ Push(t, Serves(c, oneway, allowNested[c]))
        /\ allowNested' = [allowNested EXCEPT ![c] = Nests(oneway)]
  BY Zenon DEF Serve
<1>2. UNCHANGED <<mOutgoing, expected, mOutgoingOffset, exclusiveTid>>
  BY Zenon DEF Serve
<1> DEFINE f == Serves(c, oneway, allowNested[c])
           empty == stack[t] = <<>> /\ t \in DOMAIN Serving /\ c = Serving[t]
           nested == /\ Len(stack[t]) \in Nat /\ Len(stack[t]) > 0 /\ stack[t][1].at = "using"
                     /\ stack[t][1].use = "CLIENT" /\ c = stack[t][1].conn /\ oneway = FALSE
<1>3. empty \/ nested
  BY <1>1, TopOf
<1>4. allowNested[c] \in BOOLEAN /\ allowNested \in [Conn -> BOOLEAN]
  BY Zenon DEF IInv, TypeInv
<1>5. /\ f \in Frame /\ f.at = "serving" /\ f.conn = c /\ f.oneway = oneway
      /\ f.saved = allowNested[c]
  BY Zenon, <1>4 DEF Serves, Frame
<1> HIDE DEF f
<1>6. Moves(t, 1) /\ stack'[t][1] = f
  BY Zenon, <1>1, <1>5, PushMoves DEF IInv, f
<1>7. allowNested' \in [Conn -> BOOLEAN] /\ allowNested'[c] = ~oneway
      /\ \A d \in Conn \ {c} : allowNested'[d] = allowNested[d]
  BY Zenon, <1>1, <1>4 DEF Nests
<1>8. TypeInv'
  BY <1>2, <1>6, <1>7, Zenon DEF IInv, TypeInv, Moves
<1>9. exclusiveTid[c] = t /\ c \in Listed \cup Incoming
  BY <1>3 DEF IInv, Ownership, Holding, Incoming
<1>10. Ownership'
  <2>1. MayTop(t, stack'[t][1])
    BY Zenon, <1>2, <1>5, <1>6, <1>9 DEF MayTop, Releaser, Listed
  <2> QED
    BY Zenon, <1>2, <1>6, <2>1, SameOwners
<1>11. \A u \in DOMAIN Serving \ {t} : allowNested'[Serving[u]] = allowNested[Serving[u]]
  <2>1. \A u \in DOMAIN Serving \ {t} : Serving[u] # c /\ Serving[u] \in Conn
    BY Zenon, <1>9 DEF IInv, Ownership, Conn, Incoming
  <2> QED
    BY Zenon, <1>7, <2>1
<1>12. ASSUME t \in DOMAIN Serving PROVE Nesting(t)'
  <2>1. Nesting(t) /\ Serving[t] \in Conn
    BY Zenon, <1>12 DEF IInv, Nestings, Conn, Incoming
  <2>2. CASE empty
    <3>1. Len(stack[t]) = 0 /\ allowNested[c] = FALSE
      BY Zenon, <2>1, <2>2 DEF Nesting
    <3>2. Len(stack'[t]) = 1
      BY <1>6, <3>1 DEF Moves
    <3>3. Bottom(t, allowNested'[Serving[t]], f) /\ Fits(t, allowNested'[Serving[t]], f)
      BY Zenon, <1>5, <1>7, <2>2, <3>1 DEF Bottom, Fits
    <3> QED
      BY <1>5, <1>6, <3>2, <3>3 DEF Nesting
  <2>3. CASE nested
    <3>0. 1 \in 1..Len(stack[t])
      BY <2>3
    <3>1. Fits(t, allowNested[Serving[t]], stack[t][1])
      BY Zenon, <2>1, <3>0 DEF Nesting
    <3>2. IF allowNested[Serving[t]] = TRUE THEN c = Serving[t] ELSE c \notin Incoming
      BY Zenon, <2>3, <3>1 DEF Fits
    <3>3. allowNested'[Serving[t]] = allowNested[Serving[t]]
      BY <1>7, <1>12, <2>1, <2>3, <3>2, Zenon DEF Incoming
    <3>4. NestsTop(t, allowNested[Serving[t]], stack'[t][1])
      BY Zenon, <1>5, <1>6, <2>3, <3>2 DEF NestsTop, Fits, Above
    <3> QED
      BY Zenon, <1>6, <1>12, <2>3, <3>3, <3>4, NestingKept
  <2> QED
    BY <1>3, <2>2, <2>3, Zenon
<1>13. Nestings'
  BY Zenon, <1>6, <1>11, <1>12, OthersNest DEF Nestings
<1> QED
  BY Zenon, <1>8, <1>10, <1>13 DEF IInv

(* Serving ends, and allowNested is what it was before.                      *)
LEMMA EndServeStep ==
    ASSUME IInv, NEW t \in Threads, EndServe(t)
    PROVE  IInv'
<1> DEFINE f == stack[t][1]
<1>1. /\ stack[t] # <<>> /\ Len(stack[t]) \in Nat /\ Len(stack[t]) > 0
      /\ f = Top(t) /\ f \in Frame /\ f.at = "serving"
  BY TopOf DEF EndServe
<1>2. f.conn \in Conn /\ f.saved \in BOOLEAN
  BY Zenon, <1>1 DEF Frame, Waits
<1>3. /\ UNCHANGED <<mOutgoing, expected, mOutgoingOffset, exclusiveTid>> /\ Pop(t)
      /\ allowNested' = [allowNested EXCEPT ![f.conn] = f.saved]
  BY Zenon, <1>1 DEF EndServe
<1>4. Moves(t, -1)
  BY Zenon, <1>1, <1>3, PopMoves DEF IInv
<1>5. exclusiveTid[f.conn] = t
  BY <1>1 DEF IInv, Ownership, Holding
<1>6. allowNested' \in [Conn -> BOOLEAN] /\ allowNested'[f.conn] = f.saved
      /\ \A d \in Conn \ {f.conn} : allowNested'[d] = allowNested[d]
  BY Zenon, <1>2, <1>3 DEF IInv, TypeInv
<1>7. TypeInv'
  BY Zenon, <1>3, <1>4, <1>6 DEF IInv, TypeInv, Moves
<1>8. Ownership'
  BY Zenon, <1>3, <1>4, SameOwners
<1>9. \A u \in DOMAIN Serving \ {t} : allowNested'[Serving[u]] = allowNested[Serving[u]]
  <2>1. \A u \in DOMAIN Serving \ {t} : Serving[u] # f.conn /\ Serving[u] \in Conn
    BY Zenon, <1>5 DEF IInv, Ownership, Conn, Incoming
  <2> QED
    BY Zenon, <1>6, <2>1
<1>10. ASSUME t \in DOMAIN Serving PROVE Nesting(t)'
  <2>1. Nesting(t) /\ Serving[t] \in Conn
    BY Zenon, <1>10 DEF IInv, Nestings, Conn, Incoming
  <2>2. CASE Len(stack[t]) = 1
    <3>1. Bottom(t, allowNested[Serving[t]], f)
      BY <2>1, <2>2 DEF Nesting
    <3>2. allowNested'[Serving[t]] = FALSE
      BY Zenon, <1>6, <3>1 DEF Bottom
    <3>3. Len(stack'[t]) = 0
      BY <1>4, <2>2 DEF Moves
    <3> QED
      BY <3>2, <3>3 DEF Nesting
  <2>3. CASE Len(stack[t]) > 1
    <3>1. Fits(t, allowNested[Serving[t]], f) /\ Above(allowNested[Serving[t]], f)
      BY <1>1, <2>1, <2>3 DEF Nesting
    <3>2. allowNested[Serving[t]] \in BOOLEAN
      BY Zenon, <2>1 DEF IInv, TypeInv
    <3>3. allowNested'[Serving[t]] = allowNested[Serving[t]]
      BY Zenon, <1>1, <1>6, <1>10, <2>1, <3>1, <3>2 DEF Fits, Above, Incoming
    <3> QED
      BY Zenon, <1>1, <1>4, <1>10, <2>3, <3>3, NestingKept
  <2>4. Len(stack[t]) \in Nat /\ Len(stack[t]) > 0
    BY Zenon, <1>1
  <2>5. \A n \in Nat : n > 0 => n = 1 \/ n > 1
    OBVIOUS
  <2> QED
    BY <2>2, <2>3, <2>4, <2>5, Zenon
<1>11. Nestings'
  BY Zenon, <1>4, <1>9, <1>10, OthersNest DEF Nestings
<1> QED
  BY Zenon, <1>7, <1>8, <1>11 DEF IInv

(* A connection is given up: nothing else in the session holds it.           *)
LEMMA ReleaseStep ==
    ASSUME IInv, NEW t \in Threads, stack[t] # <<>>, Releaser(stack[t][1]), Pop(t),
           exclusiveTid' = [exclusiveTid EXCEPT ![stack[t][1].conn] = NoThread],
           UNCHANGED <<mOutgoing, expected, mOutgoingOffset, allowNested>>
    PROVE  IInv'
<1> DEFINE c == stack[t][1].conn
<1>1. stack[t] \in Seq(Frame) /\ Len(stack[t]) \in Nat /\ Len(stack[t]) > 0 /\ 1 \in 1..Len(stack[t])
  BY DEF IInv, TypeInv
<1>2. /\ stack[t][1].at \in Holding /\ stack[t][1].at # "serving"
      /\ c \in Listed /\ exclusiveTid[c] = t
      /\ \A j \in 1..Len(stack[t]) : Holds(stack[t][j], c) => j <= 1
  BY Zenon, <1>1 DEF IInv, Ownership, Releaser, Holding
<1>3. c \in Conn
  BY Zenon, <1>2, ListedOutgoing
<1>4. Moves(t, -1)
  BY Zenon, PopMoves DEF IInv
<1> HIDE DEF c
<1>5. /\ exclusiveTid' \in [Conn -> Threads \cup {NoThread}]
      /\ \A d \in Conn \ {c} : exclusiveTid'[d] = exclusiveTid[d]
  BY Zenon, <1>3 DEF IInv, TypeInv, c
<1>6. TypeInv'
  BY Zenon, <1>4, <1>5 DEF IInv, TypeInv, Moves
<1>7. \A u \in DOMAIN Serving : exclusiveTid'[Serving[u]] = u
  <2>1. \A u \in DOMAIN Serving : Serving[u] # c /\ Serving[u] \in Conn
    BY Zenon, <1>2, ListedOutgoing DEF Conn, Incoming
  <2> QED
    BY Zenon, <1>5, <2>1 DEF IInv, Ownership
<1>8. ASSUME NEW u \in Threads, NEW i \in 1..Len(stack'[u]), stack'[u][i].at \in Holding
      PROVE  exclusiveTid'[stack'[u][i].conn] = exclusiveTid[stack'[u][i].conn]
  <2>1. exclusiveTid[stack'[u][i].conn] = u
    BY <1>4, <1>8, KeptFrames
  <2>2. stack'[u][i].conn \in Conn
    BY Zenon, <1>4, <1>8, FrameConn DEF Moves
  <2>3. u = t => stack'[u][i].conn # c
    <3> SUFFICES ASSUME u = t PROVE stack'[t][i].conn # c
      BY Zenon
    <3>1. i - (-1) \in 1..Len(stack[t]) /\ stack'[t][i] = stack[t][i - (-1)]
      BY Zenon, <1>4 DEF Moves
    <3>2. ~(i - (-1) <= 1)
      OBVIOUS
    <3> QED
      BY Zenon, <1>2, <1>8, <3>1, <3>2 DEF Holds
  <2>4. stack'[u][i].conn # c
    BY Zenon, <1>2, <2>1, <2>3
  <2> QED
    BY Zenon, <1>5, <2>2, <2>4
<1>9. Ownership'
  <2>1. Listed' = Listed
    BY Zenon DEF Listed
  <2> QED
    BY <1>4, <1>7, <1>8, <2>1, OwnershipKept
<1>10. t \in DOMAIN Serving => Nesting(t)'
  BY Zenon, <1>1, <1>2, <1>4, BelowWait, NestingKept
<1>11. Nestings'
  BY Zenon, <1>4, <1>10, OthersNest DEF Nestings
<1> QED
  BY Zenon, <1>6, <1>9, <1>11 DEF IInv

(* ~ExclusiveConnection.                                                     *)
LEMMA FinishStep ==
    ASSUME IInv, NEW t \in Threads, Finish(t)
    PROVE  IInv'
<1>1. /\ stack[t] # <<>> /\ Len(stack[t]) \in Nat /\ Len(stack[t]) > 0
      /\ Top(t) = stack[t][1] /\ Top(t) \in Frame /\ Top(t).at = "using"
  BY Zenon, TopOf DEF Finish
<1>2. Pop(t) /\ UNCHANGED <<mOutgoing, expected, mOutgoingOffset, allowNested>>
  BY Zenon DEF Finish
<1>3. Top(t).mReentrant \in BOOLEAN
  BY Zenon, <1>1 DEF Frame, Waits
<1>4. CASE Releases(t)
  <2>1. Releaser(stack[t][1])
    BY Zenon, <1>1, <1>3, <1>4 DEF Releases, Releaser
  <2>2. exclusiveTid' = [exclusiveTid EXCEPT ![stack[t][1].conn] = NoThread]
    BY Zenon, <1>1, <1>4 DEF Finish
  <2> QED
    BY <1>1, <1>2, <2>1, <2>2, ReleaseStep, Zenon
<1>5. CASE ~Releases(t)
  <2>1. UNCHANGED exclusiveTid
    BY Zenon, <1>5 DEF Finish
  <2>2. Moves(t, -1)
    BY Zenon, <1>1, <1>2, PopMoves DEF IInv
  <2>3. TypeInv'
    BY Zenon, <1>2, <2>1, <2>2 DEF IInv, TypeInv, Moves
  <2>4. Ownership'
    BY Zenon, <1>2, <2>1, <2>2, SameOwners
  <2>5. t \in DOMAIN Serving => Nesting(t)'
    BY Zenon, <1>1, <1>2, <2>2, BelowWait, NestingKept
  <2>6. Nestings'
    BY Zenon, <1>2, <2>2, <2>5, OthersNest DEF Nestings
  <2> QED
    BY Zenon, <2>3, <2>4, <2>6 DEF IInv
<1> QED
  BY Zenon, <1>4, <1>5

LEMMA NotifyStep ==
    ASSUME IInv, NEW t \in Threads, notify_one(t)
    PROVE  IInv'
<1>1. UNCHANGED <<mOutgoing, expected, mOutgoingOffset, exclusiveTid, allowNested>>
  BY Zenon DEF notify_one
<1>2. CASE UNCHANGED stack
  <2>1. TypeInv'
    BY Zenon, <1>1, <1>2 DEF IInv, TypeInv
  <2>2. Ownership'
    BY Zenon, <1>1, <1>2, OwnershipUnchanged DEF IInv
  <2>3. Nestings'
    BY Zenon, <1>1, <1>2 DEF IInv, Nestings, Nesting
  <2> QED
    BY Zenon, <2>1, <2>2, <2>3 DEF IInv
<1>3. CASE \E u \in Asleep : Replace(u, [Top(u) EXCEPT !.at = "woken"])
  <2>1. PICK u \in Asleep : Replace(u, [Top(u) EXCEPT !.at = "woken"])
    BY Zenon, <1>3
  <2>2. u \in Threads /\ At(u, "asleep")
    BY Zenon DEF Asleep
  <2>3. /\ stack[u] # <<>> /\ Len(stack[u]) > 0
        /\ Top(u) = stack[u][1] /\ Top(u) \in Frame /\ Top(u).at = "asleep"
    BY Zenon, <2>2, TopOf
  <2> DEFINE f == [Top(u) EXCEPT !.at = "woken"]
  <2>4. f \in Frame /\ f.at = "woken"
    BY Zenon, <2>3 DEF Frame, Waits
  <2> HIDE DEF f
  <2>5. Moves(u, 0) /\ stack'[u][1] = f
    BY Zenon, <2>1, <2>2, <2>3, <2>4, ReplaceMoves DEF IInv, f
  <2>6. stack[u][1].at # "serving" /\ stack'[u][1].at \in Waits
    BY Zenon, <2>3, <2>4, <2>5 DEF Waits
  <2>7. mOutgoingOffset' \in Nat
    BY Zenon, <1>1 DEF IInv, TypeInv
  <2> QED
    BY Zenon, <1>1, <2>2, <2>3, <2>5, <2>6, <2>7, WaitStep
<1> QED
  BY Zenon, <1>2, <1>3 DEF notify_one

(* A connection is published owned by the thread that adds it.               *)
LEMMA AddStep ==
    ASSUME IInv, NEW t \in Threads, addOutgoingConnection(t)
    PROVE  IInv'
<1> DEFINE n == Len(mOutgoing)
           c == Outgoing[n + 1]
           f == [at |-> "adding", conn |-> c]
<1>1. /\ n < expected /\ t = Adder[c] /\ mOutgoing' = Append(mOutgoing, c)
      /\ exclusiveTid' = [exclusiveTid EXCEPT ![c] = t] /\ Push(t, f)
      /\ UNCHANGED <<expected, mOutgoingOffset, allowNested>>
  BY Zenon DEF addOutgoingConnection, Size
<1>2. n \in Nat /\ n + 1 \in DOMAIN Outgoing /\ n + 1 <= expected /\ Len(Outgoing) \in Nat
  BY <1>1, OutgoingApart DEF IInv, TypeInv
<1>3. c \in Seq2Set(Outgoing) /\ c \in Conn /\ c \notin Incoming
  BY Zenon, <1>2, OutgoingApart DEF Seq2Set, Conn
<1>4. c \notin Listed
  <2>1. \A i \in 1..n : mOutgoing[i] = Outgoing[i] /\ i \in DOMAIN Outgoing /\ i # n + 1
    BY <1>2, OutgoingApart DEF IInv, TypeInv
  <2> QED
    BY Zenon, <1>2, <2>1, OutgoingApart DEF Listed
<1>5. t \notin DOMAIN Serving
  BY Zenon, <1>1, <1>3, AddersApart DEF Adders
<1>6. f \in Frame /\ f.at = "adding" /\ f.conn = c
  BY Zenon, <1>3 DEF Frame
<1>7. c = Outgoing[n + 1]
  BY Zenon
<1> HIDE DEF c, f
<1>8. Moves(t, 1) /\ stack'[t][1] = f
  BY Zenon, <1>1, <1>6, PushMoves DEF IInv
<1>9. mOutgoing' \in Seq(Conn) /\ Len(mOutgoing') = n + 1 /\ mOutgoing'[n + 1] = c
      /\ \A i \in 1..n : mOutgoing'[i] = mOutgoing[i]
  BY <1>1, <1>2, <1>3 DEF IInv, TypeInv
<1>10. Listed' = Listed \cup {c}
  BY <1>2, <1>9 DEF Listed
<1>11. /\ exclusiveTid' \in [Conn -> Threads \cup {NoThread}] /\ exclusiveTid'[c] = t
       /\ \A d \in Conn \ {c} : exclusiveTid'[d] = exclusiveTid[d]
  BY Zenon, <1>1, <1>3 DEF IInv, TypeInv
<1>12. TypeInv'
  <2>1. \A i \in 1..(n + 1) : mOutgoing'[i] = Outgoing[i]
    BY <1>2, <1>7, <1>9 DEF IInv, TypeInv
  <2> QED
    BY Zenon, <1>1, <1>2, <1>8, <1>9, <1>11, <2>1 DEF IInv, TypeInv, Moves
<1>13. \A u \in DOMAIN Serving : exclusiveTid'[Serving[u]] = u
  BY <1>3, <1>11 DEF IInv, Ownership, Conn, Incoming
<1>14. ASSUME NEW u \in Threads, NEW i \in 1..Len(stack'[u]), u # t \/ i > 1,
              stack'[u][i].at \in Holding
       PROVE  /\ stack'[u][i].conn # c
              /\ exclusiveTid'[stack'[u][i].conn] = exclusiveTid[stack'[u][i].conn]
  <2>1. stack'[u][i].conn \in Listed \cup Incoming
    BY Zenon, <1>8, <1>14, KeptFrames
  <2>2. stack'[u][i].conn \in Conn
    BY Zenon, <1>8, <1>14, FrameConn DEF Moves
  <2> QED
    BY Zenon, <1>3, <1>4, <1>11, <2>1, <2>2
<1>15. Ownership'
  <2>1. MayTop(t, stack'[t][1])
    <3>1. \A j \in 2..Len(stack'[t]) : j \in 1..Len(stack'[t]) /\ j > 1
      OBVIOUS
    <3>2. \A j \in 2..Len(stack'[t]) : ~Holds(stack'[t][j], c)
      BY Zenon, <1>14, <3>1 DEF Holds
    <3> QED
      BY Zenon, <1>6, <1>8, <1>10, <1>11, <3>2 DEF MayTop
  <2> QED
    BY <1>8, <1>10, <1>13, <1>14, <2>1, OwnershipKept
<1>16. Nestings'
  BY Zenon, <1>1, <1>5, <1>8, OthersNest DEF Nestings
<1> QED
  BY Zenon, <1>12, <1>15, <1>16 DEF IInv

LEMMA SendInitStep ==
    ASSUME IInv, NEW t \in Threads, sendConnectionInit(t)
    PROVE  IInv'
<1>1. /\ stack[t] # <<>> /\ Len(stack[t]) \in Nat /\ Len(stack[t]) > 0
      /\ Top(t) = stack[t][1] /\ Top(t) \in Frame /\ Top(t).at = "adding"
  BY Zenon, TopOf DEF sendConnectionInit
<1>2. Replace(t, [Top(t) EXCEPT !.at = "added"])
      /\ UNCHANGED <<mOutgoing, expected, mOutgoingOffset, exclusiveTid, allowNested>>
  BY Zenon DEF sendConnectionInit
<1> DEFINE f == [Top(t) EXCEPT !.at = "added"]
<1>3. f \in Frame /\ f.at = "added" /\ f.conn = stack[t][1].conn
  BY Zenon, <1>1 DEF Frame, Waits
<1> HIDE DEF f
<1>4. Moves(t, 0) /\ stack'[t][1] = f
  BY Zenon, <1>1, <1>2, <1>3, ReplaceMoves DEF IInv, f
<1>5. TypeInv'
  BY Zenon, <1>2, <1>4 DEF IInv, TypeInv, Moves
<1>6. 1 \in 1..Len(stack[t]) /\ Releaser(stack[t][1]) /\ stack[t][1].at \in Holding
  BY <1>1 DEF Releaser, Holding
<1>7. /\ f.conn \in Listed /\ exclusiveTid[f.conn] = t
      /\ \A j \in 1..Len(stack[t]) : Holds(stack[t][j], f.conn) => j <= 1
  BY <1>3, <1>6 DEF IInv, Ownership
<1>8. Ownership'
  <2>1. ASSUME NEW j \in 2..Len(stack'[t]) PROVE ~Holds(stack'[t][j], f.conn)
    <3>1. j \in 1..Len(stack'[t]) /\ j > 1 /\ j - 0 = j /\ ~(j <= 1)
      OBVIOUS
    <3>2. j \in 1..Len(stack[t]) /\ stack'[t][j] = stack[t][j]
      BY Zenon, <1>4, <3>1 DEF Moves
    <3> QED
      BY Zenon, <1>7, <3>1, <3>2
  <2>2. MayTop(t, stack'[t][1])
    BY Zenon, <1>2, <1>4, <1>7, <2>1 DEF MayTop, Listed
  <2> QED
    BY Zenon, <1>2, <1>4, <2>2, SameOwners
<1>9. t \notin DOMAIN Serving
  BY <1>1, <1>6 DEF IInv, Nestings, Nesting, Fits
<1>10. Nestings'
  BY Zenon, <1>2, <1>4, <1>9, OthersNest DEF Nestings
<1> QED
  BY Zenon, <1>5, <1>8, <1>10 DEF IInv

LEMMA ReleaseAddedStep ==
    ASSUME IInv, NEW t \in Threads, releaseAdded(t)
    PROVE  IInv'
<1>1. stack[t] # <<>> /\ Top(t) = stack[t][1] /\ Top(t).at = "added"
  BY Zenon, TopOf DEF releaseAdded
<1>2. /\ exclusiveTid' = [exclusiveTid EXCEPT ![stack[t][1].conn] = NoThread] /\ Pop(t)
      /\ UNCHANGED <<mOutgoing, expected, mOutgoingOffset, allowNested>>
  BY Zenon, <1>1 DEF releaseAdded
<1>3. Releaser(stack[t][1])
  BY Zenon, <1>1 DEF Releaser
<1> QED
  BY <1>1, <1>2, <1>3, ReleaseStep, Zenon

(* Every step keeps the invariant, and so does a stutter.                    *)
LEMMA NextIInv ==
    ASSUME LeastPosition, IInv, [Next]_vars
    PROVE  IInv'
<1>1. CASE UNCHANGED vars
  <2>1. TypeInv'
    BY Zenon, <1>1 DEF vars, IInv, TypeInv
  <2>2. Ownership'
    BY Zenon, <1>1, OwnershipUnchanged DEF vars, IInv
  <2>3. Nestings'
    BY Zenon, <1>1 DEF vars, IInv, Nestings, Nesting
  <2> QED
    BY Zenon, <2>1, <2>2, <2>3 DEF IInv
<1>2. ASSUME NEW t \in Threads, Start(t) PROVE IInv'
  <2>1. CASE \E use \in Use : Begin(t, use)
    BY Zenon, <2>1, BeginStep
  <2>2. CASE \E oneway \in BOOLEAN : Serve(t, oneway)
    BY Zenon, <2>2, ServeStep
  <2> QED
    BY Zenon, <1>2, <2>1, <2>2 DEF Start
<1>3. ASSUME NEW t \in Threads, Step(t) PROVE IInv'
  <2>1. CASE find(t)
    BY Zenon, <2>1, FindStep DEF find
  <2>2. CASE Awake(t)
    BY Zenon, <2>2, FindStep DEF Awake
  <2> QED
    BY Zenon, <1>3, <2>1, <2>2, NotifyStep, AddStep, SendInitStep, ReleaseAddedStep, EndServeStep,
       FinishStep DEF Step
<1> QED
  BY Zenon, <1>1, <1>2, <1>3 DEF Next

LEMMA IInvIsExclusive == IInv => ConnectionsExclusive
<1> SUFFICES ASSUME IInv PROVE ConnectionsExclusive
  BY Zenon
<1>1. \A t \in Threads : stack[t] \in Seq(Frame) /\ DOMAIN stack[t] = 1..Len(stack[t])
                         /\ Len(stack[t]) \in Nat
  BY DEF IInv, TypeInv
<1>2. OwnedWhileUsed
  BY Zenon, <1>1 DEF IInv, Ownership, OwnedWhileUsed, Holding
<1>3. NestedCallsAwaited
  <2> SUFFICES ASSUME NEW t \in Threads, NEW i \in 1..Len(stack[t]),
                      stack[t][i].at = "using", stack[t][i].use = "CLIENT",
                      stack[t][i].conn \in Incoming
               PROVE  /\ i < Len(stack[t])
                      /\ stack[t][i + 1] = Serves(stack[t][i].conn, FALSE, stack[t][i + 1].saved)
    BY <1>1, Zenon DEF NestedCallsAwaited
  <2>1. exclusiveTid[stack[t][i].conn] = t
    BY Zenon DEF IInv, Ownership, Holding
  <2>2. t \in DOMAIN Serving /\ stack[t][i].conn = Serving[t]
    BY Zenon, <2>1, IncomingOwner
  <2>3. Nesting(t)
    BY Zenon, <2>2 DEF IInv, Nestings
  <2>4. Fits(t, allowNested[Serving[t]], stack[t][i]) /\ i < Len(stack[t])
        /\ stack[t][i + 1].at = "serving"
    BY Zenon, <2>3 DEF Nesting
  <2>5. allowNested[Serving[t]] = TRUE
    BY Zenon, <2>4 DEF Fits
  <2>6. i + 1 \in 1..Len(stack[t]) /\ stack[t][i + 1] \in Frame
    BY <1>1, <2>4
  <2>7. Fits(t, allowNested[Serving[t]], stack[t][i + 1])
    BY Zenon, <2>3, <2>6 DEF Nesting
  <2>8. stack[t][i + 1].conn = Serving[t] /\ stack[t][i + 1].oneway = FALSE
    BY Zenon, <2>4, <2>5, <2>7 DEF Fits
  <2> QED
    BY <2>2, <2>4, <2>6, <2>8, Zenon DEF Serves, Frame, Waits
<1> QED
  BY Zenon, <1>2, <1>3 DEF ConnectionsExclusive

INSTANCE WellFoundedInduction

LEMMA LeastPositionExists == LeastPosition
<1> SUFFICES ASSUME NEW S \in SUBSET Nat, S # {}
             PROVE  \E x \in S : \A y \in S : x <= y
  BY Zenon DEF LeastPosition
<1> DEFINE R == OpToRel(<, Nat)
<1>1. IsWellFoundedOn(R, Nat)
  BY NatLessThanWellFounded, Zenon
<1>2. \A x, y \in Nat : x < y => <<x, y>> \in R
  BY Zenon DEF OpToRel
<1> HIDE DEF R
<1>3. PICK x \in S : \A y \in S : ~ (<<y, x>> \in R)
  BY <1>1, WFMin, Zenon
<1>4. x \in Nat /\ \A y \in S : y \in Nat
  BY Zenon
<1>5. \A y \in S : ~(y < x)
  BY <1>2, <1>3, <1>4, Zenon
<1> QED
  BY <1>4, <1>5, SMT

(* ExclusiveConnection keeps its promise for any number of threads and       *)
(* connections and any depth of nesting: whoever sends or receives on a      *)
(* connection owns it, and a thread that awaits a reply on the connection it *)
(* serves is serving a twoway call from there, whose caller reads it.        *)
THEOREM ExclusiveConnections == Spec => []ConnectionsExclusive
<1>1. IInv /\ [Next]_vars => IInv'
  BY Zenon, NextIInv, LeastPositionExists
<1> QED
  BY <1>1, InitIInv, IInvIsExclusive, PTL DEF Spec
=============================================================================
