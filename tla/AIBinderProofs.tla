--------------------------- MODULE AIBinderProofs ---------------------------
(***************************************************************************)
(* For any number of threads, ABpBinders, links and calls: what the counts *)
(* of an ABpBinder count, that its object is held once, that a class stays, *)
(* that a cookie is released once, and that a death is told.               *)
(***************************************************************************)
EXTENDS AIBinder, TLAPS

-----------------------------------------------------------------------------
(* Agendas                                                                 *)

\* The agenda of a thread in lookupOrCreateFromBinder, ...
Finding == <<Do("findObject", None)>>
Attaching == <<Do("attachObject", None), Do("withLock", None)>>
Locking == <<Do("withLock", None)>>
Returning == <<Do("decRemote", None)>>
\* ... in AIBinder_decStrong of p, the last reference or another one, ...
Ending(p) == <<Do("onLastStrongRef", p), Do("decRemote", None), Do("decWeak", p)>>
Leaving(p) == <<Do("decRemote", None), Do("decWeak", p)>>
Weakening(p) == <<Do("decWeak", p)>>
\* ... and in AIBinder_associateClass.
Asking(c) == <<Do("descriptor", c)>>
Setting(c) == <<Do("setClass", c)>>

Class == Classes \cup Strangers
Calling(a) == \/ a \in {<<>>, Finding, Attaching, Locking, Returning}
              \/ \E p \in Proxies : a \in {Ending(p), Leaving(p), Weakening(p)}
              \/ \E c \in Class : a \in {Asking(c), Setting(c)}

\* The agenda of sendObituary: a link that is reported stands there once.
Deaths == {"reportOneDeath", "onDied", "unlinkDead", "clearWho"}
Dying(a) ==
    /\ a \in Seq([do : Deaths, on : Links])
    /\ \A i, j \in DOMAIN a : (a[i].do = "reportOneDeath" /\ i # j) => a[j].on # a[i].on
    /\ \A i \in DOMAIN a : a[i].do = "onDied" =>
         i = 1 /\ Len(a) >= 3 /\ a[2] = Do("unlinkDead", a[1].on) /\ a[3] = Do("clearWho", a[1].on)
    /\ \A i \in DOMAIN a : a[i].do = "unlinkDead" =>
         /\ i = 1 \/ (i = 2 /\ a[1].do = "onDied")
         /\ i < Len(a) /\ a[i + 1] = Do("clearWho", a[i].on)
    /\ \A i \in DOMAIN a : a[i].do = "clearWho" =>
         i = 1 \/ (i = 2 /\ a[1].do = "unlinkDead") \/ (i = 3 /\ a[2].do = "unlinkDead")

Shaped(a) == Calling(a) \/ Dying(a)

Has(a, what) == \E i \in DOMAIN a : a[i].do \in what
HasOn(a, what, x) == \E i \in DOMAIN a : a[i].do = what /\ a[i].on = x

-----------------------------------------------------------------------------
(* The invariant: references                                               *)

Remote == [strong : Int, obits : Seq(Links), sent : BOOLEAN]
Proxy == [strong : Nat, weak : Nat, mClazz : Class \cup {None}]
RefTypes ==
    /\ remote \in Remote
    /\ value \in Proxies \cup {None, Absent}
    /\ abp \in [Proxies -> Proxy]
    /\ held \in [Threads -> Proxies \cup {None}]
    /\ weakly \in [Threads -> Proxies \cup {None}]
    /\ told \in [Threads -> Class \cup {None}]
    /\ given \in BOOLEAN
    /\ DOMAIN agenda = Threads
    /\ \A t \in Threads : Shaped(agenda[t])

Holders(p) == {t \in Threads : held[t] = p}
Keepers(p) == {t \in Threads : weakly[t] = p}
Weakeners(p) == {t \in Threads : HasOn(agenda[t], "decWeak", p)}
One(b) == IF b THEN 1 ELSE 0

\* Every strong reference of an ABpBinder is a thread's, and every weak one goes with a strong one,
\* is a thread's, is about to go, or is the Value's.
Counted(p) ==
    /\ abp[p].strong = Cardinality(Holders(p))
    /\ abp[p].weak = Cardinality(Holders(p)) + Cardinality(Keepers(p)) + Cardinality(Weakeners(p))
                     + One(value = p)

ThreadKeeps(t) ==
    /\ Has(agenda[t], {"findObject", "withLock"}) => held[t] = None
    /\ Has(agenda[t], {"descriptor", "setClass"}) => held[t] # None
    /\ told[t] # None => held[t] # None /\ abp[held[t]].mClazz = told[t]

ValueKept == value \in Proxies =>
    \/ \E t \in Threads : held[t] = value
    \/ \E t \in Threads : Has(agenda[t], {"onLastStrongRef"})

RefInv ==
    /\ RefTypes /\ RemoteHeldOnce /\ ValueKept
    /\ \A p \in Proxies : Counted(p) /\ (abp[p].weak = 0 => abp[p].mClazz = None)
    /\ \A t \in Threads : ThreadKeeps(t)

-----------------------------------------------------------------------------
(* The invariant: links                                                    *)

Link == [sp : Nat, mCookie : Cookies \cup {None}, mWho : BOOLEAN, unlinked : Nat, died : BOOLEAN,
         late : BOOLEAN, user : {"never", "refused", "linked", "unlinked"}]
DeathTypes ==
    /\ rec \in [strong : {0, 1}, list : SUBSET Links]
    /\ tdr \in [Links -> Link]

Reported(l) == \E t \in Threads : HasOn(agenda[t], "reportOneDeath", l)
Reporting(l) == \E t \in Threads : HasOn(agenda[t], "clearWho", l)
Doomed(l) == \E t \in Threads : HasOn(agenda[t], "onDied", l)
Listed(l) == \E i \in DOMAIN remote.obits : remote.obits[i] = l

Told(c) == \E k \in Links : tdr[k].mCookie = c /\ tdr[k].died

LinkSound(l) ==
    /\ tdr[l].sp = One(l \in rec.list) + One(Reporting(l))
    /\ tdr[l] = NoLink \/ tdr[l].unlinked = One(tdr[l].sp = 0)
    /\ tdr[l] = NoLink => ~Listed(l) /\ ~Reported(l)
    /\ ~tdr[l].late
    /\ tdr[l] # NoLink /\ ~tdr[l].mWho => tdr[l].died
    /\ Reporting(l) /\ ~Doomed(l) => tdr[l].died
    /\ tdr[l].user = "linked" /\ rec.strong > 0 =>
         \/ l \in rec.list /\ (Listed(l) \/ Reported(l) \/ Doomed(l))
         \/ Told(tdr[l].mCookie)

\* A thread reports deaths after the object has died, and no other thread does.
DeathThreads ==
    /\ \A t \in Threads : Has(agenda[t], Deaths) => remote.sent
    /\ \A t, u \in Threads : Has(agenda[t], Deaths) /\ Has(agenda[u], Deaths) => t = u

DeathInv ==
    /\ DeathTypes
    /\ \A i, j \in DOMAIN remote.obits : i # j => remote.obits[i] # remote.obits[j]
    /\ remote.sent => remote.obits = <<>>
    /\ rec.strong = 0 => rec.list = {}
    /\ DeathThreads
    /\ \A l \in Links : LinkSound(l)

-----------------------------------------------------------------------------
(* Counting                                                                *)

\* What the proofs use of Cardinality, proved at the end of the module.
Sizes(F) == \A S \in SUBSET F :
    /\ Cardinality(S) \in Nat
    /\ Cardinality(S) = 0 <=> S = {}
    /\ \A x \in F : x \notin S => Cardinality(S \cup {x}) = Cardinality(S) + 1

LEMMA OneIsInt ==
  ASSUME NEW b PROVE One(b) \in Int
BY DEF One

\* When membership changes for x alone, the number changes by what it changes for x.
LEMMA CountOne ==
  ASSUME NEW F, Sizes(F), NEW S \in SUBSET F, NEW T \in SUBSET F, NEW x \in F,
         \A y \in F : y # x => (y \in S <=> y \in T)
  PROVE  Cardinality(T) = Cardinality(S) + One(x \in T) - One(x \in S)
<1> DEFINE R == S \ {x}
<1>1. R \in SUBSET F /\ x \notin R
  BY Zenon
<1>2. Cardinality(R) \in Nat /\ Cardinality(R \cup {x}) = Cardinality(R) + 1
  BY Zenon, <1>1 DEF Sizes
<1>3. (x \in S => S = R \cup {x}) /\ (x \notin S => S = R)
  BY Zenon
<1>4. (x \in T => T = R \cup {x}) /\ (x \notin T => T = R)
  BY Zenon
<1>5. (x \in S => Cardinality(S) = Cardinality(R) + 1) /\ (x \notin S => Cardinality(S) = Cardinality(R))
  BY Zenon, <1>2, <1>3
<1>6. (x \in T => Cardinality(T) = Cardinality(R) + 1) /\ (x \notin T => Cardinality(T) = Cardinality(R))
  BY Zenon, <1>2, <1>4
<1> HIDE DEF R
<1> QED
  BY <1>2, <1>5, <1>6 DEF One

-----------------------------------------------------------------------------
(* What stands on an agenda                                                *)

\* What the counts and the values a thread keeps depend on.
Reads(a, looks, drops, weak, last, class) ==
    /\ Has(a, {"findObject", "withLock"}) <=> looks
    /\ Has(a, {"decRemote"}) <=> drops
    /\ \A q : HasOn(a, "decWeak", q) <=> q \in weak
    /\ Has(a, {"onLastStrongRef"}) <=> last
    /\ Has(a, {"descriptor", "setClass"}) <=> class
Lives(a) == ~Has(a, Deaths)

LEMMA ReadsOfCalls ==
  ASSUME NEW p, NEW c
  PROVE  /\ Reads(<<>>, FALSE, FALSE, {}, FALSE, FALSE)
         /\ Reads(Finding, TRUE, FALSE, {}, FALSE, FALSE)
         /\ Reads(Attaching, TRUE, FALSE, {}, FALSE, FALSE)
         /\ Reads(Locking, TRUE, FALSE, {}, FALSE, FALSE)
         /\ Reads(Returning, FALSE, TRUE, {}, FALSE, FALSE)
         /\ Reads(Ending(p), FALSE, TRUE, {p}, TRUE, FALSE)
         /\ Reads(Leaving(p), FALSE, TRUE, {p}, FALSE, FALSE)
         /\ Reads(Weakening(p), FALSE, FALSE, {p}, FALSE, FALSE)
         /\ Reads(Asking(c), FALSE, FALSE, {}, FALSE, TRUE)
         /\ Reads(Setting(c), FALSE, FALSE, {}, FALSE, TRUE)
<1>1. /\ Reads(<<>>, FALSE, FALSE, {}, FALSE, FALSE)
      /\ Reads(Finding, TRUE, FALSE, {}, FALSE, FALSE)
      /\ Reads(Locking, TRUE, FALSE, {}, FALSE, FALSE)
      /\ Reads(Returning, FALSE, TRUE, {}, FALSE, FALSE)
  BY SMT DEF Reads, Has, HasOn, Do, Finding, Attaching, Locking, Returning, Ending, Leaving, Weakening, Asking, Setting
<1>2. /\ Reads(Weakening(p), FALSE, FALSE, {p}, FALSE, FALSE)
      /\ Reads(Asking(c), FALSE, FALSE, {}, FALSE, TRUE)
      /\ Reads(Setting(c), FALSE, FALSE, {}, FALSE, TRUE)
  BY SMT DEF Reads, Has, HasOn, Do, Finding, Attaching, Locking, Returning, Ending, Leaving, Weakening, Asking, Setting
<1>5. Reads(Attaching, TRUE, FALSE, {}, FALSE, FALSE)
  BY SMT DEF Reads, Has, HasOn, Do, Finding, Attaching, Locking, Returning, Ending, Leaving, Weakening, Asking, Setting
<1>6. Reads(Ending(p), FALSE, TRUE, {p}, TRUE, FALSE)
  BY SMT DEF Reads, Has, HasOn, Do, Finding, Attaching, Locking, Returning, Ending, Leaving, Weakening, Asking, Setting
<1>7. Reads(Leaving(p), FALSE, TRUE, {p}, FALSE, FALSE)
  BY SMT DEF Reads, Has, HasOn, Do, Finding, Attaching, Locking, Returning, Ending, Leaving, Weakening, Asking, Setting
<1> QED
  BY <1>1, <1>2, <1>5, <1>6, <1>7, Zenon

LEMMA CallsLive ==
  ASSUME NEW a, Calling(a) PROVE Lives(a)
<1>3. CASE a \in {<<>>, Finding, Attaching, Locking, Returning}
  BY <1>3, SMT DEF Lives, Has, Finding, Attaching, Locking, Returning, Do, Deaths
<1>4. ASSUME NEW p \in Proxies, a \in {Ending(p), Leaving(p), Weakening(p)} PROVE Lives(a)
  BY <1>4, SMT DEF Lives, Has, Ending, Leaving, Weakening, Do, Deaths
<1>5. ASSUME NEW c \in Class, a \in {Asking(c), Setting(c)} PROVE Lives(a)
  BY <1>5, SMT DEF Lives, Has, Asking, Setting, Do, Deaths
<1> QED
  BY <1>3, <1>4, <1>5, Zenon DEF Calling

LEMMA SeqElements ==
  ASSUME NEW S, NEW a \in Seq(S) PROVE \A i \in DOMAIN a : a[i] \in S
OBVIOUS

LEMMA ReadsOfDying ==
  ASSUME NEW a, Dying(a) PROVE Reads(a, FALSE, FALSE, {}, FALSE, FALSE)
<1>1. a \in Seq([do : Deaths, on : Links])
  BY Zenon DEF Dying
<1>2. \A i \in DOMAIN a : a[i] \in [do : Deaths, on : Links]
  BY <1>1, SeqElements, Zenon
<1>3. \A i \in DOMAIN a : a[i].do \in Deaths
  BY Zenon, <1>2
<1>4. \A q : Do("decWeak", q).do = "decWeak"
  BY Zenon DEF Do
<1> QED
  BY Zenon, <1>3, <1>4 DEF Reads, Has, HasOn, Deaths

LEMMA Tuples ==
  /\ \A x : Head(<<x>>) = x /\ <<>> \o Tail(<<x>>) = <<>>
  /\ \A x, v : <<v>> \o Tail(<<x>>) = <<v>>
  /\ \A x, v, w : <<v, w>> \o Tail(<<x>>) = <<v, w>>
  /\ \A x, y : Head(<<x, y>>) = x /\ <<>> \o Tail(<<x, y>>) = <<y>>
  /\ \A x, y, z : Head(<<x, y, z>>) = x /\ <<>> \o Tail(<<x, y, z>>) = <<y, z>>
<1>1. \A x : Head(<<x>>) = x /\ <<>> \o Tail(<<x>>) = <<>>
  OBVIOUS
<1>2. \A x, v : <<v>> \o Tail(<<x>>) = <<v>>
  OBVIOUS
<1>3. \A x, v, w : <<v, w>> \o Tail(<<x>>) = <<v, w>>
  OBVIOUS
<1>4. \A x, y : Head(<<x, y>>) = x /\ <<>> \o Tail(<<x, y>>) = <<y>>
  OBVIOUS
<1>5. \A x, y, z : Head(<<x, y, z>>) = x /\ <<>> \o Tail(<<x, y, z>>) = <<y, z>>
  OBVIOUS
<1> QED
  BY <1>1, <1>2, <1>3, <1>4, <1>5, SMT

LEMMA Joined ==
  ASSUME NEW x, NEW y, NEW z PROVE <<x, y>> \o <<z>> = <<x, y, z>>
<1> DEFINE S == {x, y, z}
           s == <<x, y>> \o <<z>>
           r == <<x, y, z>>
<1>1. <<x, y>> \in Seq(S) /\ <<z>> \in Seq(S) /\ Len(<<x, y>>) = 2 /\ Len(<<z>>) = 1
  OBVIOUS
<1>2. s \in Seq(S) /\ Len(s) = 3 /\ s[1] = x /\ s[2] = y /\ s[3] = z
  BY <1>1
<1>3. r \in [1 .. 3 -> S] /\ r[1] = x /\ r[2] = y /\ r[3] = z
  OBVIOUS
<1> HIDE DEF s, r
<1>4. s \in [1 .. 3 -> S] /\ \A i \in 1 .. 3 : s[i] = r[i]
  BY <1>2, <1>3
<1>5. s = r
  BY <1>3, <1>4
<1> QED
  BY Zenon, <1>5 DEF s, r

\* An agenda is what its first entry says, and what the step leaves of it.
LEMMA CallAgendas ==
  ASSUME NEW a, Shaped(a), a # <<>>
  PROVE  /\ Head(a).do = "findObject" =>
              /\ a = Finding
              /\ Attaching \o Tail(a) = Attaching
              /\ Locking \o Tail(a) = Locking
         /\ Head(a).do = "attachObject" =>
              /\ a = Attaching
              /\ <<>> \o Tail(a) = Locking
         /\ Head(a).do = "withLock" =>
              /\ a = Locking
              /\ Returning \o Tail(a) = Returning
         /\ Head(a).do = "decRemote" =>
              \/ a = Returning /\ <<>> \o Tail(a) = <<>>
              \/ \E p \in Proxies : /\ a = Leaving(p)
                                    /\ <<>> \o Tail(a) = Weakening(p)
         /\ Head(a).do = "onLastStrongRef" =>
              \E p \in Proxies : /\ a = Ending(p)
                                 /\ <<>> \o Tail(a) = Leaving(p)
         /\ Head(a).do = "decWeak" =>
              \E p \in Proxies : a = Weakening(p) /\ Head(a).on = p /\ <<>> \o Tail(a) = <<>>
         /\ Head(a).do = "descriptor" =>
              \E c \in Class : /\ a = Asking(c) /\ Head(a).on = c
                               /\ <<>> \o Tail(a) = <<>>
                               /\ Setting(c) \o Tail(a) = Setting(c)
         /\ Head(a).do = "setClass" =>
              \E c \in Class : a = Setting(c) /\ Head(a).on = c /\ <<>> \o Tail(a) = <<>>
         /\ Head(a).do \in Deaths => Dying(a)
<1>1. CASE Dying(a)
  <2>1. a \in Seq([do : Deaths, on : Links])
    BY <1>1, Zenon DEF Dying
  <2>2. 1 \in DOMAIN a /\ Head(a) = a[1]
    BY <2>1
  <2>3. Head(a) \in [do : Deaths, on : Links]
    BY <2>1, <2>2, SeqElements, Zenon
  <2> QED
    BY Zenon, <1>1, <2>3 DEF Deaths
<1>2. CASE a \in {<<>>, Finding, Attaching, Locking, Returning}
  <2>1. CASE a = Finding
    BY <2>1, Tuples, SMT DEF Do, Deaths, Finding, Attaching, Locking, Returning
  <2>2. CASE a = Attaching
    BY <2>2, Tuples, SMT DEF Do, Deaths, Finding, Attaching, Locking, Returning
  <2>3. CASE a = Locking
    BY <2>3, Tuples, SMT DEF Do, Deaths, Finding, Attaching, Locking, Returning
  <2>4. CASE a = Returning
    BY <2>4, Tuples, SMT DEF Do, Deaths, Finding, Attaching, Locking, Returning
  <2> QED
    BY <1>2, <2>1, <2>2, <2>3, <2>4, Zenon
<1>3. ASSUME NEW p \in Proxies, a \in {Ending(p), Leaving(p), Weakening(p)}
      PROVE  /\ Head(a).do \in {"onLastStrongRef", "decRemote", "decWeak"}
             /\ Head(a).do = "decRemote" => /\ a = Leaving(p)
                                            /\ <<>> \o Tail(a) = Weakening(p)
             /\ Head(a).do = "onLastStrongRef" =>
                  /\ a = Ending(p)
                  /\ <<>> \o Tail(a) = Leaving(p)
             /\ Head(a).do = "decWeak" => a = Weakening(p) /\ Head(a).on = p /\ <<>> \o Tail(a) = <<>>
  <2>1. CASE a = Ending(p)
    BY <2>1, Tuples, SMT DEF Do, Ending, Leaving, Weakening
  <2>2. CASE a = Leaving(p)
    BY <2>2, Tuples, SMT DEF Do, Ending, Leaving, Weakening
  <2>3. CASE a = Weakening(p)
    BY <2>3, Tuples, SMT DEF Do, Ending, Leaving, Weakening
  <2> QED
    BY <1>3, <2>1, <2>2, <2>3, Zenon
<1>4. ASSUME NEW c \in Class, a \in {Asking(c), Setting(c)}
      PROVE  /\ Head(a).do \in {"descriptor", "setClass"}
             /\ Head(a).do = "descriptor" =>
                  /\ a = Asking(c) /\ Head(a).on = c /\ <<>> \o Tail(a) = <<>>
                  /\ Setting(c) \o Tail(a) = Setting(c)
             /\ Head(a).do = "setClass" => a = Setting(c) /\ Head(a).on = c /\ <<>> \o Tail(a) = <<>>
  <2>1. CASE a = Asking(c)
    BY <2>1, Tuples, SMT DEF Do, Asking, Setting
  <2>2. CASE a = Setting(c)
    BY <2>2, Tuples, SMT DEF Do, Asking, Setting
  <2> QED
    BY <1>4, <2>1, <2>2, Zenon
<1>5. ASSUME NEW p \in Proxies, a \in {Ending(p), Leaving(p), Weakening(p)} PROVE Head(a).do \notin Deaths /\ Head(a).do \notin
        {"findObject", "attachObject", "withLock", "descriptor", "setClass"}
  BY Zenon, <1>3, <1>5 DEF Deaths
<1>6. ASSUME NEW c \in Class, a \in {Asking(c), Setting(c)} PROVE Head(a).do \notin Deaths /\ Head(a).do \notin
        {"findObject", "attachObject", "withLock", "onLastStrongRef", "decRemote", "decWeak"}
  BY Zenon, <1>4, <1>6 DEF Deaths
<1>7. CASE \E p \in Proxies : a \in {Ending(p), Leaving(p), Weakening(p)}
  BY <1>3, <1>5, <1>7, Zenon
<1>8. CASE \E c \in Class : a \in {Asking(c), Setting(c)}
  BY <1>4, <1>6, <1>8, Zenon
<1> QED
  BY <1>1, <1>2, <1>7, <1>8, Zenon DEF Shaped, Calling

-----------------------------------------------------------------------------
(* References: what a step of t does to the counts                         *)

Others(t) == \A u \in Threads : u # t =>
    held'[u] = held[u] /\ weakly'[u] = weakly[u] /\ told'[u] = told[u] /\ agenda'[u] = agenda[u]

StrongMoves(t, q) == abp'[q].strong = abp[q].strong + One(held'[t] = q) - One(held[t] = q)
WeakMoves(t, q) ==
    abp'[q].weak = abp[q].weak + One(held'[t] = q) - One(held[t] = q)
                   + One(weakly'[t] = q) - One(weakly[t] = q)
                   + One(HasOn(agenda'[t], "decWeak", q)) - One(HasOn(agenda[t], "decWeak", q))
                   + One(value' = q) - One(value = q)
RemoteMoves(t, p) ==
    remote'.strong = remote.strong + One(given') - One(given)
                     + One(p \in Proxies /\ abp'[p].strong > 0) - One(p \in Proxies /\ abp[p].strong > 0)
                     + One(Has(agenda'[t], {"decRemote"})) - One(Has(agenda[t], {"decRemote"}))
                     + One(Has(agenda'[t], {"findObject", "withLock"})) - One(Has(agenda[t], {"findObject", "withLock"}))

LEMMA CountedStep ==
  ASSUME Sizes(Threads), NEW t \in Threads, Others(t), NEW q \in Proxies, Counted(q),
         StrongMoves(t, q), WeakMoves(t, q)
  PROVE  Counted(q)'
<1>1. Cardinality(Holders(q)') = Cardinality(Holders(q)) + One(held'[t] = q) - One(held[t] = q)
  <2>1. Holders(q) \in SUBSET Threads /\ Holders(q)' \in SUBSET Threads
    BY Zenon DEF Holders
  <2>2. \A u \in Threads : u # t => (u \in Holders(q) <=> u \in Holders(q)')
    BY Zenon DEF Holders, Others
  <2>3. Cardinality(Holders(q)') = Cardinality(Holders(q)) + One(t \in Holders(q)') - One(t \in Holders(q))
    BY <2>1, <2>2, CountOne, SMT
  <2>4. (t \in Holders(q) <=> held[t] = q) /\ (t \in Holders(q)' <=> held'[t] = q)
    BY Zenon DEF Holders
  <2> QED
    BY Zenon, <2>3, <2>4 DEF One
<1>2. Cardinality(Keepers(q)') = Cardinality(Keepers(q)) + One(weakly'[t] = q) - One(weakly[t] = q)
  <2>1. Keepers(q) \in SUBSET Threads /\ Keepers(q)' \in SUBSET Threads
    BY Zenon DEF Keepers
  <2>2. \A u \in Threads : u # t => (u \in Keepers(q) <=> u \in Keepers(q)')
    BY Zenon DEF Keepers, Others
  <2>3. Cardinality(Keepers(q)') = Cardinality(Keepers(q)) + One(t \in Keepers(q)') - One(t \in Keepers(q))
    BY <2>1, <2>2, CountOne, SMT
  <2>4. (t \in Keepers(q) <=> weakly[t] = q) /\ (t \in Keepers(q)' <=> weakly'[t] = q)
    BY Zenon DEF Keepers
  <2> QED
    BY Zenon, <2>3, <2>4 DEF One
<1>3. Cardinality(Weakeners(q)') = Cardinality(Weakeners(q)) + One(HasOn(agenda'[t], "decWeak", q))
                                   - One(HasOn(agenda[t], "decWeak", q))
  <2>1. Weakeners(q) \in SUBSET Threads /\ Weakeners(q)' \in SUBSET Threads
    BY Zenon DEF Weakeners
  <2>2. \A u \in Threads : u # t => (u \in Weakeners(q) <=> u \in Weakeners(q)')
    BY Zenon DEF Weakeners, Others
  <2>3. Cardinality(Weakeners(q)') = Cardinality(Weakeners(q)) + One(t \in Weakeners(q)') - One(t \in Weakeners(q))
    BY <2>1, <2>2, CountOne, SMT
  <2>4. /\ t \in Weakeners(q) <=> HasOn(agenda[t], "decWeak", q)
        /\ t \in Weakeners(q)' <=> HasOn(agenda'[t], "decWeak", q)
    BY Zenon DEF Weakeners
  <2> QED
    BY Zenon, <2>3, <2>4 DEF One
<1>4. Cardinality(Holders(q)) \in Nat /\ Cardinality(Keepers(q)) \in Nat /\ Cardinality(Weakeners(q)) \in Nat
  <2>1. Holders(q) \in SUBSET Threads /\ Keepers(q) \in SUBSET Threads /\ Weakeners(q) \in SUBSET Threads
    BY Zenon DEF Holders, Keepers, Weakeners
  <2> QED
    BY <2>1, Zenon DEF Sizes
<1>5. One(value = q) \in Int /\ One(value' = q) \in Int
  BY Zenon, OneIsInt
<1>6. /\ One(held'[t] = q) \in Int /\ One(held[t] = q) \in Int
      /\ One(weakly'[t] = q) \in Int /\ One(weakly[t] = q) \in Int
      /\ One(HasOn(agenda'[t], "decWeak", q)) \in Int /\ One(HasOn(agenda[t], "decWeak", q)) \in Int
  BY Zenon, OneIsInt
<1> QED
  BY <1>1, <1>2, <1>3, <1>4, <1>5, <1>6, SMT DEF Counted, StrongMoves, WeakMoves

LEMMA RemoteStep ==
  ASSUME Sizes(Threads), Sizes(Proxies), RemoteHeldOnce, NEW t \in Threads, Others(t), NEW p,
         \A q \in Proxies : q # p => abp'[q].strong = abp[q].strong, RemoteMoves(t, p)
  PROVE  RemoteHeldOnce'
<1> DEFINE Used == {q \in Proxies : abp[q].strong > 0}
<1>1. ASSUME NEW what
      PROVE  /\ Cardinality(Busy(what)) \in Nat
             /\ Cardinality(Busy(what)') = Cardinality(Busy(what)) + One(Has(agenda'[t], what)) - One(Has(agenda[t], what))
  <2>1. Busy(what) \in SUBSET Threads /\ Busy(what)' \in SUBSET Threads
    BY Zenon DEF Busy
  <2>2. \A u \in Threads : u # t => (u \in Busy(what) <=> u \in Busy(what)')
    BY Zenon DEF Busy, Others
  <2>3. Cardinality(Busy(what)') = Cardinality(Busy(what)) + One(t \in Busy(what)') - One(t \in Busy(what))
    BY <2>1, <2>2, CountOne, SMT
  <2>4. (t \in Busy(what) <=> Has(agenda[t], what)) /\ (t \in Busy(what)' <=> Has(agenda'[t], what))
    BY <1>1, Zenon DEF Busy, Has
  <2>5. Cardinality(Busy(what)) \in Nat
    BY <2>1, Zenon DEF Sizes
  <2> QED
    BY Zenon, <2>3, <2>4, <2>5 DEF One
<1>2. Cardinality(Used') = Cardinality(Used) + One(p \in Proxies /\ abp'[p].strong > 0) - One(p \in Proxies /\ abp[p].strong > 0) /\ Cardinality(Used) \in Nat
  <2>1. Used \in SUBSET Proxies /\ Used' \in SUBSET Proxies
    BY Zenon
  <2>2. Cardinality(Used) \in Nat
    BY <2>1, Zenon DEF Sizes
  <2>3. \A q \in Proxies : q # p => (q \in Used <=> q \in Used')
    BY Zenon
  <2>4. One(p \in Proxies /\ abp[p].strong > 0) = One(p \in Used) /\ One(p \in Proxies /\ abp'[p].strong > 0) = One(p \in Used')
    BY Zenon DEF One
  <2>5. CASE p \in Proxies
    <3>1. Cardinality(Used') = Cardinality(Used) + One(p \in Used') - One(p \in Used)
      <4> HIDE DEF Used
      <4> QED
        BY <2>1, <2>3, <2>5, CountOne, SMT
    <3> HIDE DEF Used
    <3> QED
      BY Zenon, <3>1, <2>2, <2>4 DEF One
  <2>6. CASE p \notin Proxies
    <3>1. Used' = Used
      BY <2>1, <2>3, <2>6, Zenon
    <3>2. One(p \in Proxies /\ abp[p].strong > 0) = 0 /\ One(p \in Proxies /\ abp'[p].strong > 0) = 0
      BY <2>6, Zenon DEF One
    <3> HIDE DEF Used
    <3> QED
      BY <3>1, <3>2, <2>2 DEF One
  <2> QED
    BY <2>5, <2>6, Zenon
<1>3. /\ Cardinality(Busy({"decRemote"})) \in Nat
      /\ Cardinality(Busy({"decRemote"})') = Cardinality(Busy({"decRemote"})) + One(Has(agenda'[t], {"decRemote"})) - One(Has(agenda[t], {"decRemote"}))
  BY <1>1, Zenon
<1>4. /\ Cardinality(Busy({"findObject", "withLock"})) \in Nat
      /\ Cardinality(Busy({"findObject", "withLock"})') =
           Cardinality(Busy({"findObject", "withLock"})) + One(Has(agenda'[t], {"findObject", "withLock"})) - One(Has(agenda[t], {"findObject", "withLock"}))
  BY <1>1, Zenon
<1>5. remote.strong = One(given) + Cardinality(Used) + Cardinality(Busy({"decRemote"}))
                      + Cardinality(Busy({"findObject", "withLock"}))
  BY Zenon DEF RemoteHeldOnce, One
<1>6. remote'.strong = One(given') + Cardinality(Used') + Cardinality(Busy({"decRemote"})')
                       + Cardinality(Busy({"findObject", "withLock"})')
  <2>1. One(given) \in Int /\ One(given') \in Int /\ One(p \in Proxies /\ abp[p].strong > 0) \in Int /\ One(p \in Proxies /\ abp'[p].strong > 0) \in Int
    BY Zenon, OneIsInt
  <2>2. One(Has(agenda[t], {"decRemote"})) \in Int /\ One(Has(agenda'[t], {"decRemote"})) \in Int /\ One(Has(agenda[t], {"findObject", "withLock"})) \in Int /\ One(Has(agenda'[t], {"findObject", "withLock"})) \in Int
    BY Zenon, OneIsInt
  <2> HIDE DEF Used
  <2> QED
    BY <1>2, <1>3, <1>4, <1>5, <2>1, <2>2, SMT DEF RemoteMoves
<1> QED
  BY <1>6, Zenon DEF RemoteHeldOnce, One

\* A step of t keeps the invariant when it changes the counts by what it changes for t.
LEMMA RefStep ==
  ASSUME Sizes(Threads), Sizes(Proxies), RefInv, NEW t \in Threads, Others(t), RefTypes', ValueKept',
         \A q \in Proxies : StrongMoves(t, q) /\ WeakMoves(t, q),
         \A q \in Proxies : abp'[q].weak = 0 => abp'[q].mClazz = None,
         NEW p, \A q \in Proxies : q # p => abp'[q].strong = abp[q].strong, RemoteMoves(t, p),
         \A u \in Threads : u # t /\ told[u] # None => abp'[held[u]].mClazz = abp[held[u]].mClazz,
         ThreadKeeps(t)'
  PROVE  RefInv'
<1>1. \A q \in Proxies : Counted(q)'
  BY CountedStep, Zenon DEF RefInv
<1>2. RemoteHeldOnce'
  BY RemoteStep, Zenon DEF RefInv
<1>3. \A u \in Threads : ThreadKeeps(u)'
  <2>1. ASSUME NEW u \in Threads, u # t PROVE ThreadKeeps(u)'
    <3>1. ThreadKeeps(u)
      BY Zenon DEF RefInv
    <3> QED
      BY <2>1, <3>1 DEF ThreadKeeps, Others
  <2> QED
    BY <2>1, Zenon
<1> QED
  BY <1>1, <1>2, <1>3, Zenon DEF RefInv

\* The agenda of one thread changes.
AgendaOf(t, a) == /\ DOMAIN agenda' = Threads /\ agenda'[t] = a
                  /\ \A u \in Threads : u # t => agenda'[u] = agenda[u]

LEMMA AgendaBy ==
  ASSUME RefTypes, NEW t \in Threads
  PROVE  /\ \A a : agenda' = [agenda EXCEPT ![t] = a] => AgendaOf(t, a)
         /\ UNCHANGED agenda => AgendaOf(t, agenda[t])
BY Zenon DEF RefTypes, AgendaOf

LEMMA AgendaChanges ==
  ASSUME RefTypes, NEW t \in Threads, NEW a, AgendaOf(t, a), Shaped(a)
  PROVE  /\ DOMAIN agenda' = Threads /\ agenda'[t] = a
         /\ \A u \in Threads : u # t => agenda'[u] = agenda[u]
         /\ \A u \in Threads : Shaped(agenda'[u])
BY Zenon DEF RefTypes, AgendaOf

\* What t is told is the class of what it holds.
ToldWell(t) ==
    /\ told' \in [Threads -> Class \cup {None}]
    /\ \A u \in Threads : u # t => told'[u] = told[u]
    /\ told'[t] # None => held[t] # None /\ abp[held[t]].mClazz = told'[t]

LEMMA ToldAsBefore ==
  ASSUME RefInv, NEW t \in Threads, UNCHANGED told PROVE ToldWell(t)
<1>1. told \in [Threads -> Class \cup {None}]
  BY Zenon DEF RefInv, RefTypes
<1>2. ThreadKeeps(t)
  BY Zenon DEF RefInv
<1> QED
  BY <1>1, <1>2, Zenon DEF ThreadKeeps, ToldWell

\* Steps that leave the ABpBinders and what the threads hold alone.
LEMMA QuietStep ==
  ASSUME Sizes(Threads), Sizes(Proxies), RefInv, NEW t \in Threads, NEW a, AgendaOf(t, a), Shaped(a),
         UNCHANGED <<abp, held, weakly, given>>, ToldWell(t),
         value' = value \/ (value = Absent /\ value' = None),
         \A q : HasOn(a, "decWeak", q) <=> HasOn(agenda[t], "decWeak", q),
         value' \in Proxies /\ Has(agenda[t], {"onLastStrongRef"}) => Has(a, {"onLastStrongRef"}),
         Has(a, {"findObject", "withLock"}) => held[t] = None,
         Has(a, {"descriptor", "setClass"}) => held[t] # None,
         remote' \in Remote,
         remote'.strong = remote.strong + One(Has(a, {"decRemote"})) - One(Has(agenda[t], {"decRemote"}))
                          + One(Has(a, {"findObject", "withLock"})) - One(Has(agenda[t], {"findObject", "withLock"}))
  PROVE  RefInv'
<1>1. RefTypes
  BY Zenon DEF RefInv
<1>2. /\ DOMAIN agenda' = Threads /\ agenda'[t] = a
      /\ \A u \in Threads : u # t => agenda'[u] = agenda[u]
      /\ \A u \in Threads : Shaped(agenda'[u])
  BY <1>1, AgendaChanges, Zenon
<1>3. value' \in Proxies \cup {None, Absent}
  BY <1>1, Zenon DEF RefTypes
<1>4. RefTypes'
  BY <1>1, <1>2, <1>3, Zenon DEF RefTypes, ToldWell
<1>5. Others(t)
  BY <1>2, Zenon DEF Others, ToldWell
<1>6. \A q \in Proxies : value' = q <=> value = q
  BY Zenon, NamesApart
<1>7. ValueKept'
  <2>1. ASSUME value' \in Proxies PROVE \/ \E u \in Threads : held'[u] = value'
                                        \/ \E u \in Threads : Has(agenda'[u], {"onLastStrongRef"})
    <3>1. value \in Proxies /\ value' = value
      BY <2>1, <1>6, Zenon
    <3>2. CASE \E u \in Threads : held[u] = value
      BY <3>1, <3>2, Zenon
    <3>3. CASE \E u \in Threads : Has(agenda[u], {"onLastStrongRef"})
      BY <3>3, <2>1, <1>2, Zenon
    <3> QED
      BY <3>1, <3>2, <3>3, Zenon DEF RefInv, ValueKept
  <2> QED
    BY <2>1, Zenon DEF ValueKept
<1>8. ASSUME NEW q \in Proxies PROVE StrongMoves(t, q) /\ WeakMoves(t, q)
  <2>1. abp[q].strong \in Nat /\ abp[q].weak \in Nat
    BY Zenon, <1>1 DEF RefTypes, Proxy
  <2>2. One(value' = q) = One(value = q) /\ One(HasOn(agenda'[t], "decWeak", q)) = One(HasOn(agenda[t], "decWeak", q))
    BY <1>2, <1>6, Zenon DEF One
  <2>3. /\ One(held[t] = q) \in Int /\ One(weakly[t] = q) \in Int /\ One(value = q) \in Int
        /\ One(HasOn(agenda[t], "decWeak", q)) \in Int
    BY OneIsInt, Zenon
  <2> QED
    BY <2>1, <2>2, <2>3 DEF StrongMoves, WeakMoves
<1>9. RemoteMoves(t, None)
  <2>1. /\ One(None \in Proxies /\ abp[None].strong > 0) = 0
        /\ One(None \in Proxies /\ abp'[None].strong > 0) = 0
    BY Zenon, NamesApart DEF One
  <2>2. One(given') = One(given) /\ One(given) \in Int
    BY Zenon, OneIsInt
  <2>3. /\ One(Has(a, {"decRemote"})) \in Int /\ One(Has(agenda[t], {"decRemote"})) \in Int
        /\ One(Has(a, {"findObject", "withLock"})) \in Int /\ One(Has(agenda[t], {"findObject", "withLock"})) \in Int
    BY Zenon, OneIsInt
  <2>4. remote.strong \in Int
    BY Zenon, <1>1 DEF RefTypes, Remote
  <2> QED
    BY <1>2, <2>1, <2>2, <2>3, <2>4 DEF RemoteMoves
<1>10. ThreadKeeps(t)'
  BY <1>2, Zenon DEF ThreadKeeps, ToldWell
<1>11. /\ \A q \in Proxies : q # None => abp'[q].strong = abp[q].strong
       /\ \A u \in Threads : u # t /\ told[u] # None => abp'[held[u]].mClazz = abp[held[u]].mClazz
       /\ \A q \in Proxies : abp'[q].weak = 0 => abp'[q].mClazz = None
  BY Zenon DEF RefInv
<1> QED
  BY <1>4, <1>5, <1>7, <1>8, <1>9, <1>10, <1>11, RefStep, Zenon

-----------------------------------------------------------------------------
(* References: the steps of lookupOrCreateFromBinder                       *)

\* The agenda a step leaves.
LEMMA StepAgenda ==
  ASSUME RefInv, NEW t \in Threads, NEW what, NEW steps, Step(t, what, steps)
  PROVE  /\ agenda[t] # <<>> /\ Head(agenda[t]).do = what /\ Shaped(agenda[t])
         /\ AgendaOf(t, steps \o Tail(agenda[t]))
<1>1. DOMAIN agenda = Threads /\ Shaped(agenda[t])
  BY Zenon DEF RefInv, RefTypes
<1>2. agenda[t] # <<>> /\ Head(agenda[t]).do = what
  BY Zenon DEF Step, At, Idle
<1>3. agenda' = [agenda EXCEPT ![t] = steps \o Tail(agenda[t])]
  BY Zenon, <1>1 DEF Step, Then
<1> QED
  BY <1>1, <1>2, <1>3, AgendaBy, Zenon DEF RefInv

LEMMA RemoteCount ==
  ASSUME RefInv, NEW n \in Int, remote' = [remote EXCEPT !.strong = @ + n]
  PROVE  remote' \in Remote /\ remote'.strong = remote.strong + n /\ remote.strong \in Int
<1>1. remote \in Remote
  BY Zenon DEF RefInv, RefTypes
<1> QED
  BY <1>1 DEF Remote

LEMMA LookupRefs ==
  ASSUME Sizes(Threads), Sizes(Proxies), RefInv, NEW t \in Threads, lookupOrCreateFromBinder(t)
  PROVE  RefInv'
<1>1. agenda[t] = <<>> /\ AgendaOf(t, Finding) /\ held[t] = None /\ remote' = [remote EXCEPT !.strong = @ + 1]
  BY AgendaBy, Zenon DEF lookupOrCreateFromBinder, Call, Idle, Finding, RefInv
<1>2. Reads(agenda[t], FALSE, FALSE, {}, FALSE, FALSE) /\ Reads(Finding, TRUE, FALSE, {}, FALSE, FALSE) /\ Shaped(Finding)
  BY <1>1, ReadsOfCalls, Zenon DEF Shaped, Calling
<1>3. remote' \in Remote /\ remote'.strong = remote.strong + 1 /\ remote.strong \in Int
  BY <1>1, RemoteCount
<1>4. UNCHANGED <<abp, held, weakly, given>> /\ value' = value /\ UNCHANGED told
  BY Zenon DEF lookupOrCreateFromBinder
<1>5. ToldWell(t)
  BY <1>4, ToldAsBefore, Zenon
<1>6. /\ remote'.strong = remote.strong + One(Has(Finding, {"decRemote"})) - One(Has(agenda[t], {"decRemote"}))
            + One(Has(Finding, {"findObject", "withLock"})) - One(Has(agenda[t], {"findObject", "withLock"}))
  <2>1. /\ One(Has(Finding, {"decRemote"})) = 0 /\ One(Has(agenda[t], {"decRemote"})) = 0
        /\ One(Has(Finding, {"findObject", "withLock"})) = 1 /\ One(Has(agenda[t], {"findObject", "withLock"})) = 0
    BY <1>2, Zenon DEF Reads, One
  <2> QED
    BY <1>3, <2>1
<1>7. /\ \A q : HasOn(Finding, "decWeak", q) <=> HasOn(agenda[t], "decWeak", q)
      /\ Has(agenda[t], {"onLastStrongRef"}) => Has(Finding, {"onLastStrongRef"})
      /\ Has(Finding, {"findObject", "withLock"}) => held[t] = None
      /\ Has(Finding, {"descriptor", "setClass"}) => held[t] # None
  BY <1>1, <1>2, Zenon DEF Reads
<1> QED
  BY <1>1, <1>2, <1>3, <1>4, <1>5, <1>6, <1>7, QuietStep, Zenon

\* What a thread keeps while it is in a call.
LEMMA KeptInCalls ==
  ASSUME RefInv, NEW t \in Threads
  PROVE  /\ Has(agenda[t], {"findObject", "withLock"}) => held[t] = None
         /\ Has(agenda[t], {"descriptor", "setClass"}) => held[t] # None
BY Zenon DEF RefInv, ThreadKeeps

LEMMA RemoteSame ==
  ASSUME RefInv, remote' = remote
  PROVE  remote' \in Remote /\ remote'.strong = remote.strong /\ remote.strong \in Int
<1>1. remote \in Remote
  BY Zenon DEF RefInv, RefTypes
<1> QED
  BY Zenon, <1>1 DEF Remote

LEMMA FindRefs ==
  ASSUME Sizes(Threads), Sizes(Proxies), RefInv, NEW t \in Threads, findObject(t)
  PROVE  RefInv'
<1>1. UNCHANGED <<abp, held, weakly, given>> /\ value' = value /\ UNCHANGED told /\ remote' = remote
  BY Zenon DEF findObject, refs
<1>2. remote' \in Remote /\ remote'.strong = remote.strong /\ remote.strong \in Int /\ ToldWell(t)
  BY <1>1, RemoteSame, ToldAsBefore, Zenon
<1>3. /\ agenda[t] = Finding /\ (AgendaOf(t, Attaching) \/ AgendaOf(t, Locking))
  <2>1. \/ Step(t, "findObject", Attaching) \/ Step(t, "findObject", Locking)
    BY Zenon DEF findObject, Attaching, Locking
  <2>2. ASSUME NEW s \in {Attaching, Locking}, Step(t, "findObject", s) PROVE agenda[t] = Finding /\ AgendaOf(t, s)
    <3>1. /\ agenda[t] # <<>> /\ Head(agenda[t]).do = "findObject" /\ Shaped(agenda[t])
          /\ AgendaOf(t, s \o Tail(agenda[t]))
      BY <2>2, StepAgenda, Zenon
    <3>2. agenda[t] = Finding /\ s \o Tail(agenda[t]) = s
      BY <3>1, CallAgendas, Zenon
    <3> QED
      BY <3>1, <3>2, Zenon
  <2> QED
    BY <2>1, <2>2, Zenon
<1>4. Reads(agenda[t], TRUE, FALSE, {}, FALSE, FALSE) /\ held[t] = None
  BY <1>3, ReadsOfCalls, KeptInCalls, Zenon DEF Reads
<1>5. ASSUME NEW a \in {Attaching, Locking}, AgendaOf(t, a) PROVE RefInv'
  <2>1. Reads(a, TRUE, FALSE, {}, FALSE, FALSE) /\ Shaped(a)
    BY ReadsOfCalls, Zenon DEF Shaped, Calling
  <2>q1. /\ One(Has(a, {"decRemote"})) = 0 /\ One(Has(agenda[t], {"decRemote"})) = 0
         /\ One(Has(a, {"findObject", "withLock"})) = 1 /\ One(Has(agenda[t], {"findObject", "withLock"})) = 1
    BY <1>4, <2>1, Zenon DEF Reads, One
  <2>q2. remote'.strong = remote.strong + One(Has(a, {"decRemote"})) - One(Has(agenda[t], {"decRemote"}))
          + One(Has(a, {"findObject", "withLock"})) - One(Has(agenda[t], {"findObject", "withLock"}))
    BY <1>2, <2>q1
  <2>q3. /\ \A q : HasOn(a, "decWeak", q) <=> HasOn(agenda[t], "decWeak", q)
         /\ Has(agenda[t], {"onLastStrongRef"}) => Has(a, {"onLastStrongRef"})
         /\ Has(a, {"findObject", "withLock"}) => held[t] = None
         /\ Has(a, {"descriptor", "setClass"}) => held[t] # None
    BY <1>4, <2>1, Zenon DEF Reads
  <2> QED
    BY <1>1, <1>2, <1>5, <2>1, <2>q2, <2>q3, QuietStep, Zenon
<1> QED
  BY <1>3, <1>5, Zenon

LEMMA AttachRefs ==
  ASSUME Sizes(Threads), Sizes(Proxies), RefInv, NEW t \in Threads, attachObject(t)
  PROVE  RefInv'
<1>1. /\ UNCHANGED <<abp, held, weakly, given>> /\ UNCHANGED told /\ remote' = remote
      /\ value' = value \/ (value = Absent /\ value' = None)
  BY Zenon DEF attachObject
<1>2. remote' \in Remote /\ remote'.strong = remote.strong /\ remote.strong \in Int /\ ToldWell(t)
  BY <1>1, RemoteSame, ToldAsBefore, Zenon
<1>3. agenda[t] = Attaching /\ AgendaOf(t, Locking)
  <2>1. /\ agenda[t] # <<>> /\ Head(agenda[t]).do = "attachObject" /\ Shaped(agenda[t])
        /\ AgendaOf(t, <<>> \o Tail(agenda[t]))
    BY StepAgenda, Zenon DEF attachObject
  <2> QED
    BY <2>1, CallAgendas, Zenon
<1>4. /\ Reads(agenda[t], TRUE, FALSE, {}, FALSE, FALSE) /\ Reads(Locking, TRUE, FALSE, {}, FALSE, FALSE)
      /\ held[t] = None /\ Shaped(Locking)
  BY <1>3, ReadsOfCalls, KeptInCalls, Zenon DEF Reads, Shaped, Calling
<1>q1. /\ One(Has(Locking, {"decRemote"})) = 0 /\ One(Has(agenda[t], {"decRemote"})) = 0
       /\ One(Has(Locking, {"findObject", "withLock"})) = 1 /\ One(Has(agenda[t], {"findObject", "withLock"})) = 1
  BY <1>4, Zenon DEF Reads, One
<1>q2. remote'.strong = remote.strong + One(Has(Locking, {"decRemote"})) - One(Has(agenda[t], {"decRemote"}))
        + One(Has(Locking, {"findObject", "withLock"})) - One(Has(agenda[t], {"findObject", "withLock"}))
  BY <1>2, <1>q1
<1>q3. /\ \A q : HasOn(Locking, "decWeak", q) <=> HasOn(agenda[t], "decWeak", q)
       /\ Has(agenda[t], {"onLastStrongRef"}) => Has(Locking, {"onLastStrongRef"})
       /\ Has(Locking, {"findObject", "withLock"}) => held[t] = None
       /\ Has(Locking, {"descriptor", "setClass"}) => held[t] # None
  BY <1>4, Zenon DEF Reads
<1> QED
  BY <1>1, <1>2, <1>3, <1>4, <1>q2, <1>q3, QuietStep, Zenon

LEMMA DecRemoteRefs ==
  ASSUME Sizes(Threads), Sizes(Proxies), RefInv, NEW t \in Threads, decRemote(t)
  PROVE  RefInv'
<1>1. /\ UNCHANGED <<abp, held, weakly, given>> /\ UNCHANGED told /\ value' = value
      /\ remote' = [remote EXCEPT !.strong = @ - 1]
  BY Zenon DEF decRemote
<1>2. remote' \in Remote /\ remote'.strong = remote.strong - 1 /\ remote.strong \in Int
  <2>1. remote \in Remote
    BY Zenon DEF RefInv, RefTypes
  <2> QED
    BY <1>1, <2>1 DEF Remote
<1>3. ToldWell(t)
  BY <1>1, ToldAsBefore, Zenon
<1>4. /\ agenda[t] # <<>> /\ Head(agenda[t]).do = "decRemote" /\ Shaped(agenda[t])
      /\ AgendaOf(t, <<>> \o Tail(agenda[t]))
  BY StepAgenda, Zenon DEF decRemote
<1>5. \/ agenda[t] = Returning /\ <<>> \o Tail(agenda[t]) = <<>>
      \/ \E p \in Proxies : agenda[t] = Leaving(p) /\ <<>> \o Tail(agenda[t]) = Weakening(p)
  BY <1>4, CallAgendas, Zenon
<1>6. CASE agenda[t] = Returning /\ <<>> \o Tail(agenda[t]) = <<>>
  <2>1. AgendaOf(t, <<>>)
    BY Zenon, <1>4, <1>6
  <2>2. /\ Reads(agenda[t], FALSE, TRUE, {}, FALSE, FALSE) /\ Reads(<<>>, FALSE, FALSE, {}, FALSE, FALSE) /\ Shaped(<<>>)
    BY <1>6, ReadsOfCalls, Zenon DEF Shaped, Calling
  <2>q1. /\ One(Has(<<>>, {"decRemote"})) = 0 /\ One(Has(agenda[t], {"decRemote"})) = 1
         /\ One(Has(<<>>, {"findObject", "withLock"})) = 0 /\ One(Has(agenda[t], {"findObject", "withLock"})) = 0
    BY <2>2, Zenon DEF Reads, One
  <2>q2. remote'.strong = remote.strong + One(Has(<<>>, {"decRemote"})) - One(Has(agenda[t], {"decRemote"}))
          + One(Has(<<>>, {"findObject", "withLock"})) - One(Has(agenda[t], {"findObject", "withLock"}))
    BY <1>2, <2>q1
  <2>q3. /\ \A q : HasOn(<<>>, "decWeak", q) <=> HasOn(agenda[t], "decWeak", q)
         /\ Has(agenda[t], {"onLastStrongRef"}) => Has(<<>>, {"onLastStrongRef"})
         /\ Has(<<>>, {"findObject", "withLock"}) => held[t] = None
         /\ Has(<<>>, {"descriptor", "setClass"}) => held[t] # None
    BY <2>2, Zenon DEF Reads
  <2> QED
    BY <1>1, <1>2, <1>3, <2>1, <2>2, <2>q2, <2>q3, QuietStep, Zenon
<1>7. ASSUME NEW p \in Proxies, agenda[t] = Leaving(p), <<>> \o Tail(agenda[t]) = Weakening(p) PROVE RefInv'
  <2>1. AgendaOf(t, Weakening(p))
    BY Zenon, <1>4, <1>7
  <2>2. /\ Reads(agenda[t], FALSE, TRUE, {p}, FALSE, FALSE) /\ Reads(Weakening(p), FALSE, FALSE, {p}, FALSE, FALSE)
        /\ Shaped(Weakening(p))
    BY <1>7, ReadsOfCalls, Zenon DEF Shaped, Calling
  <2>q1. /\ One(Has(Weakening(p), {"decRemote"})) = 0 /\ One(Has(agenda[t], {"decRemote"})) = 1
         /\ One(Has(Weakening(p), {"findObject", "withLock"})) = 0 /\ One(Has(agenda[t], {"findObject", "withLock"})) = 0
    BY <2>2, Zenon DEF Reads, One
  <2>q2. remote'.strong = remote.strong + One(Has(Weakening(p), {"decRemote"})) - One(Has(agenda[t], {"decRemote"}))
          + One(Has(Weakening(p), {"findObject", "withLock"})) - One(Has(agenda[t], {"findObject", "withLock"}))
    BY <1>2, <2>q1
  <2>q3. /\ \A q : HasOn(Weakening(p), "decWeak", q) <=> HasOn(agenda[t], "decWeak", q)
         /\ Has(agenda[t], {"onLastStrongRef"}) => Has(Weakening(p), {"onLastStrongRef"})
         /\ Has(Weakening(p), {"findObject", "withLock"}) => held[t] = None
         /\ Has(Weakening(p), {"descriptor", "setClass"}) => held[t] # None
    BY <2>2, Zenon DEF Reads
  <2> QED
    BY <1>1, <1>2, <1>3, <2>1, <2>2, <2>q2, <2>q3, QuietStep, Zenon
<1> QED
  BY <1>5, <1>6, <1>7, Zenon

\* What the counts say.
LEMMA CountsTell ==
  ASSUME Sizes(Threads), RefInv, NEW p \in Proxies
  PROVE  /\ abp[p].strong \in Nat /\ abp[p].weak \in Nat /\ abp[p].weak >= abp[p].strong
         /\ \A t \in Threads : held[t] = p => abp[p].strong >= 1 /\ abp[p].weak >= 1
         /\ \A t \in Threads : weakly[t] = p \/ HasOn(agenda[t], "decWeak", p) => abp[p].weak >= abp[p].strong + 1
         /\ value = p => abp[p].weak >= abp[p].strong + 1
<1>1. Counted(p) /\ abp[p] \in Proxy
  BY Zenon DEF RefInv, RefTypes
<1>2. Holders(p) \in SUBSET Threads /\ Keepers(p) \in SUBSET Threads /\ Weakeners(p) \in SUBSET Threads
  BY Zenon DEF Holders, Keepers, Weakeners
<1>3. /\ Cardinality(Holders(p)) \in Nat /\ (Cardinality(Holders(p)) = 0 <=> Holders(p) = {})
      /\ Cardinality(Keepers(p)) \in Nat /\ (Cardinality(Keepers(p)) = 0 <=> Keepers(p) = {})
      /\ Cardinality(Weakeners(p)) \in Nat /\ (Cardinality(Weakeners(p)) = 0 <=> Weakeners(p) = {})
  BY <1>2, Zenon DEF Sizes
<1>4. /\ \A t \in Threads : held[t] = p => Holders(p) # {}
      /\ \A t \in Threads : weakly[t] = p => Keepers(p) # {}
      /\ \A t \in Threads : HasOn(agenda[t], "decWeak", p) => Weakeners(p) # {}
  BY Zenon DEF Holders, Keepers, Weakeners
<1>5. One(value = p) \in Nat /\ (value = p => One(value = p) = 1)
  BY Zenon DEF One
<1>6. /\ abp[p].strong = Cardinality(Holders(p))
      /\ abp[p].weak = Cardinality(Holders(p)) + Cardinality(Keepers(p)) + Cardinality(Weakeners(p))
                     + One(value = p)
  BY <1>1, Zenon DEF Counted
<1>7. abp[p].strong \in Nat /\ abp[p].weak \in Nat
  BY Zenon, <1>1 DEF Proxy
<1>8. /\ Holders(p) # {} => abp[p].strong >= 1 /\ abp[p].weak >= 1
      /\ Keepers(p) # {} => abp[p].weak >= abp[p].strong + 1
      /\ Weakeners(p) # {} => abp[p].weak >= abp[p].strong + 1
      /\ value = p => abp[p].weak >= abp[p].strong + 1
      /\ abp[p].weak >= abp[p].strong
  BY <1>3, <1>5, <1>6
<1> QED
  BY <1>4, <1>7, <1>8, Zenon

-----------------------------------------------------------------------------
(* References: classes                                                     *)

LEMMA AssociateRefs ==
  ASSUME Sizes(Threads), Sizes(Proxies), RefInv, NEW t \in Threads, NEW c \in Class, AIBinder_associateClass(t, c)
  PROVE  RefInv'
<1>1. UNCHANGED <<abp, held, weakly, given>> /\ value' = value /\ remote' = remote /\ held[t] # None
  BY Zenon DEF AIBinder_associateClass
<1>2. remote' \in Remote /\ remote'.strong = remote.strong /\ remote.strong \in Int
  BY <1>1, RemoteSame, Zenon
<1>3. ToldWell(t)
  <2>1. CASE UNCHANGED told
    BY <2>1, ToldAsBefore, Zenon
  <2>2. CASE abp[held[t]].mClazz = c /\ told' = [told EXCEPT ![t] = c]
    <3>1. told \in [Threads -> Class \cup {None}]
      BY Zenon DEF RefInv, RefTypes
    <3> QED
      BY <1>1, <2>2, <3>1, Zenon DEF ToldWell
  <2> QED
    BY <2>1, <2>2, Zenon DEF AIBinder_associateClass, Associated
<1>4. agenda[t] = <<>> /\ (AgendaOf(t, Asking(c)) \/ AgendaOf(t, <<>>))
  BY AgendaBy, Zenon DEF AIBinder_associateClass, Call, Idle, Asking, RefInv
<1>5. Reads(agenda[t], FALSE, FALSE, {}, FALSE, FALSE)
  BY <1>4, ReadsOfCalls, Zenon
<1>6. CASE AgendaOf(t, Asking(c))
  <2>1. Reads(Asking(c), FALSE, FALSE, {}, FALSE, TRUE) /\ Shaped(Asking(c))
    BY ReadsOfCalls, Zenon DEF Shaped, Calling
  <2>q1. /\ One(Has(Asking(c), {"decRemote"})) = 0 /\ One(Has(agenda[t], {"decRemote"})) = 0
         /\ One(Has(Asking(c), {"findObject", "withLock"})) = 0 /\ One(Has(agenda[t], {"findObject", "withLock"})) = 0
    BY <1>1, <1>5, <2>1, Zenon DEF Reads, One
  <2>q2. remote'.strong = remote.strong + One(Has(Asking(c), {"decRemote"})) - One(Has(agenda[t], {"decRemote"}))
          + One(Has(Asking(c), {"findObject", "withLock"})) - One(Has(agenda[t], {"findObject", "withLock"}))
    BY <1>2, <2>q1
  <2>q3. /\ \A q : HasOn(Asking(c), "decWeak", q) <=> HasOn(agenda[t], "decWeak", q)
         /\ Has(agenda[t], {"onLastStrongRef"}) => Has(Asking(c), {"onLastStrongRef"})
         /\ Has(Asking(c), {"findObject", "withLock"}) => held[t] = None
         /\ Has(Asking(c), {"descriptor", "setClass"}) => held[t] # None
    BY <1>1, <1>5, <2>1, Zenon DEF Reads
  <2> QED
    BY <1>1, <1>2, <1>3, <1>6, <2>1, <2>q2, <2>q3, QuietStep, Zenon
<1>7. CASE AgendaOf(t, <<>>)
  <2>1. Reads(<<>>, FALSE, FALSE, {}, FALSE, FALSE) /\ Shaped(<<>>)
    BY ReadsOfCalls, Zenon DEF Shaped, Calling
  <2>q1. /\ One(Has(<<>>, {"decRemote"})) = 0 /\ One(Has(agenda[t], {"decRemote"})) = 0
         /\ One(Has(<<>>, {"findObject", "withLock"})) = 0 /\ One(Has(agenda[t], {"findObject", "withLock"})) = 0
    BY <1>5, <2>1, Zenon DEF Reads, One
  <2>q2. remote'.strong = remote.strong + One(Has(<<>>, {"decRemote"})) - One(Has(agenda[t], {"decRemote"}))
          + One(Has(<<>>, {"findObject", "withLock"})) - One(Has(agenda[t], {"findObject", "withLock"}))
    BY <1>2, <2>q1
  <2>q3. /\ \A q : HasOn(<<>>, "decWeak", q) <=> HasOn(agenda[t], "decWeak", q)
         /\ Has(agenda[t], {"onLastStrongRef"}) => Has(<<>>, {"onLastStrongRef"})
         /\ Has(<<>>, {"findObject", "withLock"}) => held[t] = None
         /\ Has(<<>>, {"descriptor", "setClass"}) => held[t] # None
    BY <1>5, <2>1, Zenon DEF Reads
  <2> QED
    BY <1>1, <1>2, <1>3, <1>7, <2>1, <2>q2, <2>q3, QuietStep, Zenon
<1> QED
  BY <1>4, <1>6, <1>7, Zenon

LEMMA DescriptorRefs ==
  ASSUME Sizes(Threads), Sizes(Proxies), RefInv, NEW t \in Threads, getInterfaceDescriptor(t)
  PROVE  RefInv'
<1>1. UNCHANGED <<abp, held, weakly, given>> /\ value' = value /\ remote' = remote /\ UNCHANGED told
  BY Zenon DEF getInterfaceDescriptor, refs
<1>2. remote' \in Remote /\ remote'.strong = remote.strong /\ remote.strong \in Int /\ ToldWell(t)
  BY <1>1, RemoteSame, ToldAsBefore, Zenon
<1>3. \E c \in Class : agenda[t] = Asking(c) /\ (AgendaOf(t, Setting(c)) \/ AgendaOf(t, <<>>))
  <2>1. Step(t, "descriptor", Setting(On(t))) \/ Step(t, "descriptor", <<>>)
    BY Zenon DEF getInterfaceDescriptor, Setting
  <2>2. agenda[t] # <<>> /\ Head(agenda[t]).do = "descriptor" /\ Shaped(agenda[t])
    BY <2>1, StepAgenda, Zenon
  <2>3. PICK c \in Class : /\ agenda[t] = Asking(c) /\ Head(agenda[t]).on = c /\ <<>> \o Tail(agenda[t]) = <<>>
                           /\ Setting(c) \o Tail(agenda[t]) = Setting(c)
    BY <2>2, CallAgendas, Zenon
  <2>4. On(t) = c
    BY <2>3, Zenon DEF On
  <2>5. AgendaOf(t, Setting(On(t)) \o Tail(agenda[t])) \/ AgendaOf(t, <<>> \o Tail(agenda[t]))
    BY <2>1, StepAgenda, Zenon
  <2>6. AgendaOf(t, Setting(c)) \/ AgendaOf(t, <<>>)
    BY Zenon, <2>3, <2>4, <2>5
  <2> QED
    BY <2>3, <2>6, Zenon
<1>4. PICK c \in Class : agenda[t] = Asking(c) /\ (AgendaOf(t, Setting(c)) \/ AgendaOf(t, <<>>))
  BY <1>3, Zenon
<1>5. Reads(agenda[t], FALSE, FALSE, {}, FALSE, TRUE) /\ held[t] # None
  <2>1. Reads(agenda[t], FALSE, FALSE, {}, FALSE, TRUE)
    BY <1>4, ReadsOfCalls, Zenon
  <2> QED
    BY <2>1, KeptInCalls, Zenon DEF Reads
<1>6. CASE AgendaOf(t, Setting(c))
  <2>1. Reads(Setting(c), FALSE, FALSE, {}, FALSE, TRUE) /\ Shaped(Setting(c))
    BY ReadsOfCalls, Zenon DEF Shaped, Calling
  <2>q1. /\ One(Has(Setting(c), {"decRemote"})) = 0 /\ One(Has(agenda[t], {"decRemote"})) = 0
         /\ One(Has(Setting(c), {"findObject", "withLock"})) = 0 /\ One(Has(agenda[t], {"findObject", "withLock"})) = 0
    BY <1>5, <2>1, Zenon DEF Reads, One
  <2>q2. remote'.strong = remote.strong + One(Has(Setting(c), {"decRemote"})) - One(Has(agenda[t], {"decRemote"}))
          + One(Has(Setting(c), {"findObject", "withLock"})) - One(Has(agenda[t], {"findObject", "withLock"}))
    BY <1>2, <2>q1
  <2>q3. /\ \A q : HasOn(Setting(c), "decWeak", q) <=> HasOn(agenda[t], "decWeak", q)
         /\ Has(agenda[t], {"onLastStrongRef"}) => Has(Setting(c), {"onLastStrongRef"})
         /\ Has(Setting(c), {"findObject", "withLock"}) => held[t] = None
         /\ Has(Setting(c), {"descriptor", "setClass"}) => held[t] # None
    BY <1>5, <2>1, Zenon DEF Reads
  <2> QED
    BY <1>1, <1>2, <1>6, <2>1, <2>q2, <2>q3, QuietStep, Zenon
<1>7. CASE AgendaOf(t, <<>>)
  <2>1. Reads(<<>>, FALSE, FALSE, {}, FALSE, FALSE) /\ Shaped(<<>>)
    BY ReadsOfCalls, Zenon DEF Shaped, Calling
  <2>q1. /\ One(Has(<<>>, {"decRemote"})) = 0 /\ One(Has(agenda[t], {"decRemote"})) = 0
         /\ One(Has(<<>>, {"findObject", "withLock"})) = 0 /\ One(Has(agenda[t], {"findObject", "withLock"})) = 0
    BY <1>5, <2>1, Zenon DEF Reads, One
  <2>q2. remote'.strong = remote.strong + One(Has(<<>>, {"decRemote"})) - One(Has(agenda[t], {"decRemote"}))
          + One(Has(<<>>, {"findObject", "withLock"})) - One(Has(agenda[t], {"findObject", "withLock"}))
    BY <1>2, <2>q1
  <2>q3. /\ \A q : HasOn(<<>>, "decWeak", q) <=> HasOn(agenda[t], "decWeak", q)
         /\ Has(agenda[t], {"onLastStrongRef"}) => Has(<<>>, {"onLastStrongRef"})
         /\ Has(<<>>, {"findObject", "withLock"}) => held[t] = None
         /\ Has(<<>>, {"descriptor", "setClass"}) => held[t] # None
    BY <1>5, <2>1, Zenon DEF Reads
  <2> QED
    BY <1>1, <1>2, <1>7, <2>1, <2>q2, <2>q3, QuietStep, Zenon
<1> QED
  BY <1>4, <1>6, <1>7, Zenon

LEMMA SetClassRefs ==
  ASSUME Sizes(Threads), Sizes(Proxies), RefInv, NEW t \in Threads, setClass(t)
  PROVE  RefInv'
<1>1. RefTypes /\ ThreadKeeps(t)
  BY Zenon DEF RefInv
<1>2. /\ UNCHANGED <<held, weakly, given, value, remote>>
  BY Zenon DEF setClass
<1>3. PICK c \in Class : agenda[t] = Setting(c) /\ On(t) = c /\ AgendaOf(t, <<>>)
  <2>1. /\ agenda[t] # <<>> /\ Head(agenda[t]).do = "setClass" /\ Shaped(agenda[t])
        /\ AgendaOf(t, <<>> \o Tail(agenda[t]))
    BY StepAgenda, Zenon DEF setClass
  <2>2. PICK c \in Class : agenda[t] = Setting(c) /\ Head(agenda[t]).on = c /\ <<>> \o Tail(agenda[t]) = <<>>
    BY <2>1, CallAgendas, Zenon
  <2>3. AgendaOf(t, <<>>)
    BY Zenon, <2>1, <2>2
  <2> QED
    BY <2>2, <2>3, Zenon DEF On
<1>4. Reads(agenda[t], FALSE, FALSE, {}, FALSE, TRUE) /\ Reads(<<>>, FALSE, FALSE, {}, FALSE, FALSE) /\ Shaped(<<>>)
  BY <1>3, ReadsOfCalls, Zenon DEF Shaped, Calling
<1>5. held[t] \in Proxies
  <2>1. held[t] \in Proxies \cup {None} /\ held[t] # None
    BY <1>1, <1>4, Zenon DEF RefTypes, ThreadKeeps, Reads
  <2> QED
    BY <2>1, Zenon
<1>6. CASE UNCHANGED <<abp, told>>
  <2>1. remote' \in Remote /\ remote'.strong = remote.strong /\ remote.strong \in Int /\ ToldWell(t)
    BY <1>2, <1>6, RemoteSame, ToldAsBefore, Zenon
  <2>q1. /\ One(Has(<<>>, {"decRemote"})) = 0 /\ One(Has(agenda[t], {"decRemote"})) = 0
         /\ One(Has(<<>>, {"findObject", "withLock"})) = 0 /\ One(Has(agenda[t], {"findObject", "withLock"})) = 0
    BY <1>4, Zenon DEF Reads, One
  <2>q2. remote'.strong = remote.strong + One(Has(<<>>, {"decRemote"})) - One(Has(agenda[t], {"decRemote"}))
          + One(Has(<<>>, {"findObject", "withLock"})) - One(Has(agenda[t], {"findObject", "withLock"}))
    BY <2>1, <2>q1
  <2>q3. /\ \A q : HasOn(<<>>, "decWeak", q) <=> HasOn(agenda[t], "decWeak", q)
         /\ Has(agenda[t], {"onLastStrongRef"}) => Has(<<>>, {"onLastStrongRef"})
         /\ Has(<<>>, {"findObject", "withLock"}) => held[t] = None
         /\ Has(<<>>, {"descriptor", "setClass"}) => held[t] # None
    BY <1>4, Zenon DEF Reads
  <2> QED
    BY <1>2, <1>3, <1>4, <1>6, <2>1, <2>q2, <2>q3, QuietStep, Zenon
<1>7. CASE /\ abp[held[t]].mClazz \in {None, c}
           /\ abp' = [abp EXCEPT ![held[t]].mClazz = c] /\ told' = [told EXCEPT ![t] = c]
  <2> DEFINE p == held[t]
  <2>1. /\ abp' \in [Proxies -> Proxy] /\ abp'[p].mClazz = c
        /\ \A q \in Proxies : abp'[q].strong = abp[q].strong /\ abp'[q].weak = abp[q].weak
        /\ \A q \in Proxies : q # p => abp'[q] = abp[q]
    BY <1>1, <1>5, <1>7 DEF RefTypes, Proxy
  <2>2. /\ told' \in [Threads -> Class \cup {None}] /\ told'[t] = c
        /\ \A u \in Threads : u # t => told'[u] = told[u]
    BY <1>1, <1>7, Zenon DEF RefTypes
  <2>3. /\ DOMAIN agenda' = Threads /\ agenda'[t] = <<>>
        /\ \A u \in Threads : u # t => agenda'[u] = agenda[u]
        /\ \A u \in Threads : Shaped(agenda'[u])
    BY <1>1, <1>3, <1>4, AgendaChanges, Zenon
  <2>4. RefTypes'
    BY <1>1, <1>2, <2>1, <2>2, <2>3, Zenon DEF RefTypes
  <2>5. Others(t)
    BY <1>2, <2>2, <2>3, Zenon DEF Others
  <2>6. ValueKept'
    <3>1. ASSUME NEW u \in Threads, Has(agenda[u], {"onLastStrongRef"}) PROVE Has(agenda'[u], {"onLastStrongRef"})
      BY <1>4, <2>3, <3>1, Zenon DEF Reads
    <3> QED
      BY <1>2, <3>1, Zenon DEF RefInv, ValueKept
  <2>7. ASSUME NEW q \in Proxies PROVE StrongMoves(t, q) /\ WeakMoves(t, q)
    <3>1. abp[q].strong \in Nat /\ abp[q].weak \in Nat
      BY Zenon, <1>1 DEF RefTypes, Proxy
    <3>2. /\ One(value' = q) = One(value = q) /\ One(held'[t] = q) = One(held[t] = q)
          /\ One(weakly'[t] = q) = One(weakly[t] = q)
          /\ One(HasOn(agenda'[t], "decWeak", q)) = 0 /\ One(HasOn(agenda[t], "decWeak", q)) = 0
      BY <1>2, <1>4, <2>3, Zenon DEF One, Reads
    <3>3. One(held[t] = q) \in Int /\ One(weakly[t] = q) \in Int /\ One(value = q) \in Int
      BY OneIsInt, Zenon
    <3> QED
      BY <2>1, <3>1, <3>2, <3>3 DEF StrongMoves, WeakMoves
  <2>8. RemoteMoves(t, None)
    <3>1. /\ One(None \in Proxies /\ abp[None].strong > 0) = 0
          /\ One(None \in Proxies /\ abp'[None].strong > 0) = 0
      BY Zenon, NamesApart DEF One
    <3>2. One(given') = One(given) /\ One(given) \in Int
      BY <1>2, Zenon, OneIsInt
    <3>3. /\ One(Has(agenda'[t], {"decRemote"})) = 0 /\ One(Has(agenda[t], {"decRemote"})) = 0
          /\ One(Has(agenda'[t], {"findObject", "withLock"})) = 0 /\ One(Has(agenda[t], {"findObject", "withLock"})) = 0
      BY <1>4, <2>3, Zenon DEF One, Reads
    <3>4. remote.strong \in Int /\ remote' = remote
      BY Zenon, <1>1, <1>2 DEF RefTypes, Remote
    <3> QED
      BY <3>1, <3>2, <3>3, <3>4 DEF RemoteMoves
  <2>9. ThreadKeeps(t)'
    <3>1. held'[t] = p /\ p # None
      BY <1>2, <1>5, NamesApart, Zenon
    <3> QED
      BY <1>4, <2>1, <2>2, <2>3, <3>1, Zenon DEF ThreadKeeps, Reads
  <2>10. \A u \in Threads : u # t /\ told[u] # None => abp'[held[u]].mClazz = abp[held[u]].mClazz
    <3>1. ASSUME NEW u \in Threads, told[u] # None PROVE abp'[held[u]].mClazz = abp[held[u]].mClazz
      <4>1. ThreadKeeps(u) /\ held[u] \in Proxies \cup {None}
        BY <1>1, Zenon DEF RefInv, RefTypes
      <4>2. held[u] \in Proxies /\ abp[held[u]].mClazz # None
        BY <3>1, <4>1 DEF ThreadKeeps
      <4>3. CASE held[u] = p
        BY <1>7, <2>1, <4>2, <4>3, Zenon
      <4>4. CASE held[u] # p
        BY <2>1, <4>2, <4>4, Zenon
      <4> QED
        BY <4>3, <4>4, Zenon
    <3> QED
      BY <3>1, Zenon
  <2>11. \A q \in Proxies : abp'[q].weak = 0 => abp'[q].mClazz = None
    <3>1. ASSUME NEW q \in Proxies, abp'[q].weak = 0 PROVE abp'[q].mClazz = None
      <4>1. CASE q = p
        <5>1. abp[p].weak = 0
          BY <2>1, <3>1, <4>1, Zenon
        <5>2. abp[p].weak >= 1 /\ abp[p].weak \in Nat
          BY <1>5, CountsTell, Zenon
        <5> QED
          BY <5>1, <5>2
      <4>2. CASE q # p
        BY <2>1, <3>1, <4>2, Zenon DEF RefInv
      <4> QED
        BY <4>1, <4>2, Zenon
    <3> QED
      BY <3>1, Zenon
  <2>12. \A q \in Proxies : q # None => abp'[q].strong = abp[q].strong
    BY <2>1, Zenon
  <2> QED
    BY <2>4, <2>5, <2>6, <2>7, <2>8, <2>9, <2>10, <2>11, <2>12, RefStep, Zenon
<1> QED
  BY <1>3, <1>6, <1>7, Zenon DEF setClass, Sets, Associated

-----------------------------------------------------------------------------
(* References: weak references go                                          *)

LEMMA WeakerBy ==
  ASSUME Sizes(Threads), RefInv, NEW p \in Proxies, abp[p].weak >= abp[p].strong + 1, abp' = Weaker(abp, p)
  PROVE  /\ abp' \in [Proxies -> Proxy]
         /\ \A q \in Proxies : abp'[q].strong = abp[q].strong
         /\ \A q \in Proxies : abp'[q].weak = abp[q].weak - One(q = p)
         /\ \A q \in Proxies : abp'[q].weak = 0 => abp'[q].mClazz = None
         /\ \A u \in Threads : told[u] # None => abp'[held[u]].mClazz = abp[held[u]].mClazz
<1>1. abp \in [Proxies -> Proxy] /\ abp[p] \in Proxy
  BY Zenon DEF RefInv, RefTypes
<1>2. abp[p].strong \in Nat /\ abp[p].weak \in Nat /\ abp[p].mClazz \in Class \cup {None}
  BY Zenon, <1>1 DEF Proxy
<1> DEFINE r == LessWeak(abp[p])
<1>3. abp' = [abp EXCEPT ![p] = r]
  BY <1>1, Zenon DEF Weaker
<1>4. r \in Proxy /\ r.strong = abp[p].strong /\ r.weak = abp[p].weak - 1 /\ (r.weak = 0 => r.mClazz = None)
  BY <1>1, <1>2 DEF Proxy, NoProxy, LessWeak
<1>5. abp[p].strong > 0 => r.mClazz = abp[p].mClazz
  BY <1>1, <1>2 DEF Proxy, NoProxy, LessWeak
<1> HIDE DEF r
<1>6. abp' \in [Proxies -> Proxy] /\ abp'[p] = r /\ \A q \in Proxies : q # p => abp'[q] = abp[q]
  BY <1>1, <1>3, <1>4, Zenon
<1>7. \A q \in Proxies : abp'[q].strong = abp[q].strong
  BY <1>4, <1>6, Zenon
<1>8. ASSUME NEW q \in Proxies PROVE abp'[q].weak = abp[q].weak - One(q = p)
  <2>1. abp[q].weak \in Nat
    BY Zenon, <1>1 DEF Proxy
  <2>2. CASE q = p
    BY Zenon, <2>2, <1>4, <1>6 DEF One
  <2>3. CASE q # p
    BY <2>1, <2>3, <1>6 DEF One
  <2> QED
    BY <2>2, <2>3, Zenon
<1>9. \A q \in Proxies : abp'[q].weak = 0 => abp'[q].mClazz = None
  BY <1>4, <1>6, Zenon DEF RefInv
<1>10. ASSUME NEW u \in Threads, told[u] # None PROVE abp'[held[u]].mClazz = abp[held[u]].mClazz
  <2>1. ThreadKeeps(u) /\ held[u] \in Proxies \cup {None}
    BY Zenon DEF RefInv, RefTypes
  <2>2. held[u] \in Proxies
    BY Zenon, <1>10, <2>1 DEF ThreadKeeps
  <2>3. CASE held[u] = p
    <3>1. abp[p].strong >= 1
      BY <2>3, CountsTell, Zenon
    <3>2. abp[p].strong > 0
      BY <3>1, <1>2
    <3> QED
      BY <1>5, <1>6, <2>3, <3>2, Zenon
  <2>4. CASE held[u] # p
    BY <1>6, <2>2, <2>4, Zenon
  <2> QED
    BY <2>3, <2>4, Zenon
<1> QED
  BY <1>6, <1>7, <1>8, <1>9, <1>10, Zenon

Lighter(t, a, q, p) ==
    One(weakly'[t] = q) - One(weakly[t] = q) + One(HasOn(a, "decWeak", q)) - One(HasOn(agenda[t], "decWeak", q))
    + One(value' = q) - One(value = q) = 0 - One(q = p)

LEMMA WeakByOne ==
  ASSUME NEW t, NEW q, NEW a, NEW p, abp[q].weak \in Nat, abp'[q].weak = abp[q].weak - One(q = p),
         One(held'[t] = q) = One(held[t] = q), One(HasOn(agenda'[t], "decWeak", q)) = One(HasOn(a, "decWeak", q)),
         Lighter(t, a, q, p)
  PROVE  WeakMoves(t, q)
<1>1. /\ One(held[t] = q) \in Int /\ One(weakly[t] = q) \in Int /\ One(value = q) \in Int
      /\ One(weakly'[t] = q) \in Int /\ One(value' = q) \in Int /\ One(q = p) \in Int
      /\ One(HasOn(agenda[t], "decWeak", q)) \in Int /\ One(HasOn(a, "decWeak", q)) \in Int
  BY OneIsInt, Zenon
<1>2. PICK e \in Int : e = One(q = p)
  BY Zenon, <1>1
<1>3. abp'[q].weak = abp[q].weak - e
  BY <1>2, Zenon
<1>4. One(weakly'[t] = q) - One(weakly[t] = q) + One(HasOn(a, "decWeak", q)) - One(HasOn(agenda[t], "decWeak", q))
           + One(value' = q) - One(value = q) = 0 - e
  BY <1>2, Zenon DEF Lighter
<1>5. abp'[q].weak = abp[q].weak + One(weakly'[t] = q) - One(weakly[t] = q)
           + One(HasOn(a, "decWeak", q)) - One(HasOn(agenda[t], "decWeak", q)) + One(value' = q) - One(value = q)
  BY <1>1, <1>3, <1>4
<1>6. abp'[q].weak = abp[q].weak + One(held'[t] = q) - One(held[t] = q) + One(weakly'[t] = q) - One(weakly[t] = q)
           + One(HasOn(a, "decWeak", q)) - One(HasOn(agenda[t], "decWeak", q)) + One(value' = q) - One(value = q)
  BY <1>1, <1>5
<1> QED
  BY <1>6, Zenon DEF WeakMoves

\* A step that takes a weak reference of p, t's own, the Value's or one that is about to go.
LEMMA WeakerStep ==
  ASSUME Sizes(Threads), Sizes(Proxies), RefInv, NEW t \in Threads, NEW p \in Proxies,
         abp[p].weak >= abp[p].strong + 1, abp' = Weaker(abp, p),
         UNCHANGED <<held, told, given, remote>>,
         weakly' \in [Threads -> Proxies \cup {None}], \A u \in Threads : u # t => weakly'[u] = weakly[u],
         NEW a, AgendaOf(t, a), Shaped(a), ValueKept', value' \in Proxies \cup {None, Absent},
         \A q \in Proxies : Lighter(t, a, q, p),
         Has(a, {"decRemote"}) <=> Has(agenda[t], {"decRemote"}),
         Has(a, {"findObject", "withLock"}) <=> Has(agenda[t], {"findObject", "withLock"}),
         Has(a, {"descriptor", "setClass"}) <=> Has(agenda[t], {"descriptor", "setClass"})
  PROVE  RefInv'
<1>1. RefTypes
  BY Zenon DEF RefInv
<1>2. /\ DOMAIN agenda' = Threads /\ agenda'[t] = a
      /\ \A u \in Threads : u # t => agenda'[u] = agenda[u]
      /\ \A u \in Threads : Shaped(agenda'[u])
  BY <1>1, AgendaChanges, Zenon
<1>3. /\ abp' \in [Proxies -> Proxy]
      /\ \A q \in Proxies : abp'[q].strong = abp[q].strong
      /\ \A q \in Proxies : abp'[q].weak = abp[q].weak - One(q = p)
      /\ \A q \in Proxies : abp'[q].weak = 0 => abp'[q].mClazz = None
      /\ \A u \in Threads : told[u] # None => abp'[held[u]].mClazz = abp[held[u]].mClazz
  BY WeakerBy, Zenon
<1>4. RefTypes'
  BY <1>1, <1>2, <1>3, Zenon DEF RefTypes
<1>5. Others(t)
  BY <1>2, Zenon DEF Others
<1>6. ASSUME NEW q \in Proxies PROVE StrongMoves(t, q) /\ WeakMoves(t, q)
  <2>1. abp[q].strong \in Nat /\ abp[q].weak \in Nat
    BY Zenon, <1>1 DEF RefTypes, Proxy
  <2>2. One(held'[t] = q) = One(held[t] = q) /\ One(HasOn(agenda'[t], "decWeak", q)) = One(HasOn(a, "decWeak", q))
    BY <1>2, Zenon
  <2>3. /\ One(held[t] = q) \in Int /\ One(weakly[t] = q) \in Int /\ One(value = q) \in Int
        /\ One(weakly'[t] = q) \in Int /\ One(value' = q) \in Int /\ One(q = p) \in Int
        /\ One(HasOn(agenda[t], "decWeak", q)) \in Int /\ One(HasOn(a, "decWeak", q)) \in Int
    BY OneIsInt, Zenon
  <2>4. abp'[q].strong = abp[q].strong /\ abp'[q].weak = abp[q].weak - One(q = p)
    BY <1>3, Zenon
  <2>5. Lighter(t, a, q, p)
    BY Zenon
  <2> QED
    <3>1. StrongMoves(t, q)
      BY <2>1, <2>2, <2>3, <2>4 DEF StrongMoves
    <3>2. WeakMoves(t, q)
      BY <2>1, <2>2, <2>4, <2>5, WeakByOne, Zenon
    <3> QED
      BY Zenon, <3>1, <3>2
<1>7. RemoteMoves(t, None)
  <2>1. /\ One(None \in Proxies /\ abp[None].strong > 0) = 0
        /\ One(None \in Proxies /\ abp'[None].strong > 0) = 0
    BY Zenon, NamesApart DEF One
  <2>2. One(given') = One(given) /\ One(given) \in Int
    BY Zenon, OneIsInt
  <2>3. /\ One(Has(a, {"decRemote"})) = One(Has(agenda[t], {"decRemote"}))
        /\ One(Has(a, {"findObject", "withLock"})) = One(Has(agenda[t], {"findObject", "withLock"}))
        /\ One(Has(agenda[t], {"decRemote"})) \in Int /\ One(Has(agenda[t], {"findObject", "withLock"})) \in Int
    BY Zenon, OneIsInt DEF One
  <2>4. remote.strong \in Int
    BY Zenon, <1>1 DEF RefTypes, Remote
  <2> QED
    BY <1>2, <2>1, <2>2, <2>3, <2>4 DEF RemoteMoves
<1>8. ThreadKeeps(t)'
  <2>1. ThreadKeeps(t)
    BY Zenon DEF RefInv
  <2> QED
    BY <1>2, <1>3, <2>1, Zenon DEF ThreadKeeps
<1> QED
  BY <1>3, <1>4, <1>5, <1>6, <1>7, <1>8, RefStep, Zenon

LEMMA OnLastRefs ==
  ASSUME Sizes(Threads), Sizes(Proxies), RefInv, NEW t \in Threads, onLastStrongRef(t)
  PROVE  RefInv'
<1>1. UNCHANGED <<held, weakly, told, given, remote>> /\ value' = None
  BY Zenon DEF onLastStrongRef
<1>2. PICK p \in Proxies : agenda[t] = Ending(p) /\ AgendaOf(t, Leaving(p))
  <2>1. /\ agenda[t] # <<>> /\ Head(agenda[t]).do = "onLastStrongRef" /\ Shaped(agenda[t])
        /\ AgendaOf(t, <<>> \o Tail(agenda[t]))
    BY StepAgenda, Zenon DEF onLastStrongRef
  <2>2. PICK p \in Proxies : agenda[t] = Ending(p) /\ <<>> \o Tail(agenda[t]) = Leaving(p)
    BY <2>1, CallAgendas, Zenon
  <2>3. AgendaOf(t, Leaving(p))
    BY Zenon, <2>1, <2>2
  <2> QED
    BY <2>2, <2>3, Zenon
<1>3. /\ Reads(agenda[t], FALSE, TRUE, {p}, TRUE, FALSE) /\ Reads(Leaving(p), FALSE, TRUE, {p}, FALSE, FALSE)
      /\ Shaped(Leaving(p))
  BY <1>2, ReadsOfCalls, Zenon DEF Shaped, Calling
<1>4. /\ \A q : HasOn(Leaving(p), "decWeak", q) <=> HasOn(agenda[t], "decWeak", q)
      /\ Has(Leaving(p), {"decRemote"}) <=> Has(agenda[t], {"decRemote"})
      /\ Has(Leaving(p), {"findObject", "withLock"}) <=> Has(agenda[t], {"findObject", "withLock"})
      /\ Has(Leaving(p), {"descriptor", "setClass"}) <=> Has(agenda[t], {"descriptor", "setClass"})
      /\ ~Has(Leaving(p), {"findObject", "withLock"}) /\ ~Has(Leaving(p), {"descriptor", "setClass"})
  BY <1>3, Zenon DEF Reads
<1>5. value \in Proxies \cup {None, Absent} /\ None \notin Proxies /\ RefTypes
  BY Zenon, NamesApart DEF RefInv, RefTypes
<1>6. CASE value \in Proxies
  <2>1. abp' = Weaker(abp, value) /\ abp[value].weak >= abp[value].strong + 1
    BY <1>6, CountsTell, Zenon DEF onLastStrongRef
  <2>2. ValueKept'
    BY <1>1, <1>5, Zenon DEF ValueKept
  <2>3. ASSUME NEW q \in Proxies PROVE Lighter(t, Leaving(p), q, value)
    <3>1. /\ One(weakly'[t] = q) = One(weakly[t] = q) /\ One(value' = q) = 0 /\ One(value = q) = One(q = value)
          /\ One(HasOn(Leaving(p), "decWeak", q)) = One(HasOn(agenda[t], "decWeak", q))
      BY <1>1, <1>4, <1>5, Zenon DEF One
    <3>2. One(weakly[t] = q) \in Int /\ One(HasOn(agenda[t], "decWeak", q)) \in Int /\ One(q = value) \in Int
      BY OneIsInt, Zenon
    <3> QED
      BY <3>1, <3>2 DEF Lighter
  <2>4. weakly' \in [Threads -> Proxies \cup {None}] /\ \A u \in Threads : u # t => weakly'[u] = weakly[u]
    BY <1>1, <1>5, Zenon DEF RefTypes
  <2>5. value' \in Proxies \cup {None, Absent}
    BY <1>1, Zenon
  <2> QED
    BY <1>1, <1>2, <1>3, <1>4, <1>6, <2>1, <2>2, <2>3, <2>4, <2>5, WeakerStep, Zenon
<1>7. CASE value \notin Proxies
  <2>1. abp' = abp /\ (value' = value \/ (value = Absent /\ value' = None))
    BY <1>1, <1>5, <1>7, Zenon DEF onLastStrongRef
  <2>2. remote' \in Remote /\ remote'.strong = remote.strong /\ remote.strong \in Int /\ ToldWell(t)
    BY <1>1, RemoteSame, ToldAsBefore, Zenon
  <2>3. remote'.strong = remote.strong + One(Has(Leaving(p), {"decRemote"})) - One(Has(agenda[t], {"decRemote"}))
          + One(Has(Leaving(p), {"findObject", "withLock"})) - One(Has(agenda[t], {"findObject", "withLock"}))
    <3>1. /\ One(Has(Leaving(p), {"decRemote"})) = 1 /\ One(Has(agenda[t], {"decRemote"})) = 1
          /\ One(Has(Leaving(p), {"findObject", "withLock"})) = 0 /\ One(Has(agenda[t], {"findObject", "withLock"})) = 0
      BY <1>3, Zenon DEF Reads, One
    <3> QED
      BY <2>2, <3>1
  <2>4. value' \notin Proxies
    BY <1>1, <1>5, Zenon
  <2> QED
    BY <1>1, <1>2, <1>3, <1>4, <2>1, <2>2, <2>3, <2>4, QuietStep, Zenon
<1> QED
  BY <1>6, <1>7, Zenon

LEMMA DecWeakRefs ==
  ASSUME Sizes(Threads), Sizes(Proxies), RefInv, NEW t \in Threads, decWeak(t)
  PROVE  RefInv'
<1>1. UNCHANGED <<held, weakly, told, given, remote>> /\ value' = value /\ abp' = Weaker(abp, On(t)) /\ RefTypes
  BY Zenon DEF decWeak, RefInv
<1>2. PICK p \in Proxies : agenda[t] = Weakening(p) /\ On(t) = p /\ AgendaOf(t, <<>>)
  <2>1. /\ agenda[t] # <<>> /\ Head(agenda[t]).do = "decWeak" /\ Shaped(agenda[t])
        /\ AgendaOf(t, <<>> \o Tail(agenda[t]))
    BY StepAgenda, Zenon DEF decWeak
  <2>2. PICK p \in Proxies : agenda[t] = Weakening(p) /\ Head(agenda[t]).on = p /\ <<>> \o Tail(agenda[t]) = <<>>
    BY <2>1, CallAgendas, Zenon
  <2>3. AgendaOf(t, <<>>)
    BY Zenon, <2>1, <2>2
  <2> QED
    BY <2>2, <2>3, Zenon DEF On
<1>3. /\ Reads(agenda[t], FALSE, FALSE, {p}, FALSE, FALSE) /\ Reads(<<>>, FALSE, FALSE, {}, FALSE, FALSE) /\ Shaped(<<>>)
  BY <1>2, ReadsOfCalls, Zenon DEF Shaped, Calling
<1>4. /\ Has(<<>>, {"decRemote"}) <=> Has(agenda[t], {"decRemote"})
      /\ Has(<<>>, {"findObject", "withLock"}) <=> Has(agenda[t], {"findObject", "withLock"})
      /\ Has(<<>>, {"descriptor", "setClass"}) <=> Has(agenda[t], {"descriptor", "setClass"})
      /\ ~Has(agenda[t], {"onLastStrongRef"}) /\ HasOn(agenda[t], "decWeak", p)
  BY <1>3, Zenon DEF Reads
<1>5. abp' = Weaker(abp, p) /\ abp[p].weak >= abp[p].strong + 1
  BY <1>1, <1>2, <1>4, CountsTell, Zenon
<1>6. ValueKept'
  <2>1. ASSUME NEW u \in Threads, Has(agenda[u], {"onLastStrongRef"}) PROVE Has(agenda'[u], {"onLastStrongRef"})
    BY <1>2, <1>4, <2>1, Zenon DEF AgendaOf
  <2> QED
    BY <1>1, <2>1, Zenon DEF RefInv, ValueKept
<1>7. ASSUME NEW q \in Proxies PROVE Lighter(t, <<>>, q, p)
  <2>1. /\ One(weakly'[t] = q) = One(weakly[t] = q) /\ One(value' = q) = One(value = q)
        /\ One(HasOn(<<>>, "decWeak", q)) = 0 /\ One(HasOn(agenda[t], "decWeak", q)) = One(q = p)
    BY <1>1, <1>3, Zenon DEF One, Reads
  <2>2. One(weakly[t] = q) \in Int /\ One(value = q) \in Int /\ One(q = p) \in Int
    BY OneIsInt, Zenon
  <2> QED
    BY <2>1, <2>2 DEF Lighter
<1>8. /\ weakly' \in [Threads -> Proxies \cup {None}] /\ \A u \in Threads : u # t => weakly'[u] = weakly[u]
      /\ value' \in Proxies \cup {None, Absent}
  BY <1>1, Zenon DEF RefTypes
<1> QED
  BY <1>1, <1>2, <1>3, <1>4, <1>5, <1>6, <1>7, <1>8, WeakerStep, Zenon

LEMMA WeakDeleteRefs ==
  ASSUME Sizes(Threads), Sizes(Proxies), RefInv, NEW t \in Threads, AIBinder_Weak_delete(t)
  PROVE  RefInv'
<1>1. /\ UNCHANGED <<held, told, given, remote>> /\ value' = value /\ abp' = Weaker(abp, weakly[t]) /\ RefTypes
      /\ weakly' = [weakly EXCEPT ![t] = None] /\ UNCHANGED agenda /\ weakly[t] # None
  BY Zenon DEF AIBinder_Weak_delete, RefInv
<1>2. /\ weakly[t] \in Proxies /\ weakly'[t] = None
      /\ weakly' \in [Threads -> Proxies \cup {None}] /\ \A u \in Threads : u # t => weakly'[u] = weakly[u]
      /\ value' \in Proxies \cup {None, Absent}
  BY Zenon, <1>1 DEF RefTypes
<1>3. AgendaOf(t, agenda[t]) /\ Shaped(agenda[t])
  BY <1>1, AgendaBy, Zenon DEF RefTypes
<1>4. abp[weakly[t]].weak >= abp[weakly[t]].strong + 1
  BY <1>2, CountsTell, Zenon
<1>5. ValueKept'
  BY <1>1, Zenon DEF RefInv, ValueKept
<1>6. ASSUME NEW q \in Proxies PROVE Lighter(t, agenda[t], q, weakly[t])
  <2>1. One(weakly'[t] = q) = 0 /\ One(value' = q) = One(value = q) /\ One(weakly[t] = q) = One(q = weakly[t])
    BY <1>1, <1>2, NamesApart, Zenon DEF One
  <2>2. One(q = weakly[t]) \in Int /\ One(value = q) \in Int /\ One(HasOn(agenda[t], "decWeak", q)) \in Int
    BY OneIsInt, Zenon
  <2> QED
    BY <2>1, <2>2 DEF Lighter
<1> QED
  BY <1>1, <1>2, <1>3, <1>4, <1>5, <1>6, WeakerStep, Zenon

-----------------------------------------------------------------------------
(* References: strong references come and go                               *)

\* A thread with nothing in its hands gets a reference of p, which may have to come back for it.
LEMMA PromoteStep ==
  ASSUME Sizes(Threads), Sizes(Proxies), RefInv, NEW t \in Threads, NEW p \in Proxies, held[t] = None,
         held' = [held EXCEPT ![t] = p], abp' = [abp EXCEPT ![p].strong = @ + 1, ![p].weak = @ + 1],
         remote' = [remote EXCEPT !.strong = @ + Revived(p)], UNCHANGED <<value, weakly, told, given>>,
         NEW a, AgendaOf(t, a), Shaped(a), \A q : HasOn(a, "decWeak", q) <=> HasOn(agenda[t], "decWeak", q),
         Has(agenda[t], {"onLastStrongRef"}) => Has(a, {"onLastStrongRef"}),
         ~Has(a, {"findObject", "withLock"}),
         One(Has(a, {"decRemote"})) + One(Has(a, {"findObject", "withLock"}))
           = One(Has(agenda[t], {"decRemote"})) + One(Has(agenda[t], {"findObject", "withLock"}))
  PROVE  RefInv'
<1>1. RefTypes /\ ThreadKeeps(t) /\ None # p
  BY NamesApart, Zenon DEF RefInv
<1>2. /\ DOMAIN agenda' = Threads /\ agenda'[t] = a
      /\ \A u \in Threads : u # t => agenda'[u] = agenda[u]
      /\ \A u \in Threads : Shaped(agenda'[u])
  BY <1>1, AgendaChanges, Zenon
<1>3. abp \in [Proxies -> Proxy] /\ abp[p].strong \in Nat /\ abp[p].weak \in Nat
  BY Zenon, <1>1 DEF RefTypes, Proxy
<1>4. /\ abp' \in [Proxies -> Proxy] /\ abp'[p].strong = abp[p].strong + 1 /\ abp'[p].weak = abp[p].weak + 1
      /\ \A q \in Proxies : q # p => abp'[q] = abp[q]
      /\ \A q \in Proxies : abp'[q].mClazz = abp[q].mClazz
  BY <1>3 DEF Proxy
<1>5. held' \in [Threads -> Proxies \cup {None}] /\ held'[t] = p /\ \A u \in Threads : u # t => held'[u] = held[u]
  BY <1>1, Zenon DEF RefTypes
<1>6. Revived(p) \in Int /\ (abp[p].strong = 0 => Revived(p) = 1) /\ (abp[p].strong # 0 => Revived(p) = 0)
  BY DEF Revived
<1>7. remote' \in Remote /\ remote'.strong = remote.strong + Revived(p) /\ remote.strong \in Int
  BY <1>6, RemoteCount, Zenon
<1>8. RefTypes'
  BY <1>1, <1>2, <1>4, <1>5, <1>7, Zenon DEF RefTypes
<1>9. Others(t)
  BY <1>2, <1>5, Zenon DEF Others
<1>10. ValueKept'
  <2>1. ASSUME NEW u \in Threads, Has(agenda[u], {"onLastStrongRef"}) PROVE Has(agenda'[u], {"onLastStrongRef"})
    BY <1>2, <2>1, Zenon
  <2>2. ASSUME NEW u \in Threads, held[u] = value, value \in Proxies PROVE held'[u] = value
    <3>1. u # t
      BY <2>2, NamesApart, Zenon
    <3> QED
      BY <1>5, <2>2, <3>1, Zenon
  <2>3. value \in Proxies => \/ \E u \in Threads : held[u] = value
                             \/ \E u \in Threads : Has(agenda[u], {"onLastStrongRef"})
    BY Zenon DEF RefInv, ValueKept
  <2> QED
    BY <2>1, <2>2, <2>3, Zenon DEF ValueKept
<1>11. ASSUME NEW q \in Proxies PROVE StrongMoves(t, q) /\ WeakMoves(t, q)
  <2>1. abp[q].strong \in Nat /\ abp[q].weak \in Nat
    BY Zenon, <1>3 DEF Proxy
  <2>2. /\ One(held[t] = q) = 0 /\ One(weakly'[t] = q) = One(weakly[t] = q) /\ One(value' = q) = One(value = q)
        /\ One(HasOn(agenda'[t], "decWeak", q)) = One(HasOn(agenda[t], "decWeak", q))
    BY <1>2, NamesApart, Zenon DEF One
  <2>3. One(weakly[t] = q) \in Int /\ One(value = q) \in Int /\ One(HasOn(agenda[t], "decWeak", q)) \in Int
    BY OneIsInt, Zenon
  <2>4. CASE q = p
    <3>1. One(held'[t] = q) = 1
      BY <1>5, <2>4, Zenon DEF One
    <3> QED
      BY <1>4, <2>1, <2>2, <2>3, <2>4, <3>1 DEF StrongMoves, WeakMoves
  <2>5. CASE q # p
    <3>1. One(held'[t] = q) = 0
      BY <1>5, <2>5, Zenon DEF One
    <3> QED
      BY <1>4, <2>1, <2>2, <2>3, <2>5, <3>1 DEF StrongMoves, WeakMoves
  <2> QED
    BY <2>4, <2>5, Zenon
<1>12. RemoteMoves(t, p)
  <2>1. PICK u \in Int, u2 \in Int : /\ u = One(p \in Proxies /\ abp[p].strong > 0) /\ u2 - u = Revived(p)
                                     /\ u2 = One(p \in Proxies /\ abp'[p].strong > 0)
    <3>1. CASE abp[p].strong = 0
      <4>1. One(p \in Proxies /\ abp[p].strong > 0) = 0 /\ One(p \in Proxies /\ abp'[p].strong > 0) = 1
        BY <1>3, <1>4, <3>1 DEF One
      <4> QED
        BY <1>6, <3>1, <4>1
    <3>2. CASE abp[p].strong # 0
      <4>1. One(p \in Proxies /\ abp[p].strong > 0) = 1 /\ One(p \in Proxies /\ abp'[p].strong > 0) = 1
        BY <1>3, <1>4, <3>2 DEF One
      <4> QED
        BY <1>6, <3>2, <4>1
    <3> QED
      BY <3>1, <3>2, Zenon
  <2>2. One(given') = One(given) /\ One(given) \in Int
    BY Zenon, OneIsInt
  <2>3. /\ One(Has(a, {"decRemote"})) \in Int /\ One(Has(agenda[t], {"decRemote"})) \in Int
        /\ One(Has(a, {"findObject", "withLock"})) \in Int /\ One(Has(agenda[t], {"findObject", "withLock"})) \in Int
    BY Zenon, OneIsInt
  <2>4. remote'.strong = remote.strong + One(given') - One(given) + u2 - u
                     + One(Has(agenda'[t], {"decRemote"})) - One(Has(agenda[t], {"decRemote"}))
                     + One(Has(agenda'[t], {"findObject", "withLock"})) - One(Has(agenda[t], {"findObject", "withLock"}))
    BY <1>2, <1>6, <1>7, <2>1, <2>2, <2>3
  <2> QED
    BY <2>1, <2>4, Zenon DEF RemoteMoves
<1>13. ThreadKeeps(t)'
  <2>1. told'[t] = None
    BY <1>1, Zenon DEF ThreadKeeps
  <2> QED
    BY <1>1, <1>2, <1>5, <2>1, Zenon DEF ThreadKeeps
<1>14. \A u \in Threads : u # t /\ told[u] # None => abp'[held[u]].mClazz = abp[held[u]].mClazz
  <2>1. ASSUME NEW u \in Threads, told[u] # None PROVE held[u] \in Proxies
    <3>1. ThreadKeeps(u) /\ held[u] \in Proxies \cup {None}
      BY <1>1, Zenon DEF RefInv, RefTypes
    <3> QED
      BY Zenon, <2>1, <3>1 DEF ThreadKeeps
  <2> QED
    BY <1>4, <2>1, Zenon
<1>15. ASSUME NEW q \in Proxies, abp'[q].weak = 0 PROVE abp'[q].mClazz = None
  <2>1. q # p
    BY <1>3, <1>4, <1>15
  <2> QED
    BY <1>4, <1>15, <2>1, Zenon DEF RefInv
<1>16. \A q \in Proxies : q # p => abp'[q].strong = abp[q].strong
  BY <1>4, Zenon
<1> QED
  BY <1>8, <1>9, <1>10, <1>11, <1>12, <1>13, <1>14, <1>15, <1>16, RefStep, Zenon

LEMMA WeakPromoteRefs ==
  ASSUME Sizes(Threads), Sizes(Proxies), RefInv, NEW t \in Threads, AIBinder_Weak_promote(t)
  PROVE  RefInv'
<1>1. /\ UNCHANGED <<value, weakly, told, given>> /\ held[t] = None /\ RefTypes /\ agenda[t] = <<>> /\ AgendaOf(t, <<>>)
      /\ weakly[t] # None
  BY AgendaBy, Zenon DEF AIBinder_Weak_promote, RefInv, Call, Idle
<1>2. Reads(<<>>, FALSE, FALSE, {}, FALSE, FALSE) /\ Shaped(<<>>)
  BY ReadsOfCalls, Zenon DEF Shaped, Calling
<1>3. weakly[t] \in Proxies
  BY Zenon, <1>1 DEF RefTypes
<1>4. /\ \A q : HasOn(<<>>, "decWeak", q) <=> HasOn(agenda[t], "decWeak", q)
      /\ Has(agenda[t], {"onLastStrongRef"}) => Has(<<>>, {"onLastStrongRef"})
      /\ ~Has(<<>>, {"findObject", "withLock"}) /\ ~Has(<<>>, {"descriptor", "setClass"})
      /\ One(Has(<<>>, {"decRemote"})) + One(Has(<<>>, {"findObject", "withLock"}))
           = One(Has(agenda[t], {"decRemote"})) + One(Has(agenda[t], {"findObject", "withLock"}))
  BY <1>1, <1>2, Zenon DEF Reads
<1>5. CASE Promotes(weakly[t])
  <2>1. /\ held' = [held EXCEPT ![t] = weakly[t]]
        /\ abp' = [abp EXCEPT ![weakly[t]].strong = @ + 1, ![weakly[t]].weak = @ + 1]
        /\ remote' = [remote EXCEPT !.strong = @ + Revived(weakly[t])]
    BY <1>5, Zenon DEF AIBinder_Weak_promote
  <2> QED
    BY <1>1, <1>2, <1>3, <1>4, <2>1, PromoteStep, Zenon
<1>6. CASE ~Promotes(weakly[t])
  <2>1. UNCHANGED <<abp, remote, held>>
    BY <1>6, Zenon DEF AIBinder_Weak_promote
  <2>2. remote' \in Remote /\ remote'.strong = remote.strong /\ remote.strong \in Int /\ ToldWell(t)
    BY <1>1, <2>1, RemoteSame, ToldAsBefore, Zenon
  <2>3. remote'.strong = remote.strong + One(Has(<<>>, {"decRemote"})) - One(Has(agenda[t], {"decRemote"}))
          + One(Has(<<>>, {"findObject", "withLock"})) - One(Has(agenda[t], {"findObject", "withLock"}))
    <3>1. One(Has(<<>>, {"decRemote"})) \in Int /\ One(Has(<<>>, {"findObject", "withLock"})) \in Int
      BY OneIsInt, Zenon
    <3> QED
      BY <1>1, <2>2, <3>1
  <2> QED
    BY <1>1, <1>2, <1>4, <2>1, <2>2, <2>3, QuietStep, Zenon
<1> QED
  BY <1>5, <1>6, Zenon

LEMMA WeakNewRefs ==
  ASSUME Sizes(Threads), Sizes(Proxies), RefInv, NEW t \in Threads, AIBinder_Weak_new(t)
  PROVE  RefInv'
<1> DEFINE p == held[t]
<1>1. /\ UNCHANGED <<remote, value, held, told, given>> /\ p # None /\ weakly[t] = None /\ RefTypes /\ agenda[t] = <<>>
      /\ AgendaOf(t, <<>>) /\ weakly' = [weakly EXCEPT ![t] = p] /\ abp' = [abp EXCEPT ![p].weak = @ + 1]
      /\ ThreadKeeps(t)
  BY AgendaBy, Zenon DEF AIBinder_Weak_new, RefInv, Call, Idle
<1>2. Shaped(<<>>) /\ p \in Proxies /\ p # None
  BY <1>1, Zenon DEF Shaped, Calling, RefTypes
<1>3. /\ DOMAIN agenda' = Threads /\ agenda'[t] = agenda[t]
      /\ \A u \in Threads : u # t => agenda'[u] = agenda[u]
      /\ \A u \in Threads : Shaped(agenda'[u])
  BY <1>1, <1>2, AgendaChanges, Zenon
<1>4. abp \in [Proxies -> Proxy] /\ abp[p].weak \in Nat
  BY Zenon, <1>1, <1>2 DEF RefTypes, Proxy
<1>5. /\ abp' \in [Proxies -> Proxy] /\ abp'[p].weak = abp[p].weak + 1
      /\ \A q \in Proxies : q # p => abp'[q] = abp[q]
      /\ \A q \in Proxies : abp'[q].mClazz = abp[q].mClazz /\ abp'[q].strong = abp[q].strong
  <2> HIDE DEF p
  <2> QED
    BY <1>1, <1>2, <1>4 DEF Proxy
<1>6. weakly' \in [Threads -> Proxies \cup {None}] /\ weakly'[t] = p /\ \A u \in Threads : u # t => weakly'[u] = weakly[u]
  BY <1>1, <1>2, Zenon DEF RefTypes
<1>7. RefTypes'
  BY <1>1, <1>3, <1>5, <1>6, Zenon DEF RefTypes
<1>8. Others(t)
  BY <1>1, <1>3, <1>6, Zenon DEF Others
<1>9. ValueKept'
  <2>1. \A u \in Threads : agenda'[u] = agenda[u]
    BY <1>3, Zenon
  <2> QED
    BY <1>1, <2>1, Zenon DEF RefInv, ValueKept
<1>10. ASSUME NEW q \in Proxies PROVE StrongMoves(t, q) /\ WeakMoves(t, q)
  <2>1. abp[q].strong \in Nat /\ abp[q].weak \in Nat
    BY Zenon, <1>4 DEF Proxy
  <2>2. /\ One(held'[t] = q) = One(held[t] = q) /\ One(weakly[t] = q) = 0 /\ One(value' = q) = One(value = q)
        /\ One(HasOn(agenda'[t], "decWeak", q)) = One(HasOn(agenda[t], "decWeak", q))
    BY <1>1, <1>3, NamesApart, Zenon DEF One
  <2>3. One(held[t] = q) \in Int /\ One(value = q) \in Int /\ One(HasOn(agenda[t], "decWeak", q)) \in Int
    BY OneIsInt, Zenon
  <2>4. StrongMoves(t, q)
    BY <1>5, <2>1, <2>2, <2>3 DEF StrongMoves
  <2>5. CASE q = p
    <3>1. One(weakly'[t] = q) = 1
      BY <1>6, <2>5, Zenon DEF One
    <3> HIDE DEF p
    <3> QED
      BY <1>5, <2>1, <2>2, <2>3, <2>4, <2>5, <3>1 DEF WeakMoves
  <2>6. CASE q # p
    <3>1. One(weakly'[t] = q) = 0 /\ abp'[q].weak = abp[q].weak
      BY <1>5, <1>6, <2>6, Zenon DEF One
    <3> HIDE DEF p
    <3> QED
      BY <2>1, <2>2, <2>3, <2>4, <3>1 DEF WeakMoves
  <2> QED
    BY <2>5, <2>6, Zenon
<1>11. RemoteMoves(t, None)
  <2>1. /\ One(None \in Proxies /\ abp[None].strong > 0) = 0
        /\ One(None \in Proxies /\ abp'[None].strong > 0) = 0
    BY Zenon, NamesApart DEF One
  <2>2. One(given') = One(given) /\ One(given) \in Int
    BY <1>1, Zenon, OneIsInt
  <2>3. One(Has(agenda[t], {"decRemote"})) \in Int /\ One(Has(agenda[t], {"findObject", "withLock"})) \in Int
    BY Zenon, OneIsInt
  <2>4. remote.strong \in Int /\ remote' = remote
    BY Zenon, <1>1 DEF RefTypes, Remote
  <2> QED
    BY <1>3, <2>1, <2>2, <2>3, <2>4 DEF RemoteMoves
<1>12. ThreadKeeps(t)'
  BY <1>1, <1>2, <1>3, <1>5, Zenon DEF ThreadKeeps
<1>13. \A u \in Threads : u # t /\ told[u] # None => abp'[held[u]].mClazz = abp[held[u]].mClazz
  <2>1. ASSUME NEW u \in Threads, told[u] # None PROVE held[u] \in Proxies
    <3>1. ThreadKeeps(u) /\ held[u] \in Proxies \cup {None}
      BY <1>1, Zenon DEF RefInv, RefTypes
    <3> QED
      BY Zenon, <2>1, <3>1 DEF ThreadKeeps
  <2> QED
    BY <1>5, <2>1, Zenon
<1>14. ASSUME NEW q \in Proxies, abp'[q].weak = 0 PROVE abp'[q].mClazz = None
  <2>1. q # p
    <3> HIDE DEF p
    <3> QED
      BY <1>4, <1>5, <1>14
  <2> QED
    BY <1>5, <1>14, <2>1, Zenon DEF RefInv
<1>15. \A q \in Proxies : q # None => abp'[q].strong = abp[q].strong
  BY <1>5, Zenon
<1> QED
  BY <1>7, <1>8, <1>9, <1>10, <1>11, <1>12, <1>13, <1>14, <1>15, RefStep, Zenon

LEMMA DecStrongAgenda ==
  ASSUME RefInv, NEW t \in Threads, AIBinder_decStrong(t)
  PROVE  AgendaOf(t, IF abp[held[t]].strong = 1 THEN Ending(held[t]) ELSE Weakening(held[t]))
<1> DEFINE p == held[t]
           a == IF abp[p].strong = 1 THEN Ending(p) ELSE Weakening(p)
<1>1. RefTypes
  BY Zenon DEF RefInv
<1>3. AgendaOf(t, a)
  <2>1. CASE abp[p].strong = 1
    <3>1. agenda' = [agenda EXCEPT ![t] = <<Do("onLastStrongRef", p), Do("decRemote", None)>> \o <<Do("decWeak", p)>>]
      BY <2>1, Zenon DEF AIBinder_decStrong
    <3>2. \A x, y, z : <<x, y>> \o <<z>> = <<x, y, z>>
      BY Zenon, Joined
    <3>3. agenda' = [agenda EXCEPT ![t] = Ending(p)]
      BY Zenon, <3>1, <3>2 DEF Ending
    <3> QED
      BY <1>1, <2>1, <3>3, AgendaBy, Zenon
  <2>2. CASE abp[p].strong # 1
    <3>1. agenda' = [agenda EXCEPT ![t] = <<>> \o <<Do("decWeak", p)>>]
      BY <2>2, Zenon DEF AIBinder_decStrong
    <3>2. \A x : <<>> \o <<x>> = <<x>>
      OBVIOUS
    <3>3. agenda' = [agenda EXCEPT ![t] = Weakening(p)]
      BY Zenon, <3>1, <3>2 DEF Weakening
    <3> QED
      BY <1>1, <2>2, <3>3, AgendaBy, Zenon
  <2> QED
    BY <2>1, <2>2, Zenon
<1> QED
  BY <1>3, Zenon

LEMMA DecStrongRefs ==
  ASSUME Sizes(Threads), Sizes(Proxies), RefInv, NEW t \in Threads, AIBinder_decStrong(t)
  PROVE  RefInv'
<1> DEFINE p == held[t]
           a == IF abp[p].strong = 1 THEN Ending(p) ELSE Weakening(p)
<1>1. /\ UNCHANGED <<remote, value, weakly, given>> /\ p # None /\ RefTypes /\ agenda[t] = <<>>
      /\ abp' = [abp EXCEPT ![p].strong = @ - 1] /\ held' = [held EXCEPT ![t] = None] /\ told' = [told EXCEPT ![t] = None]
  BY Zenon DEF AIBinder_decStrong, RefInv, Idle
<1>2. p \in Proxies
  BY <1>1, Zenon DEF RefTypes
<1>3. AgendaOf(t, a)
  BY DecStrongAgenda, Zenon
<1>4. Shaped(a) /\ Reads(agenda[t], FALSE, FALSE, {}, FALSE, FALSE)
  BY <1>1, <1>2, ReadsOfCalls, Zenon DEF Shaped, Calling
<1>5. /\ abp[p].strong = 1 => Reads(a, FALSE, TRUE, {p}, TRUE, FALSE)
      /\ abp[p].strong # 1 => Reads(a, FALSE, FALSE, {p}, FALSE, FALSE)
  BY ReadsOfCalls, Zenon
<1> HIDE DEF a
<1>6. /\ DOMAIN agenda' = Threads /\ agenda'[t] = a
      /\ \A u \in Threads : u # t => agenda'[u] = agenda[u]
      /\ \A u \in Threads : Shaped(agenda'[u])
  BY <1>1, <1>3, <1>4, AgendaChanges, Zenon
<1>7. abp \in [Proxies -> Proxy] /\ abp[p].strong \in Nat /\ abp[p].weak \in Nat /\ abp[p].strong >= 1
  <2>1. abp \in [Proxies -> Proxy]
    BY <1>1, Zenon DEF RefTypes
  <2>2. abp[p].strong \in Nat /\ abp[p].weak \in Nat /\ abp[p].strong >= 1
    BY <1>2, CountsTell, Zenon
  <2> QED
    BY <2>1, <2>2, Zenon
<1>8. /\ abp' \in [Proxies -> Proxy] /\ abp'[p].strong = abp[p].strong - 1
      /\ \A q \in Proxies : q # p => abp'[q] = abp[q]
      /\ \A q \in Proxies : abp'[q].mClazz = abp[q].mClazz /\ abp'[q].weak = abp[q].weak
  <2> HIDE DEF p
  <2> QED
    BY <1>1, <1>2, <1>7 DEF Proxy
<1>9. /\ held' \in [Threads -> Proxies \cup {None}] /\ held'[t] = None /\ \A u \in Threads : u # t => held'[u] = held[u]
      /\ told' \in [Threads -> Class \cup {None}] /\ told'[t] = None /\ \A u \in Threads : u # t => told'[u] = told[u]
  BY <1>1, Zenon DEF RefTypes
<1>10. RefTypes'
  BY <1>1, <1>6, <1>8, <1>9, Zenon DEF RefTypes
<1>11. Others(t)
  BY <1>1, <1>6, <1>9, Zenon DEF Others
<1>12. ValueKept'
  <2>1. ASSUME value \in Proxies PROVE \/ \E u \in Threads : held'[u] = value
                                       \/ \E u \in Threads : Has(agenda'[u], {"onLastStrongRef"})
    <3>1. CASE \E u \in Threads : Has(agenda[u], {"onLastStrongRef"})
      <4>1. ASSUME NEW u \in Threads, Has(agenda[u], {"onLastStrongRef"}) PROVE Has(agenda'[u], {"onLastStrongRef"})
        BY <1>4, <1>6, <4>1, Zenon DEF Reads
      <4> QED
        BY <3>1, <4>1, Zenon
    <3>2. CASE \E u \in Threads : u # t /\ held[u] = value
      BY <1>9, <3>2, Zenon
    <3>3. CASE value = p /\ abp[p].strong = 1
      BY <1>5, <1>6, <3>3, Zenon DEF Reads
    <3>4. CASE value = p /\ abp[p].strong # 1
      <4>1. Counted(p) /\ Holders(p) \in SUBSET Threads
        BY <1>2, Zenon DEF RefInv, Holders
      <4>2. abp[p].strong = Cardinality(Holders(p))
        BY <4>1, Zenon DEF Counted
      <4>3. ASSUME Holders(p) = {t} PROVE FALSE
        <5>1. {} \in SUBSET Threads /\ t \notin {} /\ {} \cup {t} = {t}
          BY Zenon
        <5>2. Cardinality({} \cup {t}) = Cardinality({}) + 1 /\ Cardinality({}) = 0
          BY <5>1, Zenon DEF Sizes
        <5>3. Cardinality({t}) = 1
          BY <5>1, <5>2
        <5> QED
          BY <3>4, <4>2, <4>3, <5>3, Zenon
      <4>4. t \in Holders(p)
        BY Zenon DEF Holders
      <4>5. \E u \in Holders(p) : u # t
        BY <4>3, <4>4, Zenon
      <4> QED
        BY <3>2, <3>4, <4>5, Zenon DEF Holders
    <3> QED
      BY <2>1, <3>1, <3>2, <3>3, <3>4, Zenon DEF RefInv, ValueKept
  <2> QED
    BY <1>1, <2>1, Zenon DEF ValueKept
<1>13. ASSUME NEW q \in Proxies PROVE StrongMoves(t, q) /\ WeakMoves(t, q)
  <2>1. abp[q].strong \in Nat /\ abp[q].weak \in Nat
    BY Zenon, <1>7 DEF Proxy
  <2>2. /\ One(held'[t] = q) = 0 /\ One(weakly'[t] = q) = One(weakly[t] = q) /\ One(value' = q) = One(value = q)
        /\ One(HasOn(agenda[t], "decWeak", q)) = 0
    BY <1>1, <1>4, <1>9, NamesApart, Zenon DEF One, Reads
  <2>3. One(weakly[t] = q) \in Int /\ One(value = q) \in Int
    BY OneIsInt, Zenon
  <2>4. One(HasOn(agenda'[t], "decWeak", q)) = One(held[t] = q)
    BY <1>5, <1>6, Zenon DEF One, Reads
  <2>5. CASE q = p
    <3>1. One(held[t] = q) = 1
      BY <2>5, Zenon DEF One
    <3> HIDE DEF p
    <3> QED
      BY <1>8, <2>1, <2>2, <2>3, <2>4, <2>5, <3>1 DEF StrongMoves, WeakMoves
  <2>6. CASE q # p
    <3>1. One(held[t] = q) = 0
      BY <2>6, Zenon DEF One
    <3> HIDE DEF p
    <3> QED
      BY <1>8, <2>1, <2>2, <2>3, <2>4, <2>6, <3>1 DEF StrongMoves, WeakMoves
  <2> QED
    BY <2>5, <2>6, Zenon
<1>14. RemoteMoves(t, p)
  <2>1. One(given') = One(given) /\ One(given) \in Int
    BY <1>1, Zenon, OneIsInt
  <2>2. One(Has(agenda[t], {"decRemote"})) = 0 /\ One(Has(agenda[t], {"findObject", "withLock"})) = 0
    BY <1>4, Zenon DEF One, Reads
  <2>3. remote.strong \in Int /\ remote' = remote
    BY Zenon, <1>1 DEF RefTypes, Remote
  <2>4. CASE abp[p].strong = 1
    <3>1. One(Has(agenda'[t], {"decRemote"})) = 1 /\ One(Has(agenda'[t], {"findObject", "withLock"})) = 0
      BY <1>5, <1>6, <2>4, Zenon DEF One, Reads
    <3>2. One(p \in Proxies /\ abp'[p].strong > 0) = 0 /\ One(p \in Proxies /\ abp[p].strong > 0) = 1
      <4> HIDE DEF p
      <4> QED
        BY <1>2, <1>8, <2>4 DEF One
    <3> HIDE DEF p
    <3> QED
      BY <2>1, <2>2, <2>3, <3>1, <3>2 DEF RemoteMoves
  <2>5. CASE abp[p].strong # 1
    <3>1. One(Has(agenda'[t], {"decRemote"})) = 0 /\ One(Has(agenda'[t], {"findObject", "withLock"})) = 0
      BY <1>5, <1>6, <2>5, Zenon DEF One, Reads
    <3>2. One(p \in Proxies /\ abp'[p].strong > 0) = 1 /\ One(p \in Proxies /\ abp[p].strong > 0) = 1
      <4> HIDE DEF p
      <4> QED
        BY <1>2, <1>7, <1>8, <2>5 DEF One
    <3> HIDE DEF p
    <3> QED
      BY <2>1, <2>2, <2>3, <3>1, <3>2 DEF RemoteMoves
  <2> QED
    BY <2>4, <2>5, Zenon
<1>15. ThreadKeeps(t)'
  BY <1>5, <1>6, <1>9, Zenon DEF ThreadKeeps, Reads
<1>16. \A u \in Threads : u # t /\ told[u] # None => abp'[held[u]].mClazz = abp[held[u]].mClazz
  <2>1. ASSUME NEW u \in Threads, told[u] # None PROVE held[u] \in Proxies
    <3>1. ThreadKeeps(u) /\ held[u] \in Proxies \cup {None}
      BY <1>1, Zenon DEF RefInv, RefTypes
    <3> QED
      BY Zenon, <2>1, <3>1 DEF ThreadKeeps
  <2> QED
    BY <1>8, <2>1, Zenon
<1>17. /\ \A q \in Proxies : abp'[q].weak = 0 => abp'[q].mClazz = None
       /\ \A q \in Proxies : q # p => abp'[q].strong = abp[q].strong
  BY <1>8, Zenon DEF RefInv
<1> QED
  BY <1>10, <1>11, <1>12, <1>13, <1>14, <1>15, <1>16, <1>17, RefStep, Zenon

\* A lookup holds the object that it is of.
LEMMA LookupsHold ==
  ASSUME Sizes(Threads), Sizes(Proxies), RefInv, NEW t \in Threads, Has(agenda[t], {"findObject", "withLock"})
  PROVE  remote.strong > 0
<1> DEFINE Used == {q \in Proxies : abp[q].strong > 0}
<1>1. remote.strong = One(given) + Cardinality(Used) + Cardinality(Busy({"decRemote"}))
                      + Cardinality(Busy({"findObject", "withLock"}))
  BY Zenon DEF RefInv, RemoteHeldOnce, One
<1>2. Used \in SUBSET Proxies /\ \A what : Busy(what) \in SUBSET Threads
  BY Zenon DEF Busy
<1>3. t \in Busy({"findObject", "withLock"})
  BY Zenon DEF Busy, Has
<1>4. Cardinality(Used) \in Nat
  BY <1>2, Zenon DEF Sizes
<1>5. \A what : Cardinality(Busy(what)) \in Nat /\ (Cardinality(Busy(what)) = 0 <=> Busy(what) = {})
  BY <1>2, Zenon DEF Sizes
<1>6. /\ Cardinality(Busy({"decRemote"})) \in Nat /\ Cardinality(Busy({"findObject", "withLock"})) \in Nat
      /\ Cardinality(Busy({"findObject", "withLock"})) # 0
  BY <1>3, <1>5, Zenon
<1>7. One(given) \in {0, 1}
  BY Zenon DEF One
<1> HIDE DEF Used
<1> QED
  BY <1>1, <1>4, <1>6, <1>7

LEMMA PromoteOrMakeRefs ==
  ASSUME Sizes(Threads), Sizes(Proxies), RefInv, NEW t \in Threads, promoteOrMake(t)
  PROVE  RefInv'
<1>1. UNCHANGED <<weakly, told, given>> /\ RefTypes
  BY Zenon DEF promoteOrMake, RefInv
<1>2. Step(t, "withLock", Returning)
  BY Zenon DEF promoteOrMake, Returning
<1>3. /\ agenda[t] # <<>> /\ Head(agenda[t]).do = "withLock" /\ Shaped(agenda[t])
      /\ AgendaOf(t, Returning \o Tail(agenda[t]))
  BY <1>2, StepAgenda, Zenon
<1>4. agenda[t] = Locking /\ AgendaOf(t, Returning)
  BY <1>3, CallAgendas, Zenon
<1>5. /\ Reads(agenda[t], TRUE, FALSE, {}, FALSE, FALSE) /\ Reads(Returning, FALSE, TRUE, {}, FALSE, FALSE)
      /\ Shaped(Returning)
  BY <1>4, ReadsOfCalls, Zenon DEF Shaped, Calling
<1>6. held[t] = None /\ remote.strong > 0
  BY <1>5, KeptInCalls, LookupsHold, Zenon DEF Reads
<1>7. /\ \A q : HasOn(Returning, "decWeak", q) <=> HasOn(agenda[t], "decWeak", q)
      /\ Has(agenda[t], {"onLastStrongRef"}) => Has(Returning, {"onLastStrongRef"})
      /\ ~Has(Returning, {"findObject", "withLock"}) /\ ~Has(Returning, {"descriptor", "setClass"})
  BY <1>5, Zenon DEF Reads
<1>8. /\ One(Has(Returning, {"decRemote"})) = 1 /\ One(Has(Returning, {"findObject", "withLock"})) = 0
      /\ One(Has(agenda[t], {"decRemote"})) = 0 /\ One(Has(agenda[t], {"findObject", "withLock"})) = 1
  BY <1>5, Zenon DEF Reads, One
<1>9. One(Has(Returning, {"decRemote"})) + One(Has(Returning, {"findObject", "withLock"}))
           = One(Has(agenda[t], {"decRemote"})) + One(Has(agenda[t], {"findObject", "withLock"}))
  BY <1>8
<1>10. PICK p \in Proxies :
         /\ held' = [held EXCEPT ![t] = p]
         /\ \/ /\ Promotes(value) /\ p = value
               /\ abp' = [abp EXCEPT ![p].strong = @ + 1, ![p].weak = @ + 1]
               /\ remote' = [remote EXCEPT !.strong = @ + Revived(p)]
               /\ UNCHANGED value
            \/ /\ ~Promotes(value)
               /\ p \in FirstFree(Proxies, LAMBDA q : abp[q].weak = 0)
               /\ abp' = [abp EXCEPT ![p] = [NoProxy EXCEPT !.strong = 1, !.weak = 2]]
               /\ remote' = [remote EXCEPT !.strong = @ + 1]
               /\ value' = p
  BY Zenon DEF promoteOrMake
<1>11. CASE Promotes(value)
  <2>1. /\ abp' = [abp EXCEPT ![p].strong = @ + 1, ![p].weak = @ + 1]
        /\ remote' = [remote EXCEPT !.strong = @ + Revived(p)]
        /\ UNCHANGED value
    BY <1>10, <1>11, Zenon
  <2>2. UNCHANGED <<value, weakly, told, given>> /\ held' = [held EXCEPT ![t] = p]
    BY <1>1, <1>10, <2>1, Zenon
  <2> QED
    BY <1>4, <1>5, <1>6, <1>7, <1>9, <2>1, <2>2, PromoteStep, Zenon
<1>12. CASE ~Promotes(value)
  <2>1. /\ abp[p].weak = 0 /\ abp' = [abp EXCEPT ![p] = [NoProxy EXCEPT !.strong = 1, !.weak = 2]]
        /\ remote' = [remote EXCEPT !.strong = @ + 1] /\ value' = p
    BY Zenon, <1>10, <1>12 DEF FirstFree
  <2>2. value \notin Proxies /\ p # None
    BY <1>6, <1>12, NamesApart, Zenon DEF Promotes
  <2>3. /\ DOMAIN agenda' = Threads /\ agenda'[t] = Returning
        /\ \A u \in Threads : u # t => agenda'[u] = agenda[u]
        /\ \A u \in Threads : Shaped(agenda'[u])
    BY <1>1, <1>4, <1>5, AgendaChanges, Zenon
  <2>4. abp \in [Proxies -> Proxy] /\ abp[p].strong = 0 /\ \A u \in Threads : held[u] # p
    <3>1. abp \in [Proxies -> Proxy]
      BY <1>1, Zenon DEF RefTypes
    <3>2. /\ abp[p].strong \in Nat /\ abp[p].weak \in Nat /\ abp[p].weak >= abp[p].strong
          /\ \A u \in Threads : held[u] = p => abp[p].weak >= 1
      BY CountsTell, Zenon
    <3> QED
      BY <2>1, <3>1, <3>2
  <2>5. /\ abp' \in [Proxies -> Proxy] /\ abp'[p].strong = 1 /\ abp'[p].weak = 2
        /\ \A q \in Proxies : q # p => abp'[q] = abp[q]
    <3>1. [NoProxy EXCEPT !.strong = 1, !.weak = 2] \in Proxy
      BY Zenon DEF NoProxy, Proxy
    <3>2. [NoProxy EXCEPT !.strong = 1, !.weak = 2].strong = 1 /\ [NoProxy EXCEPT !.strong = 1, !.weak = 2].weak = 2
      BY Zenon DEF NoProxy
    <3> QED
      BY <2>1, <2>4, <3>1, <3>2, Zenon
  <2>6. held' \in [Threads -> Proxies \cup {None}] /\ held'[t] = p /\ \A u \in Threads : u # t => held'[u] = held[u]
    BY <1>1, <1>10, Zenon DEF RefTypes
  <2>7. remote' \in Remote /\ remote'.strong = remote.strong + 1 /\ remote.strong \in Int
    BY <2>1, RemoteCount
  <2>8. RefTypes'
    BY <1>1, <2>1, <2>3, <2>5, <2>6, <2>7, Zenon DEF RefTypes
  <2>9. Others(t) /\ ValueKept'
    BY <1>1, <2>1, <2>3, <2>6, Zenon DEF Others, ValueKept
  <2>10. ASSUME NEW q \in Proxies PROVE StrongMoves(t, q) /\ WeakMoves(t, q)
    <3>1. abp[q].strong \in Nat /\ abp[q].weak \in Nat
      BY Zenon, <2>4 DEF Proxy
    <3>2. /\ One(held[t] = q) = 0 /\ One(weakly'[t] = q) = One(weakly[t] = q) /\ One(value = q) = 0
          /\ One(HasOn(agenda'[t], "decWeak", q)) = One(HasOn(agenda[t], "decWeak", q))
      BY <1>1, <1>6, <1>7, <2>2, <2>3, NamesApart, Zenon DEF One
    <3>3. One(weakly[t] = q) \in Int /\ One(HasOn(agenda[t], "decWeak", q)) \in Int
      BY OneIsInt, Zenon
    <3>4. CASE q = p
      <4>1. One(held'[t] = q) = 1 /\ One(value' = q) = 1
        BY <2>1, <2>6, <3>4, Zenon DEF One
      <4> QED
        BY <2>1, <2>4, <2>5, <3>1, <3>2, <3>3, <3>4, <4>1 DEF StrongMoves, WeakMoves
    <3>5. CASE q # p
      <4>1. One(held'[t] = q) = 0 /\ One(value' = q) = 0
        BY <2>1, <2>6, <3>5, Zenon DEF One
      <4> QED
        BY <2>5, <3>1, <3>2, <3>3, <3>5, <4>1 DEF StrongMoves, WeakMoves
    <3> QED
      BY <3>4, <3>5, Zenon
  <2>11. RemoteMoves(t, p)
    <3>1. One(p \in Proxies /\ abp[p].strong > 0) = 0 /\ One(p \in Proxies /\ abp'[p].strong > 0) = 1
      BY <2>4, <2>5 DEF One
    <3>2. One(given') = One(given) /\ One(given) \in Int
      BY <1>1, Zenon, OneIsInt
    <3> QED
      BY <1>8, <2>3, <2>7, <3>1, <3>2 DEF RemoteMoves
  <2>12. ThreadKeeps(t)'
    <3>1. told'[t] = None
      BY <1>1, <1>6, Zenon DEF RefInv, ThreadKeeps
    <3> QED
      BY <1>7, <2>2, <2>3, <2>6, <3>1, Zenon DEF ThreadKeeps
  <2>13. \A u \in Threads : u # t /\ told[u] # None => abp'[held[u]].mClazz = abp[held[u]].mClazz
    <3>1. ASSUME NEW u \in Threads, told[u] # None PROVE held[u] \in Proxies
      <4>1. ThreadKeeps(u) /\ held[u] \in Proxies \cup {None}
        BY <1>1, Zenon DEF RefInv, RefTypes
      <4> QED
        BY Zenon, <3>1, <4>1 DEF ThreadKeeps
    <3> QED
      BY <2>4, <2>5, <3>1, Zenon
  <2>14. ASSUME NEW q \in Proxies, abp'[q].weak = 0 PROVE abp'[q].mClazz = None
    <3>1. q # p
      BY <2>5, <2>14
    <3> QED
      BY <2>5, <2>14, <3>1, Zenon DEF RefInv
  <2>15. \A q \in Proxies : q # p => abp'[q].strong = abp[q].strong
    BY <2>5, Zenon
  <2> QED
    BY <2>8, <2>9, <2>10, <2>11, <2>12, <2>13, <2>14, <2>15, RefStep, Zenon
<1> QED
  BY <1>11, <1>12, Zenon

LEMMA ForgetRefs ==
  ASSUME Sizes(Threads), Sizes(Proxies), RefInv, Forget
  PROVE  RefInv'
<1>1. UNCHANGED <<value, abp, held, weakly, told, agenda>> /\ remote' = [remote EXCEPT !.strong = @ - 1] /\ given /\ ~given'
  BY Zenon DEF Forget
<1>2. remote' \in Remote /\ remote'.strong = remote.strong - 1 /\ remote.strong \in Int
  <2>1. remote \in Remote
    BY Zenon DEF RefInv, RefTypes
  <2> QED
    BY <1>1, <2>1 DEF Remote
<1>3. RefTypes'
  <2>1. given' \in BOOLEAN
    BY Zenon DEF Forget
  <2> QED
    BY <1>1, <1>2, <2>1, Zenon DEF RefInv, RefTypes
<1>4. RemoteHeldOnce'
  <2> DEFINE n == Cardinality({q \in Proxies : abp[q].strong > 0})
             d == Cardinality(Busy({"decRemote"}))
             f == Cardinality(Busy({"findObject", "withLock"}))
  <2>1. n \in Nat /\ d \in Nat /\ f \in Nat
    <3>1. {q \in Proxies : abp[q].strong > 0} \in SUBSET Proxies /\ \A what : Busy(what) \in SUBSET Threads
      BY Zenon DEF Busy
    <3> QED
      BY <3>1, Zenon DEF Sizes
  <2>2. remote.strong = 1 + n + d + f
    BY <1>1, Zenon DEF RefInv, RemoteHeldOnce
  <2>3. remote'.strong = 0 + n + d + f
    <3> HIDE DEF n, d, f
    <3> QED
      BY <1>2, <2>1, <2>2
  <2> QED
    BY <1>1, <2>3, Zenon DEF RemoteHeldOnce, Busy
<1>5. ASSUME NEW q \in Proxies PROVE Counted(q)'
  <2>1. Holders(q)' = Holders(q) /\ Keepers(q)' = Keepers(q) /\ Weakeners(q)' = Weakeners(q) /\ Counted(q)
    BY <1>1, Zenon DEF RefInv, Holders, Keepers, Weakeners
  <2> QED
    BY <1>1, <2>1, Zenon DEF Counted
<1>6. ValueKept' /\ (\A u \in Threads : ThreadKeeps(u)') /\ \A q \in Proxies : abp'[q].weak = 0 => abp'[q].mClazz = None
  BY <1>1, Zenon DEF RefInv, ValueKept, ThreadKeeps
<1> QED
  BY <1>3, <1>4, <1>5, <1>6, Zenon DEF RefInv

-----------------------------------------------------------------------------
(* Deaths: what stands on the agenda of sendObituary                       *)

\* The links that are to be reported, are being reported, and have yet to get onDied.
Tells(a, reported, reporting, doomed) ==
    /\ \A k : HasOn(a, "reportOneDeath", k) <=> k \in reported
    /\ \A k : HasOn(a, "clearWho", k) <=> k \in reporting
    /\ \A k : HasOn(a, "onDied", k) <=> k \in doomed

LEMMA DyingEntries ==
  ASSUME NEW a, Dying(a)
  PROVE  /\ a \in Seq([do : Deaths, on : Links])
         /\ \A i \in DOMAIN a : a[i].do \in Deaths /\ a[i].on \in Links
         /\ DOMAIN a = 1 .. Len(a) /\ Len(a) \in Nat
<1>1. a \in Seq([do : Deaths, on : Links])
  BY Zenon DEF Dying
<1>2. \A i \in DOMAIN a : a[i] \in [do : Deaths, on : Links]
  BY <1>1, SeqElements, Zenon
<1>3. \A i \in DOMAIN a : a[i].do \in Deaths /\ a[i].on \in Links
  BY Zenon, <1>2
<1>4. DOMAIN a = 1 .. Len(a) /\ Len(a) \in Nat
  BY <1>1
<1> QED
  BY <1>1, <1>3, <1>4, Zenon

\* What a step leaves of it.
LEMMA TailEntries ==
  ASSUME NEW E, NEW a \in Seq(E), a # <<>>
  PROVE  /\ Len(a) >= 1 /\ Head(a) = a[1] /\ Tail(a) \in Seq(E) /\ <<>> \o Tail(a) = Tail(a)
         /\ Len(Tail(a)) = Len(a) - 1 /\ DOMAIN Tail(a) = 1 .. Len(a) - 1
         /\ \A i \in 1 .. Len(a) - 1 : Tail(a)[i] = a[i + 1]
<1>1. Len(a) >= 1 /\ Head(a) = a[1] /\ Tail(a) \in Seq(E)
  OBVIOUS
<1>2. Len(Tail(a)) = Len(a) - 1 /\ DOMAIN Tail(a) = 1 .. Len(a) - 1
  OBVIOUS
<1>3. \A i \in 1 .. Len(a) - 1 : Tail(a)[i] = a[i + 1]
  OBVIOUS
<1>4. <<>> \o Tail(a) = Tail(a)
  BY <1>1
<1> QED
  BY Zenon, <1>1, <1>2, <1>3, <1>4

LEMMA Concat ==
  ASSUME NEW E, NEW s \in Seq(E), NEW r \in Seq(E)
  PROVE  /\ s \o r \in Seq(E) /\ Len(s \o r) = Len(s) + Len(r) /\ DOMAIN (s \o r) = 1 .. Len(s) + Len(r)
         /\ \A j \in 1 .. Len(s) : (s \o r)[j] = s[j]
         /\ \A j \in 1 .. Len(r) : (s \o r)[Len(s) + j] = r[j]
<1>1. s \o r \in Seq(E) /\ Len(s \o r) = Len(s) + Len(r)
  OBVIOUS
<1>2. \A j \in 1 .. Len(s) : (s \o r)[j] = s[j]
  OBVIOUS
<1>3. \A j \in 1 .. Len(r) : (s \o r)[Len(s) + j] = r[j]
  OBVIOUS
<1>4. DOMAIN (s \o r) = 1 .. Len(s) + Len(r)
  OBVIOUS
<1> QED
  BY <1>1, <1>2, <1>3, <1>4, Zenon

LEMMA DyingTail ==
  ASSUME NEW a, Dying(a), a # <<>>
  PROVE  Dying(Tail(a))
<1> DEFINE b == Tail(a)
           E == [do : Deaths, on : Links]
<1>1. /\ a \in Seq(E) /\ DOMAIN a = 1 .. Len(a) /\ Len(a) \in Nat
  BY DyingEntries, Zenon
<1>2. /\ Len(a) >= 1 /\ b \in Seq(E) /\ Len(b) = Len(a) - 1 /\ DOMAIN b = 1 .. Len(a) - 1
      /\ \A i \in 1 .. Len(a) - 1 : b[i] = a[i + 1]
  BY <1>1, TailEntries, Zenon
<1> HIDE DEF b, E
<1>3. \A i, j \in DOMAIN b : (b[i].do = "reportOneDeath" /\ i # j) => b[j].on # b[i].on
  <2>1. \A i, j \in DOMAIN a : (a[i].do = "reportOneDeath" /\ i # j) => a[j].on # a[i].on
    BY Zenon DEF Dying
  <2>2. ASSUME NEW i \in DOMAIN b, NEW j \in DOMAIN b, b[i].do = "reportOneDeath", i # j PROVE b[j].on # b[i].on
    <3>1. i + 1 \in DOMAIN a /\ j + 1 \in DOMAIN a /\ i + 1 # j + 1 /\ b[i] = a[i + 1] /\ b[j] = a[j + 1]
      BY <1>1, <1>2, <2>2
    <3> QED
      BY <2>1, <2>2, <3>1, Zenon
  <2> QED
    BY <2>2, Zenon
<1>4. \A i \in DOMAIN b : b[i].do # "onDied"
  <2>1. \A i \in DOMAIN a : a[i].do = "onDied" => i = 1
    BY Zenon DEF Dying
  <2> QED
    BY <1>1, <1>2, <2>1
<1>5. \A i \in DOMAIN b : b[i].do = "unlinkDead" =>
         /\ i = 1 \/ (i = 2 /\ b[1].do = "onDied")
         /\ i < Len(b) /\ b[i + 1] = Do("clearWho", b[i].on)
  <2>1. \A i \in DOMAIN a : a[i].do = "unlinkDead" =>
         /\ i = 1 \/ (i = 2 /\ a[1].do = "onDied")
         /\ i < Len(a) /\ a[i + 1] = Do("clearWho", a[i].on)
    BY Zenon DEF Dying
  <2> QED
    BY <1>1, <1>2, <2>1
<1>6. \A i \in DOMAIN b : b[i].do = "clearWho" => i = 1 \/ (i = 2 /\ b[1].do = "unlinkDead") \/ (i = 3 /\ b[2].do = "unlinkDead")
  <2>1. \A i \in DOMAIN a : a[i].do = "clearWho" => i = 1 \/ (i = 2 /\ a[1].do = "unlinkDead") \/ (i = 3 /\ a[2].do = "unlinkDead")
    BY Zenon DEF Dying
  <2>2. ASSUME NEW i \in DOMAIN b, b[i].do = "clearWho", i # 1
        PROVE  i = 2 /\ b[1].do = "unlinkDead"
    <3>1. i + 1 \in DOMAIN a /\ a[i + 1].do = "clearWho"
      BY <1>1, <1>2, <2>2
    <3>2. i = 2 /\ a[2].do = "unlinkDead"
      BY <1>1, <1>2, <2>1, <2>2, <3>1
    <3> QED
      BY <1>1, <1>2, <2>2, <3>2
  <2> QED
    BY <2>2, Zenon
<1>7. Dying(b)
  BY <1>2, <1>3, <1>4, <1>5, <1>6, Zenon DEF Dying, E
<1> QED
  BY <1>7, Zenon DEF b

\* A link that is promoted is on its way through binderDied.
Telling(l) == <<Do("onDied", l), Do("unlinkDead", l), Do("clearWho", l)>>

LEMMA DyingHeads ==
  ASSUME NEW a, Dying(a), a # <<>>
  PROVE  /\ Head(a).do \in Deaths /\ Head(a).on \in Links
         /\ Head(a).do = "reportOneDeath" =>
              /\ \A i \in DOMAIN a : a[i].do = "reportOneDeath"
              /\ \A i \in DOMAIN a : i # 1 => a[i].on # Head(a).on
         /\ Head(a).do = "onDied" =>
              /\ Len(a) >= 3 /\ a[2].do = "unlinkDead" /\ a[3] = Do("clearWho", Head(a).on)
              /\ \A i \in DOMAIN a : i > 3 => a[i].do = "reportOneDeath" /\ a[i].on # Head(a).on
         /\ Head(a).do = "unlinkDead" =>
              /\ Len(a) >= 2 /\ a[2] = Do("clearWho", Head(a).on)
              /\ \A i \in DOMAIN a : i > 2 => a[i].do = "reportOneDeath" /\ a[i].on # Head(a).on
         /\ Head(a).do = "clearWho" =>
              /\ \A i \in DOMAIN a : i > 1 => a[i].do = "reportOneDeath" /\ a[i].on # Head(a).on
<1>1. /\ a \in Seq([do : Deaths, on : Links]) /\ DOMAIN a = 1 .. Len(a) /\ Len(a) \in Nat
      /\ \A i \in DOMAIN a : a[i].do \in Deaths /\ a[i].on \in Links
  BY DyingEntries, Zenon
<1>2. Len(a) >= 1 /\ Head(a) = a[1]
  BY <1>1, TailEntries, Zenon
<1>3. \A i \in DOMAIN a : a[i].do \in {"reportOneDeath", "onDied", "unlinkDead", "clearWho"}
  BY <1>1, Zenon DEF Deaths
<1>4. \A i, j \in DOMAIN a : (a[i].do = "reportOneDeath" /\ i # j) => a[j].on # a[i].on
  BY Zenon DEF Dying
<1>5. \A i \in DOMAIN a : a[i].do = "onDied" =>
         i = 1 /\ Len(a) >= 3 /\ a[2] = Do("unlinkDead", a[1].on) /\ a[3] = Do("clearWho", a[1].on)
  BY Zenon DEF Dying
<1>6. \A i \in DOMAIN a : a[i].do = "unlinkDead" =>
         /\ i = 1 \/ (i = 2 /\ a[1].do = "onDied")
         /\ i < Len(a) /\ a[i + 1] = Do("clearWho", a[i].on)
  BY Zenon DEF Dying
<1>7. \A i \in DOMAIN a : a[i].do = "clearWho" => i = 1 \/ (i = 2 /\ a[1].do = "unlinkDead") \/ (i = 3 /\ a[2].do = "unlinkDead")
  BY Zenon DEF Dying
<1>8. Head(a).do \in Deaths /\ Head(a).on \in Links
  BY <1>1, <1>2
<1>9. \A k : Do("unlinkDead", k).do = "unlinkDead" /\ Do("clearWho", k).do = "clearWho"
  BY Zenon DEF Do
<1>10. ASSUME a[1].do = "reportOneDeath" PROVE \A i \in DOMAIN a : a[i].do = "reportOneDeath"
  <2>1. \A i \in DOMAIN a : a[i].do # "onDied"
    BY Zenon, <1>5, <1>10
  <2>2. \A i \in DOMAIN a : a[i].do # "unlinkDead"
    BY Zenon, <1>6, <1>10
  <2>3. \A i \in DOMAIN a : a[i].do # "clearWho"
    BY <1>1, <1>7, <1>10, <2>2
  <2> QED
    BY Zenon, <1>3, <2>1, <2>2, <2>3
<1>11. ASSUME a[1].do = "onDied", NEW i \in DOMAIN a, i > 3 PROVE a[i].do = "reportOneDeath"
  <2>1. a[i].do # "onDied" /\ a[i].do # "unlinkDead" /\ a[i].do # "clearWho"
    BY <1>1, <1>5, <1>6, <1>7, <1>11
  <2> QED
    BY <1>3, <2>1, <1>11, Zenon
<1>12. ASSUME a[1].do = "unlinkDead", NEW i \in DOMAIN a, i > 2 PROVE a[i].do = "reportOneDeath"
  <2>1. a[i].do # "onDied" /\ a[i].do # "unlinkDead"
    BY <1>1, <1>5, <1>6, <1>12
  <2>2. a[2].do = "clearWho"
    BY <1>1, <1>2, <1>6, <1>9, <1>12
  <2>3. a[i].do # "clearWho"
    BY <1>1, <1>7, <1>12, <2>2
  <2> QED
    BY <1>3, <2>1, <2>3, <1>12, Zenon
<1>13. ASSUME a[1].do = "clearWho", NEW i \in DOMAIN a, i > 1 PROVE a[i].do = "reportOneDeath"
  <2>1. a[i].do # "onDied"
    BY Zenon, <1>1, <1>5, <1>13
  <2>2. \A j \in DOMAIN a : a[j].do # "unlinkDead"
    BY Zenon, <1>1, <1>6, <1>13
  <2>3. a[i].do # "clearWho"
    BY <1>1, <1>7, <1>13, <2>2
  <2> QED
    BY <1>3, <2>1, <2>2, <2>3, <1>13, Zenon
<1>14. \A i \in DOMAIN a : i > 1 /\ a[i].do = "reportOneDeath" => a[i].on # a[1].on
  BY <1>1, <1>2, <1>4
<1>15. a[1].do = "onDied" => Len(a) >= 3 /\ a[2].do = "unlinkDead" /\ a[3] = Do("clearWho", a[1].on)
  BY <1>1, <1>2, <1>5, <1>9
<1>16. a[1].do = "unlinkDead" => Len(a) >= 2 /\ a[2] = Do("clearWho", a[1].on)
  BY <1>1, <1>2, <1>6
<1>17. \A i \in DOMAIN a : (i # 1 => i > 1) /\ (i > 3 => i > 1) /\ (i > 2 => i > 1)
  BY <1>1
<1> QED
  BY <1>2, <1>8, <1>10, <1>11, <1>12, <1>13, <1>14, <1>15, <1>16, <1>17, Zenon

\* What is reported by the rest of the agenda, and what its first entries are about.
LEMMA DyingTells ==
  ASSUME NEW a, Dying(a), a # <<>>
  PROVE  \E R : /\ Head(a).on \notin R
                /\ Head(a).do = "reportOneDeath" =>
                     Tells(a, R \cup {Head(a).on}, {}, {}) /\ Tells(Tail(a), R, {}, {})
                /\ Head(a).do = "onDied" =>
                     Tells(a, R, {Head(a).on}, {Head(a).on}) /\ Tells(Tail(a), R, {Head(a).on}, {})
                /\ Head(a).do = "unlinkDead" =>
                     Tells(a, R, {Head(a).on}, {}) /\ Tells(Tail(a), R, {Head(a).on}, {})
                /\ Head(a).do = "clearWho" => Tells(a, R, {Head(a).on}, {}) /\ Tells(Tail(a), R, {}, {})
<1> DEFINE b == Tail(a)
           l == Head(a).on
           R == {k \in Links : HasOn(b, "reportOneDeath", k)}
<1>1. /\ a \in Seq([do : Deaths, on : Links]) /\ DOMAIN a = 1 .. Len(a) /\ Len(a) \in Nat
      /\ \A i \in DOMAIN a : a[i].on \in Links
  BY DyingEntries, Zenon
<1>2. /\ Len(a) >= 1 /\ Head(a) = a[1] /\ DOMAIN b = 1 .. Len(a) - 1
      /\ \A i \in 1 .. Len(a) - 1 : b[i] = a[i + 1]
  BY <1>1, TailEntries, Zenon
<1> HIDE DEF b
<1>3. /\ \A i \in DOMAIN b : i + 1 \in DOMAIN a /\ b[i] = a[i + 1]
      /\ \A i \in DOMAIN a : i # 1 => i - 1 \in DOMAIN b /\ a[i] = b[i - 1]
  BY <1>1, <1>2
<1>4. \A what, k : HasOn(a, what, k) <=> (a[1].do = what /\ a[1].on = k) \/ HasOn(b, what, k)
  <2>1. ASSUME NEW what, NEW k, HasOn(b, what, k) PROVE HasOn(a, what, k)
    BY <1>3, <2>1, Zenon DEF HasOn
  <2>2. ASSUME NEW what, NEW k, HasOn(a, what, k), ~(a[1].do = what /\ a[1].on = k) PROVE HasOn(b, what, k)
    BY <1>3, <2>2, Zenon DEF HasOn
  <2>3. 1 \in DOMAIN a
    BY <1>1, <1>2
  <2> QED
    BY <2>1, <2>2, <2>3, Zenon DEF HasOn
<1>5. \A k : HasOn(b, "reportOneDeath", k) <=> k \in R
  BY <1>1, <1>3, Zenon DEF HasOn
<1> HIDE DEF R
<1>6. CASE Head(a).do = "reportOneDeath"
  <2>1. \A i \in DOMAIN a : a[i].do = "reportOneDeath" /\ (i # 1 => a[i].on # l)
    BY <1>6, DyingHeads, Zenon
  <2>2. \A i \in DOMAIN b : b[i].do = "reportOneDeath" /\ b[i].on # l
    BY <1>1, <1>2, <2>1
  <2>3. \A k : ~HasOn(b, "clearWho", k) /\ ~HasOn(b, "onDied", k) /\ ~HasOn(b, "reportOneDeath", l)
    BY Zenon, <2>2 DEF HasOn
  <2>4. l \notin R
    BY <1>5, <2>3, Zenon
  <2>5. \A k : ~HasOn(a, "clearWho", k) /\ ~HasOn(a, "onDied", k)
    BY Zenon, <1>2, <1>4, <1>6, <2>3
  <2>6. \A k : HasOn(a, "reportOneDeath", k) <=> k \in R \cup {l}
    BY <1>2, <1>4, <1>5, <1>6, Zenon
  <2>7. Tells(a, R \cup {l}, {}, {}) /\ Tells(b, R, {}, {})
    BY <1>5, <2>3, <2>5, <2>6, Zenon DEF Tells
  <2> QED
    BY Zenon, <1>6, <2>4, <2>7 DEF b
<1>7. CASE Head(a).do = "onDied"
  <2>1. /\ Len(a) >= 3 /\ a[2].do = "unlinkDead" /\ a[3] = Do("clearWho", l)
        /\ \A i \in DOMAIN a : i > 3 => a[i].do = "reportOneDeath" /\ a[i].on # l
    BY <1>7, DyingHeads, Zenon
  <2>2. a[3].do = "clearWho" /\ a[3].on = l
    BY <2>1 DEF Do
  <2> HIDE DEF l
  <2>8. b[1].do = "unlinkDead" /\ b[2].do = "clearWho" /\ b[2].on = l /\ 2 \in DOMAIN b
    BY <1>1, <1>2, <2>1, <2>2
  <2>9. \A i \in DOMAIN b : i > 2 => b[i].do = "reportOneDeath" /\ b[i].on # l
    BY <1>1, <1>2, <2>1
  <2>10. \A i \in DOMAIN b : i = 1 \/ i = 2 \/ i > 2
    BY <1>1, <1>2
  <2>3. /\ b[1].do = "unlinkDead" /\ b[2].do = "clearWho" /\ b[2].on = l /\ 2 \in DOMAIN b
        /\ \A i \in DOMAIN b : i > 2 => b[i].do = "reportOneDeath" /\ b[i].on # l
        /\ \A i \in DOMAIN b : i = 1 \/ i = 2 \/ i > 2
    BY <2>8, <2>9, <2>10, Zenon
  <2>4. \A k : (HasOn(b, "clearWho", k) <=> k = l) /\ ~HasOn(b, "onDied", k) /\ ~HasOn(b, "reportOneDeath", l)
    BY Zenon, <2>3 DEF HasOn
  <2>5. l \notin R
    BY <1>5, <2>4, Zenon
  <2>6. \A k : /\ HasOn(a, "clearWho", k) <=> k = l
               /\ HasOn(a, "onDied", k) <=> k = l
               /\ HasOn(a, "reportOneDeath", k) <=> k \in R
    BY Zenon, <1>2, <1>4, <1>5, <1>7, <2>4 DEF l
  <2>7. Tells(a, R, {l}, {l}) /\ Tells(b, R, {l}, {})
    BY <1>5, <2>4, <2>6, Zenon DEF Tells
  <2> QED
    BY Zenon, <1>7, <2>5, <2>7 DEF b, l
<1>8. CASE Head(a).do = "unlinkDead"
  <2>1. /\ Len(a) >= 2 /\ a[2] = Do("clearWho", l)
        /\ \A i \in DOMAIN a : i > 2 => a[i].do = "reportOneDeath" /\ a[i].on # l
    BY <1>8, DyingHeads, Zenon
  <2>2. a[2].do = "clearWho" /\ a[2].on = l
    BY <2>1 DEF Do
  <2> HIDE DEF l
  <2>8. b[1].do = "clearWho" /\ b[1].on = l /\ 1 \in DOMAIN b
    BY <1>1, <1>2, <2>1, <2>2
  <2>9. \A i \in DOMAIN b : i > 1 => b[i].do = "reportOneDeath" /\ b[i].on # l
    BY <1>1, <1>2, <2>1
  <2>10. \A i \in DOMAIN b : i = 1 \/ i > 1
    BY <1>1, <1>2
  <2>3. /\ b[1].do = "clearWho" /\ b[1].on = l /\ 1 \in DOMAIN b
        /\ \A i \in DOMAIN b : i > 1 => b[i].do = "reportOneDeath" /\ b[i].on # l
        /\ \A i \in DOMAIN b : i = 1 \/ i > 1
    BY <2>8, <2>9, <2>10, Zenon
  <2>4. \A k : (HasOn(b, "clearWho", k) <=> k = l) /\ ~HasOn(b, "onDied", k) /\ ~HasOn(b, "reportOneDeath", l)
    BY Zenon, <2>3 DEF HasOn
  <2>5. l \notin R
    BY <1>5, <2>4, Zenon
  <2>6. \A k : /\ HasOn(a, "clearWho", k) <=> k = l
               /\ ~HasOn(a, "onDied", k)
               /\ HasOn(a, "reportOneDeath", k) <=> k \in R
    BY Zenon, <1>2, <1>4, <1>5, <1>8, <2>4 DEF l
  <2>7. Tells(a, R, {l}, {}) /\ Tells(b, R, {l}, {})
    BY <1>5, <2>4, <2>6, Zenon DEF Tells
  <2> QED
    BY Zenon, <1>8, <2>5, <2>7 DEF b, l
<1>9. CASE Head(a).do = "clearWho"
  <2>1. \A i \in DOMAIN a : i > 1 => a[i].do = "reportOneDeath" /\ a[i].on # l
    BY <1>9, DyingHeads, Zenon
  <2>2. \A i \in DOMAIN b : b[i].do = "reportOneDeath" /\ b[i].on # l
    BY <1>1, <1>2, <2>1
  <2>3. \A k : ~HasOn(b, "clearWho", k) /\ ~HasOn(b, "onDied", k) /\ ~HasOn(b, "reportOneDeath", l)
    BY Zenon, <2>2 DEF HasOn
  <2>4. l \notin R
    BY <1>5, <2>3, Zenon
  <2>5. \A k : /\ HasOn(a, "clearWho", k) <=> k = l
               /\ ~HasOn(a, "onDied", k)
               /\ HasOn(a, "reportOneDeath", k) <=> k \in R
    BY <1>2, <1>4, <1>5, <1>9, <2>3
  <2>6. Tells(a, R, {l}, {}) /\ Tells(b, R, {}, {})
    BY <1>5, <2>3, <2>5, Zenon DEF Tells
  <2> QED
    BY Zenon, <1>9, <2>4, <2>6 DEF b
<1>10. Head(a).do \in {"reportOneDeath", "onDied", "unlinkDead", "clearWho"}
  BY DyingHeads, Zenon DEF Deaths
<1> QED
  BY <1>6, <1>7, <1>8, <1>9, <1>10, Zenon

\* A link that is promoted.
LEMMA DyingTelling ==
  ASSUME NEW a, Dying(a), a # <<>>, Head(a).do = "reportOneDeath", NEW R, Tells(Tail(a), R, {}, {})
  PROVE  /\ Dying(Telling(Head(a).on) \o Tail(a))
         /\ Tells(Telling(Head(a).on) \o Tail(a), R, {Head(a).on}, {Head(a).on})
<1> DEFINE l == Head(a).on
           c == Telling(l) \o Tail(a)
           E == [do : Deaths, on : Links]
           n == Len(Tail(a))
<1>1. a \in Seq(E) /\ DOMAIN a = 1 .. Len(a) /\ Len(a) \in Nat
  BY DyingEntries, Zenon
<1>2. /\ Len(a) >= 1 /\ Head(a) = a[1] /\ Tail(a) \in Seq(E) /\ n = Len(a) - 1 /\ DOMAIN Tail(a) = 1 .. Len(a) - 1
      /\ \A i \in 1 .. Len(a) - 1 : Tail(a)[i] = a[i + 1]
  BY <1>1, TailEntries, Zenon
<1>3. /\ l \in Links /\ \A i \in DOMAIN a : a[i].do = "reportOneDeath" /\ (i # 1 => a[i].on # l)
  BY DyingHeads, Zenon
<1>4. /\ n \in Nat /\ DOMAIN Tail(a) = 1 .. n
      /\ \A i \in 1 .. n : Tail(a)[i].do = "reportOneDeath" /\ Tail(a)[i].on # l
      /\ \A i, j \in 1 .. n : i # j => Tail(a)[i].on # Tail(a)[j].on
  <2>1. n \in Nat /\ DOMAIN Tail(a) = 1 .. n /\ \A i \in 1 .. n : Tail(a)[i] = a[i + 1] /\ i + 1 \in DOMAIN a /\ i + 1 # 1
    BY <1>1, <1>2
  <2>2. \A i, j \in DOMAIN a : (a[i].do = "reportOneDeath" /\ i # j) => a[j].on # a[i].on
    BY Zenon DEF Dying
  <2>3. ASSUME NEW i \in 1 .. n, NEW j \in 1 .. n, i # j PROVE Tail(a)[i].on # Tail(a)[j].on
    <3>1. i + 1 # j + 1
      BY <2>1, <2>3
    <3> QED
      BY <1>3, <2>1, <2>2, <2>3, <3>1, Zenon
  <2> QED
    BY <1>3, <2>1, <2>3, Zenon
<1>5. /\ Do("onDied", l) \in E /\ Do("unlinkDead", l) \in E /\ Do("clearWho", l) \in E
      /\ Do("onDied", l).do = "onDied" /\ Do("unlinkDead", l).do = "unlinkDead" /\ Do("clearWho", l).do = "clearWho"
      /\ Do("onDied", l).on = l /\ Do("unlinkDead", l).on = l /\ Do("clearWho", l).on = l
  BY Zenon, <1>3 DEF Do, Deaths
<1>6. Telling(l) \in Seq(E) /\ Len(Telling(l)) = 3 /\ Telling(l)[1] = Do("onDied", l)
      /\ Telling(l)[2] = Do("unlinkDead", l) /\ Telling(l)[3] = Do("clearWho", l)
  <2> HIDE DEF E, l
  <2> QED
    BY <1>5 DEF Telling
<1> HIDE DEF E, l
<1>7. /\ c \in Seq(E) /\ Len(c) = n + 3 /\ DOMAIN c = 1 .. n + 3
      /\ c[1] = Do("onDied", l) /\ c[2] = Do("unlinkDead", l) /\ c[3] = Do("clearWho", l)
      /\ \A i \in 1 .. n : c[i + 3] = Tail(a)[i]
  <2> DEFINE f == Telling(l)
             r == Tail(a)
  <2>1. /\ f \o r \in Seq(E) /\ Len(f \o r) = Len(f) + Len(r) /\ DOMAIN (f \o r) = 1 .. Len(f) + Len(r)
        /\ \A j \in 1 .. Len(f) : (f \o r)[j] = f[j]
        /\ \A j \in 1 .. Len(r) : (f \o r)[Len(f) + j] = r[j]
    <3> HIDE DEF f, r
    <3>1. f \in Seq(E) /\ r \in Seq(E)
      BY <1>2, <1>6, Zenon DEF f, r
    <3> QED
      BY <3>1, Concat, SMT
  <2> HIDE DEF f, r
  <2>2. f \o r = c /\ f = Telling(l) /\ Len(r) = n /\ r = Tail(a)
    BY Zenon DEF f, r
  <2>3. Len(f) = 3 /\ f[1] = Do("onDied", l) /\ f[2] = Do("unlinkDead", l) /\ f[3] = Do("clearWho", l)
    BY <1>6, <2>2, Zenon
  <2> HIDE DEF c, n
  <2>4. c \in Seq(E) /\ Len(c) = n + 3 /\ DOMAIN c = 1 .. n + 3
    BY <1>4, <2>1, <2>2, <2>3
  <2>5. c[1] = f[1] /\ c[2] = f[2] /\ c[3] = f[3]
    BY <2>1, <2>2, <2>3
  <2>6. \A i \in 1 .. n : c[i + 3] = r[i]
    BY <1>4, <2>1, <2>2, <2>3
  <2> QED
    BY <2>2, <2>3, <2>4, <2>5, <2>6, Zenon
<1> HIDE DEF c, n
<1>8. /\ c[1].do = "onDied" /\ c[2].do = "unlinkDead" /\ c[3].do = "clearWho" /\ c[1].on = l /\ c[2].on = l /\ c[3].on = l
      /\ \A i \in DOMAIN c : i = 1 \/ i = 2 \/ i = 3 \/ (i > 3 /\ i - 3 \in 1 .. n /\ c[i] = Tail(a)[i - 3])
      /\ 1 \in DOMAIN c /\ 2 \in DOMAIN c /\ 3 \in DOMAIN c
  <2>1. c[1].do = "onDied" /\ c[2].do = "unlinkDead" /\ c[3].do = "clearWho" /\ c[1].on = l /\ c[2].on = l /\ c[3].on = l
    BY <1>5, <1>7, Zenon
  <2>2. \A i \in DOMAIN c : i = 1 \/ i = 2 \/ i = 3 \/ (i > 3 /\ i - 3 \in 1 .. n)
    BY <1>4, <1>7
  <2>3. \A i \in DOMAIN c : i - 3 \in 1 .. n => c[i] = Tail(a)[i - 3]
    <3>1. ASSUME NEW i \in DOMAIN c, i - 3 \in 1 .. n PROVE c[i] = Tail(a)[i - 3]
      <4>1. i - 3 + 3 = i
        BY <1>4, <1>7, <3>1
      <4> QED
        BY <1>7, <3>1, <4>1, Zenon
    <3> QED
      BY <3>1, Zenon
  <2>4. 1 \in DOMAIN c /\ 2 \in DOMAIN c /\ 3 \in DOMAIN c
    BY <1>4, <1>7
  <2> QED
    BY <2>1, <2>2, <2>3, <2>4, Zenon
<1>9. /\ \A i \in DOMAIN c : i > 3 => c[i].do = "reportOneDeath" /\ c[i].on # l
      /\ \A i, j \in DOMAIN c : (i > 3 /\ j > 3 /\ i # j) => c[i].on # c[j].on
  <2>1. \A i \in DOMAIN c : i > 3 => i - 3 \in 1 .. n /\ c[i] = Tail(a)[i - 3]
    <3>1. ~(1 > 3) /\ ~(2 > 3) /\ ~(3 > 3)
      OBVIOUS
    <3> QED
      BY <1>8, <3>1, Zenon
  <2>2. \A i, j \in DOMAIN c : i # j => i - 3 # j - 3
    BY <1>7, <1>4
  <2>3. \A i \in DOMAIN c : i > 3 => c[i].do = "reportOneDeath" /\ c[i].on # l
    BY <1>4, <2>1, Zenon
  <2>4. ASSUME NEW i \in DOMAIN c, NEW j \in DOMAIN c, i > 3, j > 3, i # j PROVE c[i].on # c[j].on
    <3>1. /\ i - 3 \in 1 .. n /\ c[i] = Tail(a)[i - 3] /\ j - 3 \in 1 .. n /\ c[j] = Tail(a)[j - 3]
          /\ i - 3 # j - 3
      BY <2>1, <2>2, <2>4, Zenon
    <3> QED
      BY <1>4, <3>1, Zenon
  <2> QED
    BY <2>3, <2>4, Zenon
<1>10. \A i \in DOMAIN c : \/ i = 1 /\ c[i].do = "onDied" /\ c[i].on = l
                           \/ i = 2 /\ c[i].do = "unlinkDead" /\ c[i].on = l
                           \/ i = 3 /\ c[i].do = "clearWho" /\ c[i].on = l
                           \/ i > 3 /\ c[i].do = "reportOneDeath" /\ c[i].on # l
  BY <1>8, <1>9, Zenon
<1>11. \A i, j \in DOMAIN c : (c[i].do = "reportOneDeath" /\ i # j) => c[j].on # c[i].on
  <2>1. \A i \in DOMAIN c : c[i].do = "reportOneDeath" => i > 3 /\ c[i].on # l
    BY Zenon, <1>10
  <2>2. \A j \in DOMAIN c : j > 3 \/ c[j].on = l
    BY <1>10, Zenon
  <2> QED
    BY <1>9, <2>1, <2>2, Zenon
<1>12. Dying(c)
  <2>1. \A i \in DOMAIN c : c[i].do = "onDied" =>
         i = 1 /\ Len(c) >= 3 /\ c[2] = Do("unlinkDead", c[1].on) /\ c[3] = Do("clearWho", c[1].on)
    BY <1>4, <1>7, <1>8, <1>10
  <2>2. \A i \in DOMAIN c : c[i].do = "unlinkDead" =>
         /\ i = 1 \/ (i = 2 /\ c[1].do = "onDied")
         /\ i < Len(c) /\ c[i + 1] = Do("clearWho", c[i].on)
    BY <1>4, <1>7, <1>8, <1>10
  <2>3. \A i \in DOMAIN c : c[i].do = "clearWho" =>
         i = 1 \/ (i = 2 /\ c[1].do = "unlinkDead") \/ (i = 3 /\ c[2].do = "unlinkDead")
    BY Zenon, <1>8, <1>10
  <2> QED
    BY <1>7, <1>11, <2>1, <2>2, <2>3, Zenon DEF Dying, E
<1>13. Tells(c, R, {l}, {l})
  <2>1. \A k : (HasOn(c, "clearWho", k) <=> k = l) /\ (HasOn(c, "onDied", k) <=> k = l)
    BY Zenon, <1>8, <1>10 DEF HasOn
  <2>2. \A k : HasOn(Tail(a), "reportOneDeath", k) <=> k \in R
    BY Zenon DEF Tells
  <2>3. ASSUME NEW k, HasOn(c, "reportOneDeath", k) PROVE k \in R
    <3>1. PICK i \in DOMAIN c : c[i].do = "reportOneDeath" /\ c[i].on = k
      BY <2>3, Zenon DEF HasOn
    <3>2. i - 3 \in DOMAIN Tail(a) /\ c[i] = Tail(a)[i - 3]
      BY Zenon, <1>4, <1>8, <1>10, <3>1
    <3> QED
      BY <2>2, <3>1, <3>2, Zenon DEF HasOn
  <2>4. ASSUME NEW k \in R PROVE HasOn(c, "reportOneDeath", k)
    <3>1. PICK i \in DOMAIN Tail(a) : Tail(a)[i].do = "reportOneDeath" /\ Tail(a)[i].on = k
      BY <2>2, <2>4, Zenon DEF HasOn
    <3>2. i + 3 \in DOMAIN c /\ c[i + 3] = Tail(a)[i]
      BY <1>4, <1>7, <3>1
    <3> QED
      BY <3>1, <3>2, Zenon DEF HasOn
  <2> QED
    BY <2>1, <2>3, <2>4, Zenon DEF Tells
<1> QED
  BY <1>12, <1>13, Zenon DEF c, l

\* The agenda that sendObituary starts with.
LEMMA DyingStarts ==
  ASSUME NEW obits \in Seq(Links), \A i, j \in DOMAIN obits : i # j => obits[i] # obits[j]
  PROVE  LET a == [i \in DOMAIN obits |-> Do("reportOneDeath", obits[i])] IN
         Dying(a) /\ Tells(a, {k \in Links : \E i \in DOMAIN obits : obits[i] = k}, {}, {})
<1> DEFINE a == [i \in DOMAIN obits |-> Do("reportOneDeath", obits[i])]
           E == [do : Deaths, on : Links]
<1>1. \A i \in DOMAIN obits : obits[i] \in Links
  BY SeqElements, Zenon
<1>2. \A k : Do("reportOneDeath", k).do = "reportOneDeath" /\ Do("reportOneDeath", k).on = k
  BY Zenon DEF Do
<1>3. \A k \in Links : Do("reportOneDeath", k) \in E
  BY Zenon DEF Do, Deaths
<1>4. /\ DOMAIN a = DOMAIN obits
      /\ \A i \in DOMAIN a : a[i].do = "reportOneDeath" /\ a[i].on = obits[i]
  BY <1>2, Zenon
<1>5. a \in Seq(E)
  <2>1. DOMAIN obits = 1 .. Len(obits) /\ Len(obits) \in Nat
    OBVIOUS
  <2>2. a \in [1 .. Len(obits) -> E]
    BY <1>1, <1>3, <2>1, Zenon
  <2> HIDE DEF a, E
  <2> QED
    BY <2>1, <2>2
<1> HIDE DEF a
<1>6. \A i \in DOMAIN a : a[i].do # "onDied" /\ a[i].do # "unlinkDead" /\ a[i].do # "clearWho"
  BY Zenon, <1>4
<1>7. Dying(a)
  <2>1. ASSUME NEW i \in DOMAIN a, NEW j \in DOMAIN a, i # j PROVE a[j].on # a[i].on
    <3>1. a[i].on = obits[i] /\ a[j].on = obits[j] /\ i \in DOMAIN obits /\ j \in DOMAIN obits
      BY <1>4, <2>1, Zenon
    <3> QED
      BY <2>1, <3>1, Zenon
  <2>2. /\ \A i \in DOMAIN a : a[i].do = "onDied" =>
             i = 1 /\ Len(a) >= 3 /\ a[2] = Do("unlinkDead", a[1].on) /\ a[3] = Do("clearWho", a[1].on)
        /\ \A i \in DOMAIN a : a[i].do = "unlinkDead" =>
             /\ i = 1 \/ (i = 2 /\ a[1].do = "onDied")
             /\ i < Len(a) /\ a[i + 1] = Do("clearWho", a[i].on)
        /\ \A i \in DOMAIN a : a[i].do = "clearWho" =>
             i = 1 \/ (i = 2 /\ a[1].do = "unlinkDead") \/ (i = 3 /\ a[2].do = "unlinkDead")
    BY <1>6, Zenon
  <2> QED
    BY <1>5, <2>1, <2>2, Zenon DEF Dying
<1>8. Tells(a, {k \in Links : \E i \in DOMAIN obits : obits[i] = k}, {}, {})
  BY <1>1, <1>4, <1>6, Zenon DEF Tells, HasOn
<1> QED
  BY <1>7, <1>8, Zenon DEF a

\* An obituary is removed.
Lacks(w, obits, l) ==
    /\ w \in Seq(Links)
    /\ \A i, j \in DOMAIN w : i # j => w[i] # w[j]
    /\ \A k : (\E i \in DOMAIN w : w[i] = k) <=> (k # l /\ \E i \in DOMAIN obits : obits[i] = k)
    /\ obits = <<>> => w = <<>>

LEMMA RestLength ==
  ASSUME NEW E, NEW s \in Seq(E), NEW m \in Int, 1 <= m, m < Len(s)
  PROVE  Len(SubSeq(s, m + 1, Len(s))) = Len(s) - m
<1>1. \A k \in Int : 1 <= k /\ k <= Len(s) => Len(SubSeq(s, k, Len(s))) = Len(s) - k + 1
  OBVIOUS
<1>2. m + 1 \in Int /\ 1 <= m + 1 /\ m + 1 <= Len(s) /\ Len(s) - (m + 1) + 1 = Len(s) - m
  OBVIOUS
<1> QED
  BY Zenon, <1>1, <1>2

LEMMA WithoutFacts ==
  ASSUME NEW obits \in Seq(Links), NEW l \in Links, \A i, j \in DOMAIN obits : i # j => obits[i] # obits[j]
  PROVE  Lacks(Without(obits, l), obits, l)
<1>1. CASE \E i \in DOMAIN obits : obits[i] = l
  <2> DEFINE i == CHOOSE j \in DOMAIN obits : obits[j] = l
             n == Len(obits)
             before == SubSeq(obits, 1, i - 1)
             after == SubSeq(obits, i + 1, Len(obits))
             w == before \o after
  <2>1. i \in 1 .. n /\ obits[i] = l /\ n \in Nat /\ DOMAIN obits = 1 .. n
    BY <1>1
  <2>2. Without(obits, l) = w
    BY <1>1, Zenon DEF Without, i
  <2> HIDE DEF i
  <2>3. /\ before \in Seq(Links) /\ Len(before) = i - 1
        /\ after \in Seq(Links) /\ Len(after) = n - i
        /\ \A j \in 1 .. i - 1 : before[j] = obits[j]
        /\ \A j \in 1 .. n - i : after[j] = obits[i + j]
    <3>1. before \in Seq(Links) /\ Len(before) = i - 1
      BY <2>1
    <3>2. after \in Seq(Links) /\ Len(after) = n - i
      <4>1. i + 1 \in 1 .. n + 1 /\ n \in 1 .. n /\ n - (i + 1) + 1 = n - i
        BY <2>1
      <4>2. \A j \in i + 1 .. n : obits[j] \in Links
        BY <2>1
      <4>3. after \in Seq(Links)
        BY <2>1, <4>1, <4>2
      <4>4. Len(after) = n - i
        <5> HIDE DEF n
        <5>1. n = Len(obits)
          BY Zenon DEF n
        <5>2. CASE i = n
          BY <2>1, <5>1, <5>2
        <5>3. CASE i # n
          <6>3. i \in Int /\ 1 <= i /\ i < n
            <7>1. i \in 1 .. n /\ n \in Nat
              BY <2>1, Zenon
            <7> QED
              BY <5>3, <7>1
          <6>1. i \in Int /\ 1 <= i /\ i < Len(obits)
            BY <5>1, <6>3, Zenon
          <6>2. Len(after) = Len(obits) - i
            BY Zenon, <6>1, RestLength
          <6> QED
            BY Zenon, <5>1, <6>2
        <5> QED
          BY Zenon, <5>2, <5>3
      <4> QED
        BY Zenon, <4>3, <4>4
    <3>3. \A j \in 1 .. i - 1 : before[j] = obits[j]
      BY <2>1
    <3>4. \A j \in 1 .. n - i : after[j] = obits[i + j]
      BY <2>1
    <3> QED
      BY <3>1, <3>2, <3>3, <3>4, Zenon
  <2> HIDE DEF before, after
  <2>5. /\ w \in Seq(Links) /\ Len(w) = i - 1 + (n - i)
        /\ \A j \in 1 .. i - 1 : w[j] = obits[j]
        /\ \A j \in 1 .. n - i : w[i - 1 + j] = obits[i + j]
    <3>1. /\ w \in Seq(Links) /\ Len(w) = Len(before) + Len(after)
          /\ \A j \in 1 .. Len(before) : w[j] = before[j]
          /\ \A j \in 1 .. Len(after) : w[Len(before) + j] = after[j]
      <4>1. before \in Seq(Links) /\ after \in Seq(Links)
        BY <2>3, Zenon
      <4> QED
        BY <4>1, Concat, SMT
    <3> QED
      BY <2>3, <3>1, Zenon
  <2> HIDE DEF w
  <2>6. Len(w) = n - 1 /\ DOMAIN w = 1 .. n - 1
    BY <2>1, <2>5
  <2>7. \A j \in 1 .. n - 1 : (j < i => w[j] = obits[j]) /\ (j >= i => w[j] = obits[j + 1])
    <3>1. ASSUME NEW j \in 1 .. n - 1, j >= i PROVE w[j] = obits[j + 1]
      <4>1. j - i + 1 \in 1 .. n - i /\ i - 1 + (j - i + 1) = j /\ i + (j - i + 1) = j + 1
        BY <2>1, <3>1
      <4> QED
        BY <2>5, <4>1, Zenon
    <3> QED
      BY <2>1, <2>5, <3>1
  <2>8. \A j, k \in DOMAIN w : j # k => w[j] # w[k]
    <3>1. \A j \in DOMAIN w : \E x \in DOMAIN obits : w[j] = obits[x] /\ x = (IF j < i THEN j ELSE j + 1)
      BY <2>1, <2>6, <2>7
    <3>2. ASSUME NEW j \in DOMAIN w, NEW k \in DOMAIN w, j # k PROVE w[j] # w[k]
      <4>1. PICK x \in DOMAIN obits : w[j] = obits[x] /\ x = (IF j < i THEN j ELSE j + 1)
        BY <3>1, <3>2, Zenon
      <4>2. PICK y \in DOMAIN obits : w[k] = obits[y] /\ y = (IF k < i THEN k ELSE k + 1)
        BY <3>1, <3>2, Zenon
      <4>3. x # y
        BY <2>1, <2>6, <3>2, <4>1, <4>2
      <4> QED
        BY <4>1, <4>2, <4>3, Zenon
    <3> QED
      BY <3>2, Zenon
  <2>9. ASSUME NEW k, k # l, NEW j \in DOMAIN obits, obits[j] = k PROVE \E m \in DOMAIN w : w[m] = k
    <3>1. CASE j < i
      BY <2>1, <2>6, <2>7, <2>9, <3>1
    <3>2. CASE j > i
      <4>1. j - 1 \in DOMAIN w /\ w[j - 1] = k
        BY <2>1, <2>6, <2>7, <2>9, <3>2
      <4> QED
        BY <4>1, Zenon
    <3> QED
      BY <3>1, <3>2, <2>1, <2>9
  <2>10. ASSUME NEW m \in DOMAIN w PROVE w[m] # l /\ \E j \in DOMAIN obits : obits[j] = w[m]
    <3>1. PICK x \in DOMAIN obits : w[m] = obits[x] /\ x # i
      BY <2>1, <2>6, <2>7, <2>10
    <3> QED
      BY <2>1, <3>1, Zenon
  <2>11. obits # <<>>
    BY <1>1
  <2>12. \A k : (\E m \in DOMAIN w : w[m] = k) <=> (k # l /\ \E j \in DOMAIN obits : obits[j] = k)
    <3>1. \A k : (\E m \in DOMAIN w : w[m] = k) => k # l /\ \E j \in DOMAIN obits : obits[j] = k
      BY <2>10, Zenon
    <3>2. \A k : k # l /\ (\E j \in DOMAIN obits : obits[j] = k) => \E m \in DOMAIN w : w[m] = k
      BY <2>9, Zenon
    <3> QED
      BY <3>1, <3>2, Zenon
  <2>13. Lacks(w, obits, l)
    BY <2>5, <2>8, <2>11, <2>12, Zenon DEF Lacks
  <2> QED
    BY <2>2, <2>13, Zenon
<1>2. CASE ~\E i \in DOMAIN obits : obits[i] = l
  <2>1. Without(obits, l) = obits
    BY <1>2, Zenon DEF Without
  <2> QED
    BY <1>2, <2>1, Zenon DEF Lacks
<1> QED
  BY <1>1, <1>2, Zenon

-----------------------------------------------------------------------------
(* References: the steps about deaths                                      *)

\* Agendas that have nothing to do with the references.
Silent(a) == Shaped(a) /\ Reads(a, FALSE, FALSE, {}, FALSE, FALSE)

LEMMA SilentAgendas ==
  Silent(<<>>) /\ \A a : Dying(a) => Silent(a)
<1>1. Silent(<<>>)
  BY ReadsOfCalls, Zenon DEF Silent, Shaped, Calling
<1>2. \A a : Dying(a) => Silent(a)
  BY ReadsOfDying, Zenon DEF Silent, Shaped
<1> QED
  BY <1>1, <1>2, Zenon

LEMMA SilentStep ==
  ASSUME Sizes(Threads), Sizes(Proxies), RefInv, NEW t \in Threads, NEW a, AgendaOf(t, a), Silent(a), Silent(agenda[t]),
         UNCHANGED <<value, abp, held, weakly, told, given>>, remote' \in Remote, remote'.strong = remote.strong
  PROVE  RefInv'
<1>1. /\ UNCHANGED <<abp, held, weakly, given>> /\ value' = value /\ UNCHANGED told
      /\ Reads(a, FALSE, FALSE, {}, FALSE, FALSE) /\ Shaped(a) /\ Reads(agenda[t], FALSE, FALSE, {}, FALSE, FALSE)
  BY Zenon DEF Silent
<1>2. ToldWell(t)
  BY <1>1, ToldAsBefore, Zenon
<1>3. remote.strong \in Int
  BY Zenon DEF RefInv, RefTypes, Remote
<1>4. remote'.strong = remote.strong + One(Has(a, {"decRemote"})) - One(Has(agenda[t], {"decRemote"}))
            + One(Has(a, {"findObject", "withLock"})) - One(Has(agenda[t], {"findObject", "withLock"}))
  <2>1. /\ One(Has(a, {"decRemote"})) = 0 /\ One(Has(agenda[t], {"decRemote"})) = 0
        /\ One(Has(a, {"findObject", "withLock"})) = 0 /\ One(Has(agenda[t], {"findObject", "withLock"})) = 0
    BY <1>1, Zenon DEF Reads, One
  <2>2. \A r \in Int : r = r + 0 - 0 + 0 - 0
    OBVIOUS
  <2> QED
    BY <1>3, <2>1, <2>2, Zenon
<1>5. /\ \A q : HasOn(a, "decWeak", q) <=> HasOn(agenda[t], "decWeak", q)
      /\ Has(agenda[t], {"onLastStrongRef"}) => Has(a, {"onLastStrongRef"})
      /\ Has(a, {"findObject", "withLock"}) => held[t] = None
      /\ Has(a, {"descriptor", "setClass"}) => held[t] # None
  BY <1>1, Zenon DEF Reads
<1> QED
  BY <1>1, <1>2, <1>4, <1>5, QuietStep, Zenon

\* A step of sendObituary.
LEMMA DeathAgenda ==
  ASSUME RefInv, NEW t \in Threads, NEW what \in Deaths, NEW steps, Step(t, what, steps)
  PROVE  /\ agenda[t] # <<>> /\ Head(agenda[t]).do = what /\ Dying(agenda[t]) /\ On(t) \in Links
         /\ AgendaOf(t, steps \o Tail(agenda[t]))
         /\ steps = <<>> => AgendaOf(t, Tail(agenda[t])) /\ Dying(Tail(agenda[t]))
<1>1. agenda[t] # <<>> /\ Head(agenda[t]).do = what /\ Shaped(agenda[t]) /\ AgendaOf(t, steps \o Tail(agenda[t]))
  BY StepAgenda, Zenon
<1>2. Dying(agenda[t])
  BY <1>1, CallAgendas, Zenon
<1>3. On(t) \in Links
  BY <1>1, <1>2, DyingHeads, Zenon DEF On
<1>4. <<>> \o Tail(agenda[t]) = Tail(agenda[t])
  <2>1. agenda[t] \in Seq([do : Deaths, on : Links])
    BY <1>2, Zenon DEF Dying
  <2> QED
    BY <1>1, <2>1, TailEntries, Zenon
<1>5. Dying(Tail(agenda[t]))
  BY <1>1, <1>2, DyingTail, Zenon
<1> QED
  BY <1>1, <1>2, <1>3, <1>4, <1>5, Zenon

LEMMA DeathSteps ==
  "reportOneDeath" \in Deaths /\ "onDied" \in Deaths /\ "unlinkDead" \in Deaths /\ "clearWho" \in Deaths
BY Zenon DEF Deaths

\* The obituaries change, or nothing of the object.
LEMMA ObitsChange ==
  ASSUME RefTypes
  PROVE  /\ remote' = remote => remote' \in Remote /\ remote'.strong = remote.strong /\ remote'.sent = remote.sent
                                 /\ remote'.obits = remote.obits
         /\ \A o \in Seq(Links) : remote' = [remote EXCEPT !.obits = o] =>
              remote' \in Remote /\ remote'.strong = remote.strong /\ remote'.sent = remote.sent /\ remote'.obits = o
         /\ \A o \in Seq(Links) : remote' = [remote EXCEPT !.sent = TRUE, !.obits = o] =>
              remote' \in Remote /\ remote'.strong = remote.strong /\ remote'.sent = TRUE /\ remote'.obits = o
<1>1. remote \in Remote
  BY Zenon DEF RefTypes
<1> QED
  BY Zenon, <1>1 DEF Remote

\* What unlinkToDeath finds, and the obituary it removes.
Unlinked(l, c, by) ==
    /\ l \in rec.list /\ Matches(l, c)
    /\ rec' = [rec EXCEPT !.list = @ \ {l}]
    /\ tdr' = Released([tdr EXCEPT ![l].user = by], {l})
    /\ remote' = [remote EXCEPT !.obits = Without(remote.obits, l)]

LEMMA UnlinkCases ==
  ASSUME RefTypes, NEW c, NEW by, unlinkToDeath(c, by)
  PROVE  UNCHANGED <<rec, remote, tdr>> \/ \E l \in rec.list : Unlinked(l, c, by)
<1>1. CASE {l \in rec.list : Matches(l, c)} = {}
  BY <1>1, Zenon DEF unlinkToDeath
<1>2. CASE {l \in rec.list : Matches(l, c)} # {}
  <2>1. PICK l \in {k \in rec.list : Matches(k, c)} :
          /\ rec' = [rec EXCEPT !.list = @ \ {l}]
          /\ tdr' = Released([tdr EXCEPT ![l].user = by], {l})
          /\ remote' = [remote EXCEPT !.obits = Without(@, l)]
    BY <1>2, Zenon DEF unlinkToDeath
  <2>2. remote' = [remote EXCEPT !.obits = Without(remote.obits, l)]
    <3>1. remote \in Remote
      BY Zenon DEF RefTypes
    <3> QED
      BY Zenon, <2>1, <3>1 DEF Remote
  <2> QED
    BY <2>1, <2>2, Zenon DEF Unlinked
<1> QED
  BY <1>1, <1>2, Zenon

\* How the object and its obituaries change when links are unlinked.
LEMMA UnlinkRemote ==
  ASSUME RefInv, DeathInv, NEW c, NEW by, unlinkToDeath(c, by)
  PROVE  remote' \in Remote /\ remote'.strong = remote.strong
<1>1. RefTypes /\ remote \in Remote /\ DeathTypes /\ \A i, j \in DOMAIN remote.obits : i # j => remote.obits[i] # remote.obits[j]
  BY Zenon DEF RefInv, DeathInv, RefTypes
<1>2. rec.list \subseteq Links /\ remote.obits \in Seq(Links)
  BY Zenon, <1>1 DEF DeathTypes, Remote
<1>3. ASSUME NEW l \in rec.list, Unlinked(l, c, by) PROVE remote' \in Remote /\ remote'.strong = remote.strong
  <2>1. Lacks(Without(remote.obits, l), remote.obits, l)
    BY Zenon, <1>1, <1>2, <1>3, WithoutFacts
  <2>2. Without(remote.obits, l) \in Seq(Links)
    BY <2>1, Zenon DEF Lacks
  <2> QED
    BY <1>1, <1>3, <2>2, ObitsChange, Zenon DEF Unlinked
<1> QED
  BY <1>1, <1>3, ObitsChange, UnlinkCases, Zenon

LEMMA UnlinkSent ==
  ASSUME RefInv, DeathInv, NEW c, NEW by, unlinkToDeath(c, by)
  PROVE  remote'.sent = remote.sent
<1>1. remote \in Remote /\ RefTypes
  BY Zenon DEF RefInv, RefTypes
<1>2. ASSUME NEW l \in rec.list, Unlinked(l, c, by) PROVE remote'.sent = remote.sent
  BY Zenon, <1>1, <1>2 DEF Unlinked, Remote
<1> QED
  BY <1>1, <1>2, UnlinkCases, Zenon

LEMMA LinkRefs ==
  ASSUME Sizes(Threads), Sizes(Proxies), RefInv, DeathInv, NEW t \in Threads, NEW c \in Cookies,
         linkToDeath(t, c) \/ AIBinder_unlinkToDeath(t, c)
  PROVE  RefInv'
<1>1. /\ UNCHANGED <<value, abp, held, weakly, told, given>> /\ AgendaOf(t, <<>>) /\ agenda[t] = <<>> /\ RefTypes
  BY AgendaBy, Zenon DEF linkToDeath, AIBinder_unlinkToDeath, Call, Idle, RefInv
<1>2. remote' \in Remote /\ remote'.strong = remote.strong
  <2>1. CASE linkToDeath(t, c)
    <3>1. PICK l \in FirstFree(Links, LAMBDA k : tdr[k] = NoLink) :
            remote' = remote \/ remote' = [remote EXCEPT !.obits = Append(@, l)]
      BY <2>1, Zenon DEF linkToDeath
    <3>2. l \in Links /\ remote \in Remote
      BY Zenon, <1>1, <3>1 DEF FirstFree, RefTypes
    <3>3. Append(remote.obits, l) \in Seq(Links) /\ [remote EXCEPT !.obits = Append(@, l)] = [remote EXCEPT !.obits = Append(remote.obits, l)]
      BY <3>2 DEF Remote
    <3> QED
      BY <1>1, <3>1, <3>3, ObitsChange, Zenon
  <2>2. CASE AIBinder_unlinkToDeath(t, c)
    BY <2>2, UnlinkRemote, Zenon DEF AIBinder_unlinkToDeath
  <2> QED
    BY <2>1, <2>2, Zenon
<1> QED
  BY <1>1, <1>2, SilentAgendas, SilentStep, Zenon

LEMMA DyingRefs ==
  ASSUME Sizes(Threads), Sizes(Proxies), RefInv, DeathInv, NEW t \in Threads,
         sendObituary(t) \/ reportOneDeath(t) \/ onDied(t) \/ unlinkDead(t) \/ clearWho(t)
  PROVE  RefInv'
<1>1. UNCHANGED <<value, abp, held, weakly, told, given>> /\ RefTypes
  BY Zenon DEF sendObituary, reportOneDeath, onDied, unlinkDead, clearWho, refs, RefInv
<1>2. CASE sendObituary(t)
  <2> DEFINE a == [i \in DOMAIN remote.obits |-> Do("reportOneDeath", remote.obits[i])]
  <2>1. agenda[t] = <<>> /\ agenda' = [agenda EXCEPT ![t] = a] /\ remote' = [remote EXCEPT !.sent = TRUE, !.obits = <<>>]
    BY <1>2, Zenon DEF sendObituary, Idle
  <2>2. remote.obits \in Seq(Links) /\ <<>> \in Seq(Links)
    BY <1>1 DEF RefTypes, Remote
  <2>3. Dying(a)
    BY <2>2, DyingStarts, Zenon DEF DeathInv
  <2> HIDE DEF a
  <2>4. AgendaOf(t, a) /\ Silent(a) /\ Silent(agenda[t])
    BY <1>1, <2>1, <2>3, AgendaBy, SilentAgendas, Zenon
  <2>5. remote' \in Remote /\ remote'.strong = remote.strong
    BY <1>1, <2>1, <2>2, ObitsChange, Zenon
  <2> QED
    BY <1>1, <2>4, <2>5, SilentStep, Zenon
<1>3. ASSUME NEW what \in Deaths, Step(t, what, <<>>), remote' \in Remote, remote'.strong = remote.strong PROVE RefInv'
  <2>1. Dying(agenda[t]) /\ AgendaOf(t, Tail(agenda[t])) /\ Dying(Tail(agenda[t]))
    BY <1>3, DeathAgenda, Zenon
  <2> QED
    BY <1>1, <1>3, <2>1, SilentAgendas, SilentStep, Zenon
<1>4. UNCHANGED remote => remote' \in Remote /\ remote'.strong = remote.strong
  BY <1>1, ObitsChange, Zenon
<1>5. CASE reportOneDeath(t)
  <2>1. UNCHANGED remote
    BY <1>5, Zenon DEF reportOneDeath, refs
  <2>2. CASE Step(t, "reportOneDeath", <<>>)
    BY <1>3, <1>4, <2>1, <2>2, DeathSteps, Zenon
  <2>3. CASE Step(t, "reportOneDeath", Telling(On(t)))
    <3>1. /\ agenda[t] # <<>> /\ Head(agenda[t]).do = "reportOneDeath" /\ Dying(agenda[t])
          /\ AgendaOf(t, Telling(On(t)) \o Tail(agenda[t]))
      BY <2>3, DeathAgenda, DeathSteps, Zenon
    <3>2. \E R : Tells(Tail(agenda[t]), R, {}, {})
      BY <3>1, DyingTells, Zenon
    <3>3. Dying(Telling(On(t)) \o Tail(agenda[t]))
      BY <3>1, <3>2, DyingTelling, Zenon DEF On
    <3> QED
      BY <1>1, <1>4, <2>1, <3>1, <3>3, SilentAgendas, SilentStep, Zenon
  <2> QED
    BY <1>5, <2>2, <2>3, Zenon DEF reportOneDeath, Telling
<1>6. CASE onDied(t)
  BY <1>3, <1>4, <1>6, DeathSteps, Zenon DEF onDied, refs
<1>7. CASE unlinkDead(t)
  <2>1. unlinkToDeath(tdr[On(t)].mCookie, "linked") \/ UNCHANGED remote
    BY <1>7, Zenon DEF unlinkDead
  <2>2. remote' \in Remote /\ remote'.strong = remote.strong
    BY <1>4, <2>1, UnlinkRemote, Zenon
  <2> QED
    BY <1>3, <1>7, <2>2, DeathSteps, Zenon DEF unlinkDead
<1>8. CASE clearWho(t)
  BY <1>3, <1>4, <1>8, DeathSteps, Zenon DEF clearWho, refs
<1> QED
  BY <1>2, <1>5, <1>6, <1>7, <1>8, Zenon

LEMMA SameRefs ==
  ASSUME RefInv, UNCHANGED <<refs, agenda>> PROVE RefInv'
<1>1. UNCHANGED <<remote, value, abp, held, weakly, told, given, agenda>>
  BY Zenon DEF refs
<1>2. RefTypes' /\ RemoteHeldOnce'
  <2>1. Busy({"decRemote"})' = Busy({"decRemote"}) /\ Busy({"findObject", "withLock"})' = Busy({"findObject", "withLock"})
    BY <1>1, Zenon DEF Busy
  <2> QED
    BY <1>1, <2>1, Zenon DEF RefInv, RefTypes, RemoteHeldOnce
<1>3. ASSUME NEW q \in Proxies PROVE Counted(q)'
  <2>1. Holders(q)' = Holders(q) /\ Keepers(q)' = Keepers(q) /\ Weakeners(q)' = Weakeners(q) /\ Counted(q)
    BY <1>1, Zenon DEF RefInv, Holders, Keepers, Weakeners
  <2> QED
    BY <1>1, <2>1, Zenon DEF Counted
<1>4. ValueKept' /\ (\A u \in Threads : ThreadKeeps(u)') /\ \A q \in Proxies : abp'[q].weak = 0 => abp'[q].mClazz = None
  BY <1>1, Zenon DEF RefInv, ValueKept, ThreadKeeps
<1> QED
  BY <1>2, <1>3, <1>4, Zenon DEF RefInv

-----------------------------------------------------------------------------
(* Deaths: what a step of t does to the links                              *)

Known(R, C, D) == \A k \in Links :
    (Reported(k) <=> k \in R) /\ (Reporting(k) <=> k \in C) /\ (Doomed(k) <=> k \in D)

LEMMA HasDeaths ==
  ASSUME NEW a, NEW k
  PROVE  /\ HasOn(a, "reportOneDeath", k) => Has(a, Deaths)
         /\ HasOn(a, "clearWho", k) => Has(a, Deaths)
         /\ HasOn(a, "onDied", k) => Has(a, Deaths)
BY Zenon DEF HasOn, Has, Deaths

\* A step that is not about deaths.
LEMMA LivingAgenda ==
  ASSUME NEW t \in Threads, NEW a, AgendaOf(t, a), Lives(agenda[t]), Lives(a)
  PROVE  /\ \E R, C, D : Known(R, C, D) /\ Known(R, C, D)'
         /\ DeathThreads /\ remote'.sent = remote.sent => DeathThreads'
<1>1. /\ \A u \in Threads : \A k : HasOn(agenda'[u], "reportOneDeath", k) <=> HasOn(agenda[u], "reportOneDeath", k)
      /\ \A u \in Threads : \A k : HasOn(agenda'[u], "clearWho", k) <=> HasOn(agenda[u], "clearWho", k)
      /\ \A u \in Threads : \A k : HasOn(agenda'[u], "onDied", k) <=> HasOn(agenda[u], "onDied", k)
      /\ \A u \in Threads : Has(agenda'[u], Deaths) <=> Has(agenda[u], Deaths)
  <2>1. agenda'[t] = a /\ \A u \in Threads : u # t => agenda'[u] = agenda[u]
    BY Zenon DEF AgendaOf
  <2>2. ~Has(agenda[t], Deaths) /\ ~Has(agenda'[t], Deaths)
    BY <2>1, Zenon DEF Lives
  <2> QED
    BY <2>1, <2>2, HasDeaths, Zenon
<1>2. DeathThreads /\ remote'.sent = remote.sent => DeathThreads'
  BY <1>1, Zenon DEF DeathThreads
<1>3. \A k \in Links : (Reported(k)' <=> Reported(k)) /\ (Reporting(k)' <=> Reporting(k)) /\ (Doomed(k)' <=> Doomed(k))
  BY <1>1, Zenon DEF Reported, Reporting, Doomed
<1> DEFINE R == {k \in Links : Reported(k)}
           C == {k \in Links : Reporting(k)}
           D == {k \in Links : Doomed(k)}
<1>4. \A k \in Links : (Reported(k) <=> k \in R) /\ (Reporting(k) <=> k \in C) /\ (Doomed(k) <=> k \in D)
  BY Zenon
<1> HIDE DEF R, C, D
<1>5. PICK R2, C2, D2 : R2 = R /\ C2 = C /\ D2 = D
  BY Zenon
<1>6. Known(R2, C2, D2) /\ Known(R2, C2, D2)'
  BY <1>3, <1>4, <1>5, Zenon DEF Known
<1> QED
  BY <1>2, <1>6, Zenon

\* A step of the thread that reports deaths.
LEMMA DyingAgenda ==
  ASSUME DeathThreads, NEW t \in Threads, NEW a, AgendaOf(t, a), Dying(agenda[t]), agenda[t] # <<>>,
         NEW R, NEW C, NEW D, Tells(agenda[t], R, C, D),
         NEW R2, NEW C2, NEW D2, Tells(a, R2, C2, D2), remote'.sent = remote.sent
  PROVE  Known(R, C, D) /\ Known(R2, C2, D2)' /\ DeathThreads' /\ remote.sent
<1>1. Has(agenda[t], Deaths)
  <2>1. agenda[t] \in Seq([do : Deaths, on : Links]) /\ \A i \in DOMAIN agenda[t] : agenda[t][i].do \in Deaths
    BY DyingEntries, Zenon
  <2>2. 1 \in DOMAIN agenda[t]
    BY <2>1
  <2> QED
    BY <2>1, <2>2, Zenon DEF Has
<1>2. remote.sent /\ \A u \in Threads : u # t => ~Has(agenda[u], Deaths)
  BY <1>1, Zenon DEF DeathThreads
<1>3. agenda'[t] = a /\ \A u \in Threads : u # t => agenda'[u] = agenda[u]
  BY Zenon DEF AgendaOf
<1>4. Known(R, C, D)
  <2>1. /\ \A u \in Threads : \A k : HasOn(agenda[u], "reportOneDeath", k) => u = t
        /\ \A u \in Threads : \A k : HasOn(agenda[u], "clearWho", k) => u = t
        /\ \A u \in Threads : \A k : HasOn(agenda[u], "onDied", k) => u = t
    BY <1>2, HasDeaths, Zenon
  <2> QED
    BY <2>1, Zenon DEF Known, Reported, Reporting, Doomed, Tells
<1>5. Known(R2, C2, D2)'
  <2>1. /\ \A u \in Threads : \A k : HasOn(agenda'[u], "reportOneDeath", k) => u = t
        /\ \A u \in Threads : \A k : HasOn(agenda'[u], "clearWho", k) => u = t
        /\ \A u \in Threads : \A k : HasOn(agenda'[u], "onDied", k) => u = t
    BY <1>2, <1>3, HasDeaths, Zenon
  <2>2. /\ \A k : HasOn(agenda'[t], "reportOneDeath", k) <=> k \in R2
        /\ \A k : HasOn(agenda'[t], "clearWho", k) <=> k \in C2
        /\ \A k : HasOn(agenda'[t], "onDied", k) <=> k \in D2
    BY <1>3, Zenon DEF Tells
  <2> QED
    BY <2>1, <2>2, Zenon DEF Known, Reported, Reporting, Doomed
<1>6. DeathThreads'
  BY <1>2, <1>3, Zenon DEF DeathThreads
<1> QED
  BY <1>2, <1>4, <1>5, <1>6, Zenon

\* What was told stays told.
Kept == \A k \in Links : tdr[k].died => tdr'[k].died /\ tdr'[k].mCookie = tdr[k].mCookie

LEMMA ToldStays ==
  ASSUME Kept, NEW c, Told(c) PROVE Told(c)'
BY Zenon DEF Kept, Told

\* A link that the step is not about.
Same(k) == /\ tdr'[k] = tdr[k] /\ (k \in rec'.list <=> k \in rec.list) /\ (rec'.strong > 0 => rec.strong > 0)
           /\ (Listed(k)' <=> Listed(k)) /\ (Reported(k)' <=> Reported(k))
           /\ (Reporting(k)' <=> Reporting(k)) /\ (Doomed(k)' <=> Doomed(k))

LEMMA SoundSame ==
  ASSUME NEW k \in Links, LinkSound(k), Same(k), Kept PROVE LinkSound(k)'
<1>1. PICK c : c = tdr[k].mCookie
  BY Zenon
<1>2. /\ Told(tdr[k].mCookie) => Told(tdr[k].mCookie)'
      /\ tdr'[k] = tdr[k]
  <2>1. Told(c) => Told(c)'
    BY ToldStays, Zenon
  <2>2. tdr'[k].mCookie = c
    BY <1>1, Zenon DEF Same
  <2> QED
    BY <1>1, <2>1, <2>2, Zenon DEF Told, Same
<1>3. One(Reporting(k)') = One(Reporting(k)) /\ One(k \in rec'.list) = One(k \in rec.list)
  BY Zenon DEF One, Same
<1> QED
  BY <1>2, <1>3, Zenon DEF LinkSound, Same

LEMMA LinkFacts ==
  ASSUME DeathInv, NEW l \in Links
  PROVE  /\ tdr[l] \in Link /\ tdr[l].sp \in Nat /\ tdr[l].unlinked \in Nat
         /\ tdr[l].sp = One(l \in rec.list) + One(Reporting(l))
         /\ l \in rec.list \/ Reporting(l) => tdr[l].sp > 0
         /\ tdr[l].sp > 0 => tdr[l] # NoLink /\ tdr[l].unlinked = 0
<1>1. tdr[l] \in Link /\ LinkSound(l)
  BY Zenon DEF DeathInv, DeathTypes
<1>2. tdr[l].sp \in Nat /\ tdr[l].unlinked \in Nat /\ tdr[l].sp = One(l \in rec.list) + One(Reporting(l))
  BY Zenon, <1>1 DEF Link, LinkSound
<1>3. l \in rec.list \/ Reporting(l) => tdr[l].sp > 0
  BY <1>2 DEF One
<1>4. tdr[l].sp > 0 => tdr[l] # NoLink
  BY DEF NoLink
<1>5. tdr[l] = NoLink \/ tdr[l].unlinked = One(tdr[l].sp = 0)
  BY <1>1, Zenon DEF LinkSound
<1>6. tdr[l].sp > 0 => One(tdr[l].sp = 0) = 0
  BY DEF One
<1> QED
  BY <1>1, <1>2, <1>3, <1>4, <1>5, <1>6, Zenon

\* Links lose an sp<>.
Looser(new, old) ==
    /\ new.sp = old.sp - 1 /\ new.unlinked = old.unlinked + One(old.sp = 1)
    /\ new.mCookie = old.mCookie /\ new.mWho = old.mWho /\ new.died = old.died /\ new.late = old.late
    /\ new.user = old.user

LEMMA ReleasedFacts ==
  ASSUME NEW all \in [Links -> Link], NEW S, \A k \in S : k \in Links => all[k].sp > 0
  PROVE  /\ Released(all, S) \in [Links -> Link]
         /\ \A k \in Links : k \notin S => Released(all, S)[k] = all[k]
         /\ \A k \in Links : k \in S => Looser(Released(all, S)[k], all[k])
<1> DEFINE f == Released(all, S)
<1>1. f = [l \in Links |-> IF l \notin S THEN all[l]
                   ELSE [all[l] EXCEPT !.sp = @ - 1, !.unlinked = IF all[l].sp = 1 THEN @ + 1 ELSE @]]
  BY Zenon DEF Released
<1>2. ASSUME NEW l \in Links, l \in S PROVE f[l] \in Link /\ Looser(f[l], all[l])
  <2>1. PICK x \in Link : x = all[l]
    BY Zenon
  <2>2. f[l] = [x EXCEPT !.sp = @ - 1, !.unlinked = IF x.sp = 1 THEN @ + 1 ELSE @] /\ x.sp > 0
    BY <1>1, <1>2, <2>1, Zenon
  <2>3. [x EXCEPT !.sp = @ - 1, !.unlinked = IF x.sp = 1 THEN @ + 1 ELSE @] \in Link
    <3>1. x.sp \in Nat /\ x.unlinked \in Nat
      BY Zenon DEF Link
    <3>2. \A n, m \in Nat : [x EXCEPT !.sp = n, !.unlinked = m] \in Link
      BY Zenon DEF Link
    <3>3. x.sp - 1 \in Nat /\ (IF x.sp = 1 THEN x.unlinked + 1 ELSE x.unlinked) \in Nat
      BY <2>2, <3>1
    <3> QED
      BY Zenon, <3>2, <3>3
  <2>4. Looser([x EXCEPT !.sp = @ - 1, !.unlinked = IF x.sp = 1 THEN @ + 1 ELSE @], x)
    BY <2>2 DEF Link, Looser, One
  <2> QED
    BY <2>1, <2>2, <2>3, <2>4, Zenon
<1>3. ASSUME NEW l \in Links, l \notin S PROVE f[l] = all[l] /\ f[l] \in Link
  BY <1>1, <1>3, Zenon
<1>4. f \in [Links -> Link]
  <2>1. \A l \in Links : f[l] \in Link
    BY <1>2, <1>3, Zenon
  <2>2. f = [l \in Links |-> f[l]]
    BY <1>1, Zenon
  <2> HIDE DEF f
  <2> QED
    BY <2>1, <2>2, Zenon
<1> QED
  BY <1>2, <1>3, <1>4, Zenon

\* The destructor of a link that nothing holds any more has called onUnlinked.
LEMMA LooserLink ==
  ASSUME NEW new, NEW old \in Link, new \in Link, Looser(new, old), old.sp > 0, old.unlinked = 0
  PROVE  new # NoLink /\ new.unlinked = One(new.sp = 0) /\ new.sp = old.sp - 1 /\ new.sp \in Nat
<1>1. old.sp \in Nat /\ new.sp = old.sp - 1 /\ new.unlinked = 0 + One(old.sp = 1) /\ new.sp \in Nat
  BY Zenon DEF Link, Looser
<1>2. new.unlinked = One(new.sp = 0)
  BY <1>1 DEF One
<1>3. new # NoLink
  <2>1. NoLink.sp = 0 /\ NoLink.unlinked = 0
    BY Zenon DEF NoLink
  <2>2. new.sp = 0 => new.unlinked = 1
    BY Zenon, <1>2 DEF One
  <2> QED
    BY <2>1, <2>2
<1> QED
  BY <1>1, <1>2, <1>3, Zenon

-----------------------------------------------------------------------------
(* Deaths: the steps                                                       *)

\* A step that is not about links.
LEMMA LivingStep ==
  ASSUME RefInv, RefInv', DeathInv, NEW t \in Threads, NEW a, AgendaOf(t, a), Lives(agenda[t]), Lives(a), UNCHANGED <<rec, tdr>>,
         remote'.sent = remote.sent, remote'.obits = remote.obits
  PROVE  DeathInv'
<1>1. PICK R, C, D : Known(R, C, D) /\ Known(R, C, D)'
  BY LivingAgenda, Zenon
<1>2. DeathThreads'
  BY LivingAgenda, Zenon DEF DeathInv
<1>3. ASSUME NEW k \in Links PROVE LinkSound(k)'
  <2>1. Same(k) /\ Kept /\ LinkSound(k)
    BY <1>1, Zenon DEF Same, Kept, Known, Listed, DeathInv
  <2> QED
    BY <2>1, SoundSame, Zenon
<1> QED
  BY <1>2, <1>3, Zenon DEF DeathInv, DeathTypes

LEMMA OnDiedDeaths ==
  ASSUME RefInv, DeathInv, NEW t \in Threads, onDied(t)
  PROVE  DeathInv'
<1>0. PICK l : l = On(t)
  BY Zenon
<1>1. /\ agenda[t] # <<>> /\ Head(agenda[t]).do = "onDied" /\ Dying(agenda[t]) /\ l \in Links
      /\ AgendaOf(t, Tail(agenda[t])) /\ UNCHANGED <<remote, rec>>
      /\ tdr' = [tdr EXCEPT ![l] = Died(@)]
  BY <1>0, DeathAgenda, DeathSteps, Zenon DEF onDied, refs
<1>2. PICK R : Tells(agenda[t], R, {l}, {l}) /\ Tells(Tail(agenda[t]), R, {l}, {}) /\ l \notin R
  BY <1>0, <1>1, DyingTells, Zenon DEF On
<1>3. Known(R, {l}, {l}) /\ Known(R, {l}, {})' /\ DeathThreads'
  <2>1. remote'.sent = remote.sent /\ DeathThreads
    BY <1>1, Zenon DEF DeathInv
  <2> QED
    BY <1>1, <1>2, <2>1, DyingAgenda, Zenon
<1>4. /\ tdr[l] \in Link /\ tdr[l].sp = One(l \in rec.list) + One(Reporting(l)) /\ tdr[l].sp > 0
      /\ tdr[l] # NoLink /\ tdr[l].unlinked = 0 /\ LinkSound(l)
  BY <1>1, <1>3, LinkFacts, Zenon DEF Known, DeathInv
<1>5. /\ tdr' \in [Links -> Link] /\ \A k \in Links : k # l => tdr'[k] = tdr[k]
      /\ tdr'[l].sp = tdr[l].sp /\ tdr'[l].unlinked = 0 /\ tdr'[l].died /\ ~tdr'[l].late /\ tdr'[l] \in Link
      /\ tdr'[l].mCookie = tdr[l].mCookie
  <2>1. tdr \in [Links -> Link] /\ ~tdr[l].late
    BY <1>4, Zenon DEF DeathInv, DeathTypes, LinkSound
  <2>2. PICK x \in Link : x = tdr[l] /\ x.unlinked = 0 /\ ~x.late
    BY <1>4, <2>1, Zenon
  <2>3. PICK y : y = [x EXCEPT !.died = TRUE, !.late = FALSE]
    BY Zenon
  <2>4. y \in Link /\ y.sp = x.sp /\ y.unlinked = 0 /\ y.died /\ ~y.late /\ y.mCookie = x.mCookie
    BY Zenon, <2>2, <2>3 DEF Link
  <2>5. tdr' = [tdr EXCEPT ![l] = y]
    <3>1. Died(x) = y
      <4>1. ~(x.unlinked > 0)
        BY <2>2
      <4>2. (x.late \/ x.unlinked > 0) = FALSE
        BY <2>2, <4>1, Zenon
      <4>3. Died(x) = [x EXCEPT !.died = TRUE, !.late = (x.late \/ x.unlinked > 0)]
        BY Zenon DEF Died, Link
      <4> QED
        BY Zenon, <2>3, <4>2, <4>3
    <3> QED
      BY <1>1, <2>1, <2>2, <3>1, Zenon
  <2> QED
    BY <1>1, <2>1, <2>2, <2>4, <2>5, Zenon
<1>6. Kept
  BY <1>5, Zenon DEF Kept
<1>7. ASSUME NEW k \in Links, k # l PROVE LinkSound(k)'
  <2>1. Same(k) /\ LinkSound(k)
    <3>1. k \notin {l} /\ LinkSound(k) /\ tdr'[k] = tdr[k]
      BY <1>5, <1>7, Zenon DEF DeathInv
    <3>2. Listed(k)' <=> Listed(k)
      BY <1>1, Zenon DEF Listed
    <3> QED
      BY <1>1, <1>3, <3>1, <3>2, Zenon DEF Same, Known
  <2> QED
    BY <1>6, <2>1, SoundSame, Zenon
<1>8. LinkSound(l)'
  <2>1. Reporting(l)' /\ One(Reporting(l)') = One(Reporting(l))
    BY <1>1, <1>3, Zenon DEF Known, One
  <2>2. tdr'[l].sp = One(l \in rec'.list) + One(Reporting(l)')
    BY <1>1, <1>4, <1>5, <2>1, Zenon
  <2>3. One(tdr'[l].sp = 0) = 0
    BY <1>4, <1>5 DEF One
  <2>4. tdr'[l] # NoLink
    BY <1>5 DEF NoLink
  <2>5. \E k \in Links : tdr'[k].mCookie = tdr'[l].mCookie /\ tdr'[k].died
    BY <1>1, <1>5, Zenon
  <2> QED
    BY <1>5, <2>2, <2>3, <2>4, <2>5, Zenon DEF LinkSound, Told
<1> QED
  BY <1>1, <1>3, <1>5, <1>7, <1>8, Zenon DEF DeathInv, DeathTypes

LEMMA ReportDeaths ==
  ASSUME RefInv, DeathInv, NEW t \in Threads, reportOneDeath(t)
  PROVE  DeathInv'
<1>0. PICK l : l = On(t)
  BY Zenon
<1>1. UNCHANGED <<remote, rec>> /\ remote'.sent = remote.sent /\ DeathThreads
  BY Zenon DEF reportOneDeath, refs, DeathInv
<1>2. \A k : Listed(k)' <=> Listed(k)
  BY <1>1, Zenon DEF Listed
<1>3. \E steps : Step(t, "reportOneDeath", steps)
  BY Zenon DEF reportOneDeath
<1>4. agenda[t] # <<>> /\ Head(agenda[t]).do = "reportOneDeath" /\ Dying(agenda[t]) /\ l \in Links
  BY <1>0, <1>3, DeathAgenda, DeathSteps, Zenon
<1>5. PICK R : Tells(agenda[t], R \cup {l}, {}, {}) /\ Tells(Tail(agenda[t]), R, {}, {}) /\ l \notin R
  BY <1>0, <1>4, DyingTells, Zenon DEF On
<1>6. tdr \in [Links -> Link] /\ \A k \in Links : LinkSound(k)
  BY Zenon DEF DeathInv, DeathTypes
<1>7. tdr[l] \in Link /\ tdr[l].sp \in Nat /\ (tdr[l].sp > 0 => tdr[l] # NoLink /\ tdr[l].unlinked = 0)
      /\ tdr[l].sp = One(l \in rec.list) + One(Reporting(l)) /\ (l \in rec.list => tdr[l].sp > 0)
  BY <1>4, LinkFacts, Zenon
<1>8. CASE PromotesLink(l)
  <2>1. Step(t, "reportOneDeath", Telling(l)) /\ tdr' = [tdr EXCEPT ![l].sp = @ + 1] /\ tdr[l].sp > 0
    BY <1>0, <1>8, Zenon DEF reportOneDeath, Telling, PromotesLink
  <2>2. AgendaOf(t, Telling(l) \o Tail(agenda[t]))
    BY <2>1, DeathAgenda, DeathSteps, Zenon
  <2>3. Tells(Telling(l) \o Tail(agenda[t]), R, {l}, {l})
    BY <1>0, <1>4, <1>5, DyingTelling, Zenon DEF On
  <2>4. Known(R \cup {l}, {}, {}) /\ Known(R, {l}, {l})' /\ DeathThreads'
    BY <1>1, <1>4, <1>5, <2>2, <2>3, DyingAgenda, Zenon
  <2>5. /\ tdr' \in [Links -> Link] /\ \A k \in Links : k # l => tdr'[k] = tdr[k]
        /\ tdr'[l] = [tdr[l] EXCEPT !.sp = @ + 1]
    <3>1. [tdr[l] EXCEPT !.sp = @ + 1] \in Link
      BY <1>7 DEF Link
    <3> QED
      BY Zenon, <1>4, <1>6, <2>1, <3>1
  <2>6. /\ tdr'[l].sp = tdr[l].sp + 1 /\ tdr'[l].unlinked = 0 /\ tdr'[l].died = tdr[l].died /\ tdr'[l].late = tdr[l].late
        /\ tdr'[l].mCookie = tdr[l].mCookie /\ tdr'[l].mWho = tdr[l].mWho /\ tdr'[l].user = tdr[l].user
    BY <1>7, <2>1, <2>5 DEF Link
  <2>7. Kept
    BY <2>5, <2>6, Zenon DEF Kept
  <2>8. ASSUME NEW k \in Links, k # l PROVE LinkSound(k)'
    <3>1. k \notin {l} /\ LinkSound(k) /\ tdr'[k] = tdr[k] /\ (k \in R \cup {l} <=> k \in R)
      BY <1>6, <2>5, <2>8, Zenon
    <3>2. Same(k)
      BY <1>1, <1>2, <2>4, <3>1, Zenon DEF Same, Known
    <3> QED
      BY <2>7, <3>1, <3>2, SoundSame, Zenon
  <2>9. LinkSound(l)'
    <3>1. ~Reporting(l) /\ Reporting(l)' /\ Doomed(l)' /\ ~Doomed(l)
      BY <1>4, <2>4, Zenon DEF Known
    <3>2. One(Reporting(l)) = 0 /\ One(Reporting(l)') = 1 /\ One(l \in rec'.list) = One(l \in rec.list) /\ One(l \in rec.list) \in Int
      BY <1>1, <3>1, OneIsInt, Zenon DEF One
    <3>3. tdr'[l].sp = One(l \in rec'.list) + One(Reporting(l)')
      BY <1>7, <2>6, <3>2
    <3>4. One(tdr'[l].sp = 0) = 0 /\ tdr'[l] # NoLink
      BY <1>7, <2>6 DEF One, NoLink
    <3>5. ~tdr[l].late /\ (~tdr[l].mWho => tdr[l].died)
      BY <1>4, <1>6, <1>7, <2>1, Zenon DEF LinkSound
    <3>6. tdr'[l].user = "linked" /\ rec'.strong > 0 => l \in rec'.list \/ Told(tdr[l].mCookie)
      BY <1>1, <1>4, <1>6, <2>6, Zenon DEF LinkSound
    <3>7. Told(tdr[l].mCookie) => Told(tdr[l].mCookie)'
      <4>1. PICK c : c = tdr[l].mCookie
        BY Zenon
      <4>2. Told(c) => Told(c)'
        BY <2>7, ToldStays, Zenon
      <4> QED
        BY <2>6, <4>1, <4>2, Zenon DEF Told
    <3> QED
      BY <2>6, <3>1, <3>3, <3>4, <3>5, <3>6, <3>7, Zenon DEF LinkSound
  <2> QED
    BY <1>1, <2>4, <2>5, <2>8, <2>9, Zenon DEF DeathInv, DeathTypes
<1>9. CASE ~PromotesLink(l)
  <2>1. Step(t, "reportOneDeath", <<>>) /\ tdr' = tdr /\ ~(tdr[l].sp > 0)
    BY <1>0, <1>9, Zenon DEF reportOneDeath, PromotesLink
  <2>2. AgendaOf(t, Tail(agenda[t]))
    BY <2>1, DeathAgenda, DeathSteps, Zenon
  <2>3. Known(R \cup {l}, {}, {}) /\ Known(R, {}, {})' /\ DeathThreads'
    BY <1>1, <1>4, <1>5, <2>2, DyingAgenda, Zenon
  <2>4. Kept
    BY <2>1, Zenon DEF Kept
  <2>5. ASSUME NEW k \in Links, k # l PROVE LinkSound(k)'
    <3>1. LinkSound(k) /\ tdr'[k] = tdr[k] /\ (k \in R \cup {l} <=> k \in R)
      BY <1>6, <2>1, <2>5, Zenon
    <3>2. Same(k)
      BY <1>1, <1>2, <2>3, <3>1, Zenon DEF Same, Known
    <3> QED
      BY <2>4, <3>1, <3>2, SoundSame, Zenon
  <2>6. LinkSound(l)'
    <3>1. ~Reporting(l) /\ ~Reporting(l)' /\ ~Reported(l)' /\ l \notin rec.list
      BY <1>4, <1>5, <1>7, <2>1, <2>3, Zenon DEF Known
    <3>2. One(Reporting(l)') = One(Reporting(l)) /\ One(l \in rec'.list) = One(l \in rec.list)
      BY <1>1, <3>1, Zenon DEF One
    <3>3. Told(tdr[l].mCookie)' <=> Told(tdr[l].mCookie)
      BY <2>1, Zenon DEF Told
    <3>4. LinkSound(l)
      BY <1>4, <1>6, Zenon
    <3> QED
      BY <1>1, <1>2, <2>1, <3>1, <3>2, <3>3, <3>4, Zenon DEF LinkSound
  <2> QED
    BY <1>1, <1>6, <2>1, <2>3, <2>5, <2>6, Zenon DEF DeathInv, DeathTypes
<1> QED
  BY <1>8, <1>9, Zenon

LEMMA ClearWhoDeaths ==
  ASSUME RefInv, DeathInv, NEW t \in Threads, clearWho(t)
  PROVE  DeathInv'
<1>0. PICK l : l = On(t)
  BY Zenon
<1>1. /\ agenda[t] # <<>> /\ Head(agenda[t]).do = "clearWho" /\ Dying(agenda[t]) /\ l \in Links
      /\ AgendaOf(t, Tail(agenda[t])) /\ UNCHANGED <<remote, rec>>
      /\ tdr' = Released([tdr EXCEPT ![l].mWho = FALSE], {l})
  BY <1>0, DeathAgenda, DeathSteps, Zenon DEF clearWho, refs
<1>2. PICK R : Tells(agenda[t], R, {l}, {}) /\ Tells(Tail(agenda[t]), R, {}, {}) /\ l \notin R
  BY <1>0, <1>1, DyingTells, Zenon DEF On
<1>3. Known(R, {l}, {}) /\ Known(R, {}, {})' /\ DeathThreads'
  <2>1. remote'.sent = remote.sent /\ DeathThreads
    BY <1>1, Zenon DEF DeathInv
  <2> QED
    BY <1>1, <1>2, <2>1, DyingAgenda, Zenon
<1>4. Reporting(l) /\ ~Doomed(l) /\ ~Reporting(l)'
  BY <1>1, <1>3, Zenon DEF Known
<1>5. /\ tdr[l] \in Link /\ tdr[l].sp = One(l \in rec.list) + One(Reporting(l)) /\ tdr[l].sp > 0
      /\ tdr[l] # NoLink /\ tdr[l].unlinked = 0 /\ LinkSound(l) /\ tdr[l].died /\ ~tdr[l].late
  <2>1. /\ tdr[l] \in Link /\ tdr[l].sp = One(l \in rec.list) + One(Reporting(l)) /\ tdr[l].sp > 0
        /\ tdr[l] # NoLink /\ tdr[l].unlinked = 0 /\ LinkSound(l)
    BY <1>1, <1>4, LinkFacts, Zenon DEF DeathInv
  <2> QED
    BY <1>4, <2>1, Zenon DEF LinkSound
<1>6. PICK x, y : x \in Link /\ x = tdr[l] /\ y = [x EXCEPT !.mWho = FALSE]
  BY <1>5, Zenon
<1>7. /\ y \in Link /\ y.sp = x.sp /\ y.unlinked = x.unlinked /\ y.died = x.died /\ y.late = x.late /\ y.mCookie = x.mCookie
      /\ y.user = x.user
  BY Zenon, <1>6 DEF Link
<1>8. tdr \in [Links -> Link] /\ \A k \in Links : LinkSound(k)
  BY Zenon DEF DeathInv, DeathTypes
<1>9. PICK all : all = [tdr EXCEPT ![l] = y]
  BY Zenon
<1>10. all \in [Links -> Link] /\ all[l] = y /\ (\A k \in Links : k # l => all[k] = tdr[k]) /\ tdr' = Released(all, {l})
  <2>1. all = [tdr EXCEPT ![l].mWho = FALSE]
    BY <1>6, <1>9, Zenon
  <2> QED
    BY <1>1, <1>7, <1>8, <1>9, <2>1, Zenon
<1>11. /\ tdr' \in [Links -> Link] /\ Looser(tdr'[l], y) /\ tdr'[l] \in Link
       /\ \A k \in Links : k # l => tdr'[k] = tdr[k]
  <2>1. \A k \in {l} : k \in Links => all[k].sp > 0
    BY <1>5, <1>6, <1>7, <1>10, Zenon
  <2>2. /\ Released(all, {l}) \in [Links -> Link]
        /\ \A k \in Links : k \notin {l} => Released(all, {l})[k] = all[k]
        /\ \A k \in Links : k \in {l} => Looser(Released(all, {l})[k], all[k])
    BY <1>10, <2>1, ReleasedFacts, Zenon
  <2> QED
    BY <1>1, <1>10, <2>2, Zenon
<1>12. /\ tdr'[l] # NoLink /\ tdr'[l].unlinked = One(tdr'[l].sp = 0) /\ tdr'[l].sp = tdr[l].sp - 1
       /\ tdr'[l].died /\ ~tdr'[l].late /\ tdr'[l].mCookie = tdr[l].mCookie
  <2>1. tdr'[l] # NoLink /\ tdr'[l].unlinked = One(tdr'[l].sp = 0) /\ tdr'[l].sp = y.sp - 1
    <3>1. y \in Link /\ tdr'[l] \in Link /\ Looser(tdr'[l], y) /\ y.sp > 0 /\ y.unlinked = 0
      BY <1>5, <1>6, <1>7, <1>11, Zenon
    <3> QED
      BY <3>1, LooserLink, Zenon
  <2> QED
    BY <1>5, <1>6, <1>7, <1>11, <2>1, Zenon DEF Looser
<1>13. Kept
  BY <1>11, <1>12, Zenon DEF Kept
<1>14. ASSUME NEW k \in Links, k # l PROVE LinkSound(k)'
  <2>1. k \notin {l} /\ LinkSound(k) /\ tdr'[k] = tdr[k] /\ (Listed(k)' <=> Listed(k))
    BY <1>1, <1>8, <1>11, <1>14, Zenon DEF Listed
  <2>2. Same(k)
    BY <1>1, <1>3, <2>1, Zenon DEF Same, Known
  <2> QED
    BY <1>13, <2>1, <2>2, SoundSame, Zenon
<1>15. LinkSound(l)'
  <2>1. One(Reporting(l)) = 1 /\ One(Reporting(l)') = 0 /\ One(l \in rec'.list) = One(l \in rec.list) /\ One(l \in rec.list) \in Int
    BY <1>1, <1>4, OneIsInt, Zenon DEF One
  <2>2. tdr'[l].sp = One(l \in rec'.list) + One(Reporting(l)')
    BY <1>5, <1>12, <2>1
  <2>3. \E k \in Links : tdr'[k].mCookie = tdr'[l].mCookie /\ tdr'[k].died
    BY <1>1, <1>12, Zenon
  <2> QED
    BY <1>12, <2>2, <2>3, Zenon DEF LinkSound, Told
<1> QED
  BY <1>1, <1>3, <1>11, <1>14, <1>15, Zenon DEF DeathInv, DeathTypes

\* A link is unlinked; when it is not the user who asked for that, its cookie was told.
LEMMA UnlinkDeaths ==
  ASSUME RefInv, DeathInv, NEW c, NEW by \in {"linked", "unlinked"}, unlinkToDeath(c, by), by = "linked" => Told(c),
         NEW R, NEW C, NEW D, Known(R, C, D), Known(R, C, D)', DeathThreads'
  PROVE  DeathInv'
<1>1. /\ tdr \in [Links -> Link] /\ rec \in [strong : {0, 1}, list : SUBSET Links]
      /\ \A k \in Links : LinkSound(k)
      /\ \A i, j \in DOMAIN remote.obits : i # j => remote.obits[i] # remote.obits[j]
      /\ (remote.sent => remote.obits = <<>>) /\ (rec.strong = 0 => rec.list = {})
  BY Zenon DEF DeathInv, DeathTypes
<1>2. RefTypes /\ remote.obits \in Seq(Links) /\ rec.list \subseteq Links /\ rec.strong \in {0, 1}
  <2>1. RefTypes /\ remote \in Remote
    BY Zenon DEF RefInv, RefTypes
  <2> QED
    BY Zenon, <1>1, <2>1 DEF Remote
<1>3. CASE UNCHANGED <<rec, remote, tdr>>
  <2>1. ASSUME NEW k \in Links PROVE LinkSound(k)'
    <3>1. Same(k) /\ Kept /\ LinkSound(k)
      BY <1>1, <1>3, Zenon DEF Same, Kept, Known, Listed
    <3> QED
      BY <3>1, SoundSame, Zenon
  <2> QED
    BY <1>3, <2>1, Zenon DEF DeathInv, DeathTypes
<1>4. ASSUME NEW l \in rec.list, Unlinked(l, c, by) PROVE DeathInv'
  <2>1. /\ l \in Links /\ rec' = [rec EXCEPT !.list = @ \ {l}] /\ tdr[l].mCookie = c
        /\ tdr' = Released([tdr EXCEPT ![l].user = by], {l})
        /\ remote' = [remote EXCEPT !.obits = Without(remote.obits, l)]
    BY <1>2, <1>4, Zenon DEF Unlinked, Matches
  <2>2. Lacks(Without(remote.obits, l), remote.obits, l)
    BY Zenon, <1>1, <1>2, <2>1, WithoutFacts
  <2>3. remote'.sent = remote.sent /\ remote'.obits = Without(remote.obits, l)
    <3>1. Without(remote.obits, l) \in Seq(Links)
      BY <2>2, Zenon DEF Lacks
    <3> QED
      BY <1>2, <2>1, <3>1, ObitsChange, Zenon
  <2>4. /\ \A i, j \in DOMAIN remote'.obits : i # j => remote'.obits[i] # remote'.obits[j]
        /\ remote'.sent => remote'.obits = <<>>
        /\ \A k : k # l => (Listed(k)' <=> Listed(k))
    <3>1. PICK o, w : o = remote.obits /\ w = remote'.obits /\ Lacks(w, o, l)
      BY <2>2, <2>3, Zenon
    <3>2. \A i, j \in DOMAIN w : i # j => w[i] # w[j]
      BY <3>1, Zenon DEF Lacks
    <3>3. remote'.sent => w = <<>>
      BY <1>1, <2>3, <3>1, Zenon DEF Lacks
    <3>4. \A k : k # l => ((\E i \in DOMAIN w : w[i] = k) <=> \E i \in DOMAIN o : o[i] = k)
      BY <3>1, Zenon DEF Lacks
    <3>5. \A i, j \in DOMAIN remote'.obits : i # j => remote'.obits[i] # remote'.obits[j]
      BY <3>1, <3>2, Zenon
    <3>6. remote'.sent => remote'.obits = <<>>
      BY <3>1, <3>3, Zenon
    <3>7. \A k : k # l => (Listed(k)' <=> Listed(k))
      <4>1. \A k : (Listed(k) <=> \E i \in DOMAIN o : o[i] = k) /\ (Listed(k)' <=> \E i \in DOMAIN w : w[i] = k)
        BY <3>1, Zenon DEF Listed
      <4> QED
        BY <3>4, <4>1, Zenon
    <3> QED
      BY <3>5, <3>6, <3>7, Zenon
  <2>5. /\ rec' \in [strong : {0, 1}, list : SUBSET Links] /\ rec'.list = rec.list \ {l} /\ rec'.strong = rec.strong
    BY Zenon, <1>1, <2>1
  <2>6. /\ tdr[l] \in Link /\ tdr[l].sp = One(l \in rec.list) + One(Reporting(l)) /\ tdr[l].sp > 0 /\ tdr[l].sp \in Nat
        /\ tdr[l] # NoLink /\ tdr[l].unlinked = 0 /\ LinkSound(l)
    BY <1>1, <1>4, <2>1, LinkFacts, Zenon
  <2>7. PICK x, y : x \in Link /\ x = tdr[l] /\ y = [x EXCEPT !.user = by]
    BY <2>6, Zenon
  <2>8. /\ y \in Link /\ y.sp = x.sp /\ y.unlinked = x.unlinked /\ y.died = x.died /\ y.late = x.late /\ y.mCookie = x.mCookie
        /\ y.mWho = x.mWho /\ y.user = by
    BY Zenon, <2>7 DEF Link
  <2>9. PICK all : all = [tdr EXCEPT ![l] = y]
    BY Zenon
  <2>10. all \in [Links -> Link] /\ all[l] = y /\ (\A k \in Links : k # l => all[k] = tdr[k]) /\ tdr' = Released(all, {l})
    <3>1. all = [tdr EXCEPT ![l].user = by]
      BY <2>7, <2>9, Zenon
    <3> QED
      BY <1>1, <2>1, <2>8, <2>9, <3>1, Zenon
  <2>11. /\ tdr' \in [Links -> Link] /\ Looser(tdr'[l], y) /\ tdr'[l] \in Link
         /\ \A k \in Links : k # l => tdr'[k] = tdr[k]
    <3>1. \A k \in {l} : k \in Links => all[k].sp > 0
      BY <2>6, <2>7, <2>8, <2>10, Zenon
    <3>2. /\ Released(all, {l}) \in [Links -> Link]
          /\ \A k \in Links : k \notin {l} => Released(all, {l})[k] = all[k]
          /\ \A k \in Links : k \in {l} => Looser(Released(all, {l})[k], all[k])
      BY <2>10, <3>1, ReleasedFacts, Zenon
    <3> QED
      BY <2>1, <2>10, <3>2, Zenon
  <2>12. /\ tdr'[l] # NoLink /\ tdr'[l].unlinked = One(tdr'[l].sp = 0) /\ tdr'[l].sp = tdr[l].sp - 1
         /\ tdr'[l].died = tdr[l].died /\ tdr'[l].late = tdr[l].late /\ tdr'[l].mCookie = tdr[l].mCookie
         /\ tdr'[l].mWho = tdr[l].mWho /\ tdr'[l].user = by
    <3>1. y \in Link /\ tdr'[l] \in Link /\ Looser(tdr'[l], y) /\ y.sp > 0 /\ y.unlinked = 0
      BY <2>6, <2>7, <2>8, <2>11, Zenon
    <3>2. tdr'[l] # NoLink /\ tdr'[l].unlinked = One(tdr'[l].sp = 0) /\ tdr'[l].sp = y.sp - 1
      BY <3>1, LooserLink, Zenon
    <3> QED
      BY <2>7, <2>8, <3>1, <3>2, Zenon DEF Looser
  <2>13. Kept
    BY <2>11, <2>12, Zenon DEF Kept
  <2>14. ASSUME NEW k \in Links, k # l PROVE LinkSound(k)'
    <3>1. LinkSound(k) /\ tdr'[k] = tdr[k] /\ (Listed(k)' <=> Listed(k)) /\ (k \in rec'.list <=> k \in rec.list)
      BY <1>1, <2>4, <2>5, <2>11, <2>14, Zenon
    <3>2. Same(k)
      BY <2>5, <3>1, Zenon DEF Same, Known
    <3> QED
      BY <2>13, <3>1, <3>2, SoundSame, Zenon
  <2>15. LinkSound(l)'
    <3>1. (Reporting(l)' <=> Reporting(l)) /\ (Doomed(l)' <=> Doomed(l)) /\ l \notin rec'.list
      BY <2>1, <2>5, Zenon DEF Known
    <3>2. /\ One(Reporting(l)) \in Int /\ One(Reporting(l)') = One(Reporting(l)) /\ One(l \in rec'.list) = 0
          /\ One(l \in rec.list) = 1
      BY <1>4, <3>1, OneIsInt, Zenon DEF One
    <3>3. tdr'[l].sp = One(l \in rec'.list) + One(Reporting(l)')
      <4>1. \A r \in Int : (1 + r) - 1 = 0 + r
        OBVIOUS
      <4> QED
        BY <2>6, <2>12, <3>2, <4>1, Zenon
    <3>4. /\ ~tdr[l].late /\ (~tdr[l].mWho => tdr[l].died)
          /\ Reporting(l) /\ ~Doomed(l) => tdr[l].died
      BY <2>6, Zenon DEF LinkSound
    <3>5. tdr'[l].user = "linked" => Told(tdr[l].mCookie)'
      <4>1. Told(c) => Told(c)'
        BY <2>13, ToldStays, Zenon
      <4> QED
        BY <2>1, <2>12, <4>1, Zenon DEF Told
    <3> QED
      BY <2>12, <3>1, <3>3, <3>4, <3>5, Zenon DEF LinkSound
  <2>16. rec'.strong = 0 => rec'.list = {}
    BY <1>1, <2>5, Zenon
  <2> QED
    BY <2>4, <2>5, <2>11, <2>14, <2>15, <2>16, Zenon DEF DeathInv, DeathTypes
<1> QED
  BY <1>2, <1>3, <1>4, UnlinkCases, Zenon

LEMMA UnlinkDeadDeaths ==
  ASSUME RefInv, DeathInv, NEW t \in Threads, unlinkDead(t)
  PROVE  DeathInv'
<1>0. PICK l, c : l = On(t) /\ c = tdr[l].mCookie
  BY Zenon
<1>1. /\ agenda[t] # <<>> /\ Head(agenda[t]).do = "unlinkDead" /\ Dying(agenda[t]) /\ l \in Links
      /\ AgendaOf(t, Tail(agenda[t]))
      /\ unlinkToDeath(c, "linked") \/ UNCHANGED <<rec, remote, tdr>>
  BY <1>0, DeathAgenda, DeathSteps, Zenon DEF unlinkDead
<1>2. PICK R : Tells(agenda[t], R, {l}, {}) /\ Tells(Tail(agenda[t]), R, {l}, {}) /\ l \notin R
  BY <1>0, <1>1, DyingTells, Zenon DEF On
<1>3. remote'.sent = remote.sent /\ DeathThreads
  <2>1. CASE UNCHANGED <<rec, remote, tdr>>
    BY <2>1, Zenon DEF DeathInv
  <2>2. CASE unlinkToDeath(c, "linked")
    BY <2>2, UnlinkSent, Zenon DEF DeathInv
  <2> QED
    BY <1>1, <2>1, <2>2, Zenon
<1>4. Known(R, {l}, {}) /\ Known(R, {l}, {})' /\ DeathThreads'
  BY <1>1, <1>2, <1>3, DyingAgenda, Zenon
<1>5. Told(c)
  <2>1. Reporting(l) /\ ~Doomed(l) /\ LinkSound(l)
    BY <1>1, <1>4, Zenon DEF Known, DeathInv
  <2>2. tdr[l].died
    BY <2>1, Zenon DEF LinkSound
  <2> QED
    BY <1>0, <1>1, <2>2, Zenon DEF Told
<1>6. CASE unlinkToDeath(c, "linked")
  <2>1. "linked" \in {"linked", "unlinked"}
    BY Zenon
  <2> QED
    BY <1>4, <1>5, <1>6, <2>1, UnlinkDeaths, Zenon
<1>7. CASE UNCHANGED <<rec, remote, tdr>>
  <2>1. ASSUME NEW k \in Links PROVE LinkSound(k)'
    <3>1. Same(k) /\ Kept /\ LinkSound(k)
      BY <1>4, <1>7, Zenon DEF Same, Kept, Known, Listed, DeathInv
    <3> QED
      BY <3>1, SoundSame, Zenon
  <2> QED
    BY <1>4, <1>7, <2>1, Zenon DEF DeathInv, DeathTypes
<1> QED
  BY <1>1, <1>6, <1>7, Zenon

LEMMA UserUnlinkDeaths ==
  ASSUME RefInv, DeathInv, NEW t \in Threads, NEW c \in Cookies, AIBinder_unlinkToDeath(t, c)
  PROVE  DeathInv'
<1>1. AgendaOf(t, <<>>) /\ Lives(agenda[t]) /\ Lives(<<>>) /\ unlinkToDeath(c, "unlinked")
  <2>1. AgendaOf(t, <<>>) /\ agenda[t] = <<>> /\ unlinkToDeath(c, "unlinked")
    BY AgendaBy, Zenon DEF AIBinder_unlinkToDeath, Call, Idle, RefInv
  <2>2. Lives(<<>>)
    BY CallsLive, Zenon DEF Calling
  <2> QED
    BY <2>1, <2>2, Zenon
<1>2. PICK R, C, D : Known(R, C, D) /\ Known(R, C, D)'
  BY <1>1, LivingAgenda, Zenon
<1>3. DeathThreads'
  BY <1>1, LivingAgenda, UnlinkSent, Zenon DEF DeathInv
<1>4. "unlinked" \in {"linked", "unlinked"} /\ "unlinked" # "linked"
  BY Zenon
<1> QED
  BY <1>1, <1>2, <1>3, <1>4, UnlinkDeaths, Zenon

LEMMA DeleteDeaths ==
  ASSUME RefInv, DeathInv, AIBinder_DeathRecipient_delete
  PROVE  DeathInv'
<1>1. /\ rec' = [strong |-> 0, list |-> {}] /\ tdr' = Released(tdr, rec.list) /\ UNCHANGED <<remote, agenda>>
  BY Zenon DEF AIBinder_DeathRecipient_delete, refs
<1>2. rec' \in [strong : {0, 1}, list : SUBSET Links] /\ rec'.list = {} /\ ~(rec'.strong > 0)
  BY <1>1
<1>3. tdr \in [Links -> Link] /\ (\A k \in Links : LinkSound(k)) /\ rec.list \subseteq Links
  BY Zenon DEF DeathInv, DeathTypes
<1>4. \A k \in rec.list : k \in Links => tdr[k].sp > 0
  BY LinkFacts, Zenon
<1>5. /\ tdr' \in [Links -> Link]
      /\ \A k \in Links : k \notin rec.list => tdr'[k] = tdr[k]
      /\ \A k \in Links : k \in rec.list => Looser(tdr'[k], tdr[k])
  BY <1>1, <1>3, <1>4, ReleasedFacts, Zenon
<1>6. \A k \in Links : /\ Listed(k)' <=> Listed(k)
                       /\ Reported(k)' <=> Reported(k)
                       /\ Reporting(k)' <=> Reporting(k)
                       /\ Doomed(k)' <=> Doomed(k)
  BY <1>1, Zenon DEF Listed, Reported, Reporting, Doomed
<1>7. DeathThreads'
  BY <1>1, Zenon DEF DeathThreads, DeathInv
<1>8. Kept
  BY <1>5, Zenon DEF Kept, Looser
<1>9. ASSUME NEW k \in Links, k \notin rec.list PROVE LinkSound(k)'
  <2>1. Same(k) /\ LinkSound(k)
    BY <1>2, <1>3, <1>5, <1>6, <1>9, Zenon DEF Same
  <2> QED
    BY <1>8, <2>1, SoundSame, Zenon
<1>10. ASSUME NEW k \in rec.list PROVE LinkSound(k)'
  <2>1. k \in Links
    BY <1>3, Zenon
  <2>2. /\ tdr[k] \in Link /\ tdr[k].sp = One(k \in rec.list) + One(Reporting(k)) /\ tdr[k].sp > 0 /\ tdr[k].sp \in Nat
        /\ tdr[k] # NoLink /\ tdr[k].unlinked = 0 /\ LinkSound(k)
    BY <1>3, <2>1, LinkFacts, Zenon
  <2>3. tdr'[k] \in Link /\ Looser(tdr'[k], tdr[k])
    BY <1>5, <2>1, Zenon
  <2>4. tdr'[k] # NoLink /\ tdr'[k].unlinked = One(tdr'[k].sp = 0) /\ tdr'[k].sp = tdr[k].sp - 1
    BY <2>2, <2>3, LooserLink, Zenon
  <2>5. /\ One(Reporting(k)) \in Int /\ One(Reporting(k)') = One(Reporting(k)) /\ One(k \in rec'.list) = 0
        /\ One(k \in rec.list) = 1
    BY <1>2, <1>6, <2>1, OneIsInt, Zenon DEF One
  <2>6. tdr'[k].sp = One(k \in rec'.list) + One(Reporting(k)')
    BY <2>2, <2>4, <2>5
  <2>7. /\ ~tdr[k].late /\ (~tdr[k].mWho => tdr[k].died)
        /\ Reporting(k) /\ ~Doomed(k) => tdr[k].died
    BY <2>2, Zenon DEF LinkSound
  <2>8. ~tdr'[k].late /\ (~tdr'[k].mWho => tdr'[k].died) /\ (Reporting(k)' /\ ~Doomed(k)' => tdr'[k].died)
    BY <1>6, <2>1, <2>3, <2>7, Zenon DEF Looser
  <2> QED
    BY <1>2, <2>4, <2>6, <2>8, Zenon DEF LinkSound
<1> QED
  BY <1>1, <1>2, <1>5, <1>7, <1>9, <1>10, Zenon DEF DeathInv, DeathTypes

\* A link as linkToDeath makes it.
New(c, user) == [[NoLink EXCEPT !.sp = 1, !.mCookie = c, !.mWho = TRUE] EXCEPT !.user = user]

LEMMA NewLink ==
  ASSUME NEW c \in Cookies, NEW user \in {"refused", "linked"}
  PROVE  /\ New(c, user) \in Link /\ New(c, user).sp = 1 /\ New(c, user).unlinked = 0 /\ New(c, user).mWho
         /\ ~New(c, user).died /\ ~New(c, user).late /\ New(c, user).user = user
BY Zenon DEF New, NoLink, Link

LEMMA NoLinkFacts ==
  ASSUME DeathInv, NEW l \in Links, tdr[l] = NoLink
  PROVE  l \notin rec.list /\ ~Reporting(l) /\ ~Listed(l) /\ ~Reported(l) /\ ~tdr[l].died
<1>1. l \notin rec.list /\ ~Reporting(l)
  BY LinkFacts, Zenon
<1>2. ~Listed(l) /\ ~Reported(l)
  BY Zenon DEF DeathInv, LinkSound
<1>3. ~NoLink.died
  BY Zenon DEF NoLink
<1> QED
  BY <1>1, <1>2, <1>3, Zenon

LEMMA LinkDeaths ==
  ASSUME RefInv, DeathInv, NEW t \in Threads, NEW c \in Cookies, linkToDeath(t, c)
  PROVE  DeathInv'
<1>1. PICK l \in Links :
        /\ tdr[l] = NoLink
        /\ IF remote.sent
           THEN /\ tdr' = Released([tdr EXCEPT ![l] = New(c, "refused")], {l})
                /\ UNCHANGED <<remote, rec>>
           ELSE /\ tdr' = Released([tdr EXCEPT ![l] = New(c, "linked")], rec.list \ Pruned(rec.list))
                /\ rec' = [rec EXCEPT !.list = Pruned(@) \cup {l}]
                /\ remote' = [remote EXCEPT !.obits = Append(@, l)]
  <2>1. PICK l \in FirstFree(Links, LAMBDA k : tdr[k] = NoLink) :
          IF remote.sent
          THEN /\ tdr' = Released([tdr EXCEPT ![l] = New(c, "refused")], {l})
               /\ UNCHANGED <<remote, rec>>
          ELSE /\ tdr' = Released([tdr EXCEPT ![l] = New(c, "linked")], rec.list \ Pruned(rec.list))
               /\ rec' = [rec EXCEPT !.list = Pruned(@) \cup {l}]
               /\ remote' = [remote EXCEPT !.obits = Append(@, l)]
    BY Zenon DEF linkToDeath, New
  <2>2. l \in Links /\ tdr[l] = NoLink
    BY Zenon, <2>1 DEF FirstFree
  <2> QED
    BY <2>1, <2>2, Zenon
<1>2. AgendaOf(t, <<>>) /\ Lives(agenda[t]) /\ Lives(<<>>)
  <2>1. AgendaOf(t, <<>>) /\ agenda[t] = <<>>
    BY AgendaBy, Zenon DEF linkToDeath, Call, Idle, RefInv
  <2>2. Lives(<<>>)
    BY CallsLive, Zenon DEF Calling
  <2> QED
    BY <2>1, <2>2, Zenon
<1>3. PICK R, C, D : Known(R, C, D) /\ Known(R, C, D)'
  BY <1>2, LivingAgenda, Zenon
<1>4. /\ tdr \in [Links -> Link] /\ rec \in [strong : {0, 1}, list : SUBSET Links] /\ rec.list \subseteq Links
      /\ \A k \in Links : LinkSound(k)
      /\ \A i, j \in DOMAIN remote.obits : i # j => remote.obits[i] # remote.obits[j]
      /\ (remote.sent => remote.obits = <<>>) /\ (rec.strong = 0 => rec.list = {}) /\ DeathThreads
  <2>1. rec \in [strong : {0, 1}, list : SUBSET Links]
    BY Zenon DEF DeathInv, DeathTypes
  <2>2. rec.list \subseteq Links
    BY Zenon, <2>1
  <2> QED
    BY <2>1, <2>2, Zenon DEF DeathInv, DeathTypes
<1>5. l \notin rec.list /\ ~Reporting(l) /\ ~Listed(l) /\ ~Reported(l) /\ ~tdr[l].died
  BY <1>1, NoLinkFacts, Zenon
<1>6. ~Reporting(l)' /\ ~Reported(l)' /\ One(Reporting(l)') = 0
  BY <1>3, <1>5, Zenon DEF Known, One
<1>7. CASE remote.sent
  <2>1. PICK n : n = New(c, "refused")
    BY Zenon
  <2>2. n \in Link /\ n.sp = 1 /\ n.unlinked = 0 /\ n.mWho /\ ~n.died /\ ~n.late /\ n.user = "refused"
    <3>1. "refused" \in {"refused", "linked"}
      BY Zenon
    <3> QED
      BY <2>1, <3>1, NewLink, Zenon
  <2>3. PICK all : all = [tdr EXCEPT ![l] = n]
    BY Zenon
  <2>4. /\ all \in [Links -> Link] /\ all[l] = n /\ (\A k \in Links : k # l => all[k] = tdr[k]) /\ tdr' = Released(all, {l})
        /\ UNCHANGED <<remote, rec>>
    BY <1>1, <1>4, <1>7, <2>1, <2>2, <2>3, Zenon
  <2>5. n.sp > 0
    BY <2>2
  <2>6. /\ tdr' \in [Links -> Link] /\ Looser(tdr'[l], n) /\ tdr'[l] \in Link
        /\ \A k \in Links : k # l => tdr'[k] = tdr[k]
    <3>1. \A k \in {l} : k \in Links => all[k].sp > 0
      BY <2>4, <2>5, Zenon
    <3>2. /\ Released(all, {l}) \in [Links -> Link]
          /\ \A k \in Links : k \notin {l} => Released(all, {l})[k] = all[k]
          /\ \A k \in Links : k \in {l} => Looser(Released(all, {l})[k], all[k])
      BY <2>4, <3>1, ReleasedFacts, Zenon
    <3> QED
      BY <2>4, <3>2, Zenon
  <2>7. tdr'[l] # NoLink /\ tdr'[l].unlinked = One(tdr'[l].sp = 0) /\ tdr'[l].sp = n.sp - 1
    BY <2>2, <2>5, <2>6, LooserLink, Zenon
  <2>8. Kept
    BY <1>5, <2>6, Zenon DEF Kept
  <2>9. ASSUME NEW k \in Links, k # l PROVE LinkSound(k)'
    <3>1. LinkSound(k) /\ tdr'[k] = tdr[k] /\ (Listed(k)' <=> Listed(k))
      BY <1>4, <2>4, <2>6, <2>9, Zenon DEF Listed
    <3>2. Same(k)
      BY <1>3, <2>4, <3>1, Zenon DEF Same, Known
    <3> QED
      BY <2>8, <3>1, <3>2, SoundSame, Zenon
  <2>10. LinkSound(l)'
    <3>1. One(l \in rec'.list) = 0
      BY <1>5, <2>4, Zenon DEF One
    <3>2. tdr'[l].sp = One(l \in rec'.list) + One(Reporting(l)')
      BY <1>6, <2>2, <2>7, <3>1
    <3>3. ~tdr'[l].late /\ tdr'[l].mWho /\ tdr'[l].user = "refused"
      BY <2>2, <2>6, Zenon DEF Looser
    <3>4. tdr'[l].user # "linked"
      BY Zenon, <3>3
    <3> QED
      BY <1>6, <2>7, <3>2, <3>3, <3>4, Zenon DEF LinkSound
  <2>11. DeathThreads'
    BY <1>2, <1>4, <2>4, LivingAgenda, Zenon
  <2> QED
    BY <2>4, <2>6, <2>9, <2>10, <2>11, Zenon DEF DeathInv, DeathTypes
<1>8. CASE ~remote.sent
  <2> DEFINE S == rec.list \ Pruned(rec.list)
  <2>1. PICK n : n = New(c, "linked")
    BY Zenon
  <2>2. n \in Link /\ n.sp = 1 /\ n.unlinked = 0 /\ n.mWho /\ ~n.died /\ ~n.late /\ n.user = "linked"
    <3>1. "linked" \in {"refused", "linked"}
      BY Zenon
    <3> QED
      BY <2>1, <3>1, NewLink, Zenon
  <2>3. PICK all : all = [tdr EXCEPT ![l] = n]
    BY Zenon
  <2>4. /\ all \in [Links -> Link] /\ all[l] = n /\ (\A k \in Links : k # l => all[k] = tdr[k]) /\ tdr' = Released(all, S)
        /\ rec' = [rec EXCEPT !.list = Pruned(@) \cup {l}]
        /\ remote' = [remote EXCEPT !.obits = Append(@, l)]
    BY <1>1, <1>4, <1>8, <2>1, <2>2, <2>3, Zenon
  <2>5. /\ S \subseteq rec.list /\ l \notin S
        /\ \A k \in S : k \in Links /\ k # l /\ tdr[k].sp > 0 /\ tdr[k] # NoLink /\ tdr[k].unlinked = 0 /\ ~tdr[k].mWho
    <3>1. S \subseteq rec.list /\ \A k \in S : ~tdr[k].mWho
      BY Zenon DEF Pruned
    <3> QED
      BY <1>4, <1>5, <3>1, LinkFacts, Zenon
  <2>6. /\ tdr' \in [Links -> Link] /\ tdr'[l] = n
        /\ \A k \in Links : k # l /\ k \notin S => tdr'[k] = tdr[k]
        /\ \A k \in S : Looser(tdr'[k], tdr[k])
    <3>1. \A k \in S : k \in Links => all[k].sp > 0
      BY <2>4, <2>5, Zenon
    <3> HIDE DEF S
    <3>2. /\ Released(all, S) \in [Links -> Link]
          /\ \A k \in Links : k \notin S => Released(all, S)[k] = all[k]
          /\ \A k \in Links : k \in S => Looser(Released(all, S)[k], all[k])
      BY <2>4, <3>1, ReleasedFacts, Zenon
    <3> QED
      BY <2>4, <2>5, <3>2, Zenon
  <2>7. /\ rec' \in [strong : {0, 1}, list : SUBSET Links] /\ rec'.strong = rec.strong
        /\ l \in rec'.list /\ \A k : k # l => (k \in rec'.list <=> k \in rec.list /\ k \notin S)
    <3>1. Pruned(rec.list) \subseteq rec.list
      BY Zenon DEF Pruned
    <3>2. rec' \in [strong : {0, 1}, list : SUBSET Links] /\ rec'.strong = rec.strong /\ rec'.list = Pruned(rec.list) \cup {l}
      BY Zenon, <1>4, <2>4, <3>1
    <3> QED
      BY <3>1, <3>2, Zenon
  <2> HIDE DEF S
  <2>8. /\ remote'.sent = remote.sent
        /\ \A i, j \in DOMAIN remote'.obits : i # j => remote'.obits[i] # remote'.obits[j]
        /\ \A k : Listed(k)' <=> Listed(k) \/ k = l
    <3>1. remote \in Remote
      BY Zenon DEF RefInv, RefTypes
    <3>2. PICK o \in Seq(Links) : o = remote.obits
      BY Zenon, <3>1 DEF Remote
    <3>3. remote'.sent = remote.sent /\ remote'.obits = Append(o, l)
      BY Zenon, <2>4, <3>1, <3>2 DEF Remote
    <3>4. \A i \in DOMAIN o : o[i] # l
      BY <1>5, <3>2, Zenon DEF Listed
    <3>5. PICK w, n1 : w = Append(o, l) /\ n1 = Len(o) + 1
      BY Zenon
    <3>6. /\ \A i \in DOMAIN o : i \in DOMAIN w /\ w[i] = o[i]
          /\ \A i \in DOMAIN w : i \in DOMAIN o \/ i = n1
          /\ n1 \in DOMAIN w /\ w[n1] = l
      BY <3>5
    <3>7. ASSUME NEW i \in DOMAIN w, NEW j \in DOMAIN w, i # j PROVE w[i] # w[j]
      <4>1. \A x, y \in DOMAIN o : x # y => o[x] # o[y]
        BY <1>4, <3>2, Zenon
      <4> QED
        BY <3>4, <3>6, <3>7, <4>1, Zenon
    <3>8. \A k : (\E i \in DOMAIN w : w[i] = k) <=> (\E i \in DOMAIN o : o[i] = k) \/ k = l
      BY <3>6, Zenon
    <3>9. remote'.obits = w /\ remote.obits = o
      BY <3>2, <3>3, <3>5, Zenon
    <3>10. \A k : Listed(k)' <=> Listed(k) \/ k = l
      BY <3>8, <3>9, Zenon DEF Listed
    <3> QED
      BY <3>3, <3>7, <3>9, <3>10, Zenon
  <2>9. Kept
    BY <1>5, <2>5, <2>6, Zenon DEF Kept, Looser
  <2>10. ASSUME NEW k \in Links, k # l, k \notin S PROVE LinkSound(k)'
    <3>1. LinkSound(k) /\ tdr'[k] = tdr[k] /\ (Listed(k)' <=> Listed(k)) /\ (k \in rec'.list <=> k \in rec.list)
      BY <1>4, <2>6, <2>7, <2>8, <2>10, Zenon
    <3>2. Same(k)
      BY <1>3, <2>7, <3>1, Zenon DEF Same, Known
    <3> QED
      BY <2>9, <3>1, <3>2, SoundSame, Zenon
  <2>11. ASSUME NEW k \in S PROVE LinkSound(k)'
    <3>1. k \in Links /\ k # l /\ k \in rec.list /\ tdr[k].sp > 0 /\ tdr[k] # NoLink /\ tdr[k].unlinked = 0 /\ ~tdr[k].mWho
      BY <2>5, Zenon
    <3>2. /\ tdr[k] \in Link /\ tdr[k].sp = One(k \in rec.list) + One(Reporting(k)) /\ tdr[k].sp \in Nat
          /\ LinkSound(k) /\ tdr'[k] \in Link /\ Looser(tdr'[k], tdr[k])
      BY <1>4, <2>6, <3>1, LinkFacts, Zenon
    <3>3. tdr[k].died /\ ~tdr[k].late
      BY <3>1, <3>2, Zenon DEF LinkSound
    <3>4. tdr'[k] # NoLink /\ tdr'[k].unlinked = One(tdr'[k].sp = 0) /\ tdr'[k].sp = tdr[k].sp - 1
      BY <3>1, <3>2, LooserLink, Zenon
    <3>5. /\ One(Reporting(k)) \in Int /\ One(Reporting(k)') = One(Reporting(k)) /\ One(k \in rec'.list) = 0
          /\ One(k \in rec.list) = 1
      BY <1>3, <2>7, <3>1, OneIsInt, Zenon DEF One, Known
    <3>6. tdr'[k].sp = One(k \in rec'.list) + One(Reporting(k)')
      <4>1. \A r \in Int : (1 + r) - 1 = 0 + r
        OBVIOUS
      <4> QED
        BY <3>2, <3>4, <3>5, <4>1, Zenon
    <3>7. tdr'[k].died /\ ~tdr'[k].late /\ \E x \in Links : tdr'[x].mCookie = tdr'[k].mCookie /\ tdr'[x].died
      BY <3>1, <3>2, <3>3, Zenon DEF Looser
    <3> QED
      BY <3>4, <3>6, <3>7, Zenon DEF LinkSound, Told
  <2>12. LinkSound(l)'
    <3>1. One(l \in rec'.list) = 1
      BY <2>7, Zenon DEF One
    <3>2. tdr'[l].sp = One(l \in rec'.list) + One(Reporting(l)')
      BY <1>6, <2>2, <2>6, <3>1
    <3>3. tdr'[l] # NoLink /\ One(tdr'[l].sp = 0) = 0
      BY <2>2, <2>6 DEF NoLink, One
    <3>4. Listed(l)'
      BY <2>8, Zenon
    <3> QED
      BY <1>6, <2>2, <2>6, <2>7, <3>2, <3>3, <3>4, Zenon DEF LinkSound
  <2>13. DeathThreads'
    BY <1>2, <1>4, <2>8, LivingAgenda, Zenon
  <2>14. rec'.strong = 0 => rec'.list = {}
    <3>1. rec.strong > 0
      BY Zenon DEF linkToDeath
    <3> QED
      BY <2>7, <3>1
  <2> QED
    BY <1>8, <2>6, <2>7, <2>8, <2>10, <2>11, <2>12, <2>13, <2>14, Zenon DEF DeathInv, DeathTypes
<1> QED
  BY <1>7, <1>8, Zenon

LEMMA SendDeaths ==
  ASSUME RefInv, DeathInv, NEW t \in Threads, sendObituary(t)
  PROVE  DeathInv'
<1> DEFINE a == [i \in DOMAIN remote.obits |-> Do("reportOneDeath", remote.obits[i])]
<1>1. /\ agenda' = [agenda EXCEPT ![t] = a] /\ remote' = [remote EXCEPT !.sent = TRUE, !.obits = <<>>]
      /\ UNCHANGED <<rec, tdr>> /\ ~remote.sent /\ agenda[t] = <<>> /\ RefTypes
  BY Zenon DEF sendObituary, deaths, Idle, RefInv
<1>2. remote.obits \in Seq(Links) /\ <<>> \in Seq(Links)
  BY <1>1 DEF RefTypes, Remote
<1>3. Dying(a) /\ Tells(a, {k \in Links : \E i \in DOMAIN remote.obits : remote.obits[i] = k}, {}, {})
  BY <1>2, DyingStarts, Zenon DEF DeathInv
<1> HIDE DEF a
<1>4. PICK b, R : b = a /\ R = {k \in Links : \E i \in DOMAIN remote.obits : remote.obits[i] = k}
  BY Zenon
<1>5. Tells(b, R, {}, {}) /\ AgendaOf(t, b) /\ \A k \in Links : Listed(k) <=> k \in R
  BY <1>1, <1>3, <1>4, AgendaBy, Zenon DEF Listed
<1>6. agenda'[t] = b /\ \A u \in Threads : u # t => agenda'[u] = agenda[u]
  BY <1>5, Zenon DEF AgendaOf
<1>7. \A u \in Threads : ~Has(agenda[u], Deaths)
  BY <1>1, Zenon DEF DeathInv, DeathThreads
<1>8. remote'.sent = TRUE /\ remote'.obits = <<>>
  BY <1>1, <1>2, ObitsChange, Zenon
<1>9. DeathThreads'
  BY <1>6, <1>7, <1>8, Zenon DEF DeathThreads
<1>10. \A k \in Links : ~Reported(k) /\ ~Reporting(k) /\ ~Doomed(k)
  BY <1>7, HasDeaths, Zenon DEF Reported, Reporting, Doomed
<1>11. \A k \in Links : (Reported(k)' <=> k \in R) /\ ~Reporting(k)' /\ ~Doomed(k)'
  <2>1. /\ \A u \in Threads : \A k : HasOn(agenda'[u], "reportOneDeath", k) <=> (u = t /\ k \in R)
        /\ \A u \in Threads : \A k : ~HasOn(agenda'[u], "clearWho", k) /\ ~HasOn(agenda'[u], "onDied", k)
    BY <1>5, <1>6, <1>7, HasDeaths, Zenon DEF Tells
  <2> QED
    BY <2>1, Zenon DEF Reported, Reporting, Doomed
<1>12. \A k : ~Listed(k)'
  <2>1. DOMAIN remote'.obits = {}
    BY <1>8
  <2> QED
    BY <2>1, Zenon DEF Listed
<1>13. ASSUME NEW k \in Links PROVE LinkSound(k)'
  <2>1. LinkSound(k)
    BY Zenon DEF DeathInv
  <2>2. One(Reporting(k)') = One(Reporting(k))
    BY <1>10, <1>11, Zenon DEF One
  <2>3. Told(tdr[k].mCookie)' <=> Told(tdr[k].mCookie)
    BY <1>1, Zenon DEF Told
  <2>4. tdr' = tdr /\ rec' = rec
    BY <1>1, Zenon
  <2> QED
    BY <1>5, <1>10, <1>11, <1>12, <2>1, <2>2, <2>3, <2>4, Zenon DEF LinkSound
<1>14. \A i, j \in DOMAIN remote'.obits : i # j => remote'.obits[i] # remote'.obits[j]
  BY <1>8
<1> QED
  BY <1>1, <1>8, <1>9, <1>13, <1>14, Zenon DEF DeathInv, DeathTypes

-----------------------------------------------------------------------------
(* The invariant is inductive                                              *)

Inv == RefInv /\ DeathInv

\* A step that is not about deaths, its agendas and what it leaves alone.
Living(t) ==
    \/ findObject(t) \/ attachObject(t) \/ promoteOrMake(t) \/ decRemote(t) \/ onLastStrongRef(t) \/ decWeak(t)
    \/ getInterfaceDescriptor(t) \/ setClass(t) \/ lookupOrCreateFromBinder(t) \/ AIBinder_decStrong(t)
    \/ AIBinder_Weak_new(t) \/ AIBinder_Weak_promote(t) \/ AIBinder_Weak_delete(t)
    \/ \E c \in Class : AIBinder_associateClass(t, c)

LEMMA CallsGoOn ==
  ASSUME RefInv, NEW t \in Threads, NEW what, NEW steps, Step(t, what, steps), what \notin Deaths
  PROVE  Calling(agenda[t])
<1>1. agenda[t] # <<>> /\ Head(agenda[t]).do = what /\ Shaped(agenda[t])
  BY StepAgenda, Zenon
<1>2. ~Dying(agenda[t])
  BY <1>1, DyingHeads, Zenon
<1> QED
  BY <1>1, <1>2, Zenon DEF Shaped

LEMMA LivingAgendas ==
  ASSUME RefInv, NEW t \in Threads, Living(t)
  PROVE  Calling(agenda[t]) /\ \E a : AgendaOf(t, a) /\ Calling(a)
<1> DEFINE Goal == Calling(agenda[t]) /\ \E a : AgendaOf(t, a) /\ Calling(a)
<1>1. RefTypes /\ Calling(<<>>) /\ Calling(Finding) /\ Calling(Attaching) /\ Calling(Locking) /\ Calling(Returning)
  BY Zenon DEF RefInv, Calling
<1>2. ASSUME NEW what, what \notin Deaths, NEW steps, Step(t, what, steps), Calling(steps \o Tail(agenda[t])) PROVE Goal
  BY <1>2, CallsGoOn, StepAgenda, Zenon
<1>3. \A what, steps : Step(t, what, steps) => agenda[t] # <<>> /\ Head(agenda[t]).do = what /\ Shaped(agenda[t])
  BY StepAgenda, Zenon
<1>4. ASSUME NEW op, NEW steps, Call(t, op, steps), Calling(steps) PROVE Goal
  BY <1>1, <1>4, AgendaBy, Zenon DEF Call, Idle
<1>5. "findObject" \notin Deaths /\ "attachObject" \notin Deaths /\ "withLock" \notin Deaths /\ "decRemote" \notin Deaths
      /\ "onLastStrongRef" \notin Deaths /\ "decWeak" \notin Deaths /\ "descriptor" \notin Deaths /\ "setClass" \notin Deaths
  BY Zenon DEF Deaths
<1> SUFFICES Goal
  BY Zenon
<1> HIDE DEF Goal
<1>6. CASE findObject(t)
  <2>1. PICK steps : (steps = Attaching \/ steps = Locking) /\ Step(t, "findObject", steps)
    BY <1>6, Zenon DEF findObject, Attaching, Locking
  <2>2. Attaching \o Tail(agenda[t]) = Attaching /\ Locking \o Tail(agenda[t]) = Locking
    BY <1>3, <2>1, CallAgendas, Zenon
  <2>3. Calling(steps \o Tail(agenda[t]))
    BY <1>1, <2>1, <2>2, Zenon
  <2> QED
    BY <1>2, <1>5, <2>1, <2>3, Zenon
<1>7. CASE attachObject(t)
  <2>1. Step(t, "attachObject", <<>>)
    BY <1>7, Zenon DEF attachObject
  <2>2. Calling(<<>> \o Tail(agenda[t]))
    BY <1>1, <1>3, <2>1, CallAgendas, Zenon
  <2> QED
    BY <1>2, <1>5, <2>1, <2>2, Zenon
<1>8. CASE promoteOrMake(t)
  <2>1. Step(t, "withLock", Returning)
    BY <1>8, Zenon DEF promoteOrMake, Returning
  <2>2. Calling(Returning \o Tail(agenda[t]))
    BY <1>1, <1>3, <2>1, CallAgendas, Zenon
  <2> QED
    BY <1>2, <1>5, <2>1, <2>2, Zenon
<1>9. CASE decRemote(t)
  <2>1. Step(t, "decRemote", <<>>)
    BY <1>9, Zenon DEF decRemote
  <2>2. <<>> \o Tail(agenda[t]) = <<>> \/ \E p \in Proxies : <<>> \o Tail(agenda[t]) = Weakening(p)
    BY <1>3, <2>1, CallAgendas, Zenon
  <2>3. Calling(<<>> \o Tail(agenda[t]))
    BY <2>2, Zenon DEF Calling
  <2> QED
    BY <1>2, <1>5, <2>1, <2>3, Zenon
<1>10. CASE onLastStrongRef(t)
  <2>1. Step(t, "onLastStrongRef", <<>>)
    BY <1>10, Zenon DEF onLastStrongRef
  <2>2. \E p \in Proxies : <<>> \o Tail(agenda[t]) = Leaving(p)
    BY <1>3, <2>1, CallAgendas, Zenon
  <2>3. Calling(<<>> \o Tail(agenda[t]))
    BY <2>2, Zenon DEF Calling
  <2> QED
    BY <1>2, <1>5, <2>1, <2>3, Zenon
<1>11. CASE decWeak(t)
  <2>1. Step(t, "decWeak", <<>>)
    BY <1>11, Zenon DEF decWeak
  <2>2. <<>> \o Tail(agenda[t]) = <<>>
    BY <1>3, <2>1, CallAgendas, Zenon
  <2>3. Calling(<<>> \o Tail(agenda[t]))
    BY <2>2, Zenon DEF Calling
  <2> QED
    BY <1>2, <1>5, <2>1, <2>3, Zenon
<1>12. CASE getInterfaceDescriptor(t)
  <2>1. PICK steps \in {<<>>, Setting(On(t))} : Step(t, "descriptor", steps)
    BY <1>12, Zenon DEF getInterfaceDescriptor, Setting
  <2>2. PICK c \in Class : On(t) = c /\ <<>> \o Tail(agenda[t]) = <<>> /\ Setting(c) \o Tail(agenda[t]) = Setting(c)
    BY <1>3, <2>1, CallAgendas, Zenon DEF On
  <2>3. Calling(steps \o Tail(agenda[t]))
    BY <2>1, <2>2, Zenon DEF Calling
  <2> QED
    BY <1>2, <1>5, <2>1, <2>3, Zenon
<1>13. CASE setClass(t)
  <2>1. Step(t, "setClass", <<>>)
    BY <1>13, Zenon DEF setClass
  <2>2. <<>> \o Tail(agenda[t]) = <<>>
    BY <1>3, <2>1, CallAgendas, Zenon
  <2>3. Calling(<<>> \o Tail(agenda[t]))
    BY <2>2, Zenon DEF Calling
  <2> QED
    BY <1>2, <1>5, <2>1, <2>3, Zenon
<1>14. CASE lookupOrCreateFromBinder(t)
  BY <1>1, <1>4, <1>14, Zenon DEF lookupOrCreateFromBinder, Finding
<1>15. CASE AIBinder_decStrong(t)
  <2>1. agenda[t] = <<>> /\ held[t] \in Proxies
    BY <1>1, <1>15, Zenon DEF AIBinder_decStrong, Idle, RefTypes
  <2>2. AgendaOf(t, IF abp[held[t]].strong = 1 THEN Ending(held[t]) ELSE Weakening(held[t]))
    BY <1>15, DecStrongAgenda, Zenon
  <2>3. AgendaOf(t, Ending(held[t])) \/ AgendaOf(t, Weakening(held[t]))
    BY <2>2, Zenon
  <2>4. Calling(Ending(held[t])) /\ Calling(Weakening(held[t]))
    BY <2>1, Zenon DEF Calling
  <2> QED
    BY <1>1, <2>1, <2>3, <2>4, Zenon DEF Goal
<1>16. CASE AIBinder_Weak_new(t) \/ AIBinder_Weak_promote(t)
  BY <1>1, <1>4, <1>16, Zenon DEF AIBinder_Weak_new, AIBinder_Weak_promote
<1>17. CASE AIBinder_Weak_delete(t)
  BY <1>1, <1>17, AgendaBy, Zenon DEF AIBinder_Weak_delete, Idle, Goal
<1>18. ASSUME NEW c \in Class, AIBinder_associateClass(t, c) PROVE Goal
  <2>1. PICK steps \in {<<>>, Asking(c)} : Call(t, "class", steps)
    BY <1>18, Zenon DEF AIBinder_associateClass, Asking
  <2>2. Calling(steps)
    BY <2>1, Zenon DEF Calling
  <2> QED
    BY <1>4, <2>1, <2>2, Zenon
<1> QED
  BY <1>6, <1>7, <1>8, <1>9, <1>10, <1>11, <1>12, <1>13, <1>14, <1>15, <1>16, <1>17, <1>18, Zenon DEF Living

LEMMA LivingInv ==
  ASSUME Sizes(Threads), Sizes(Proxies), Inv, NEW t \in Threads, Living(t)
  PROVE  Inv'
<1>1. RefInv /\ DeathInv /\ remote \in Remote
  BY Zenon DEF Inv, RefInv, RefTypes
<1>2. RefInv'
  BY <1>1, FindRefs, AttachRefs, PromoteOrMakeRefs, DecRemoteRefs, OnLastRefs, DecWeakRefs, DescriptorRefs, SetClassRefs,
     LookupRefs, DecStrongRefs, WeakNewRefs, WeakPromoteRefs, WeakDeleteRefs, AssociateRefs, Zenon DEF Living
<1>3. UNCHANGED <<rec, tdr>>
  BY Zenon DEF Living, findObject, attachObject, promoteOrMake, decRemote, onLastStrongRef, decWeak, getInterfaceDescriptor,
     setClass, lookupOrCreateFromBinder, AIBinder_decStrong, AIBinder_Weak_new, AIBinder_Weak_promote, AIBinder_Weak_delete,
     AIBinder_associateClass, deaths
<1>4. remote'.sent = remote.sent /\ remote'.obits = remote.obits
  <2>1. remote' = remote \/ \E n : remote' = [remote EXCEPT !.strong = n]
    BY Zenon DEF Living, findObject, attachObject, promoteOrMake, decRemote, onLastStrongRef, decWeak, getInterfaceDescriptor,
       setClass, lookupOrCreateFromBinder, AIBinder_decStrong, AIBinder_Weak_new, AIBinder_Weak_promote, AIBinder_Weak_delete,
       AIBinder_associateClass, refs
  <2> QED
    BY Zenon, <1>1, <2>1 DEF Remote
<1>5. PICK a : AgendaOf(t, a) /\ Lives(a) /\ Lives(agenda[t])
  BY <1>1, LivingAgendas, CallsLive, Zenon
<1>6. DeathInv'
  BY <1>1, <1>2, <1>3, <1>4, <1>5, LivingStep, Zenon
<1> QED
  BY <1>2, <1>6, Zenon DEF Inv

\* A step that moves no thread and no link.
LEMMA StillDeaths ==
  ASSUME DeathInv, UNCHANGED <<rec, tdr, agenda>>, remote'.sent = remote.sent, remote'.obits = remote.obits
  PROVE  DeathInv'
<1>1. \A k \in Links : /\ Listed(k)' <=> Listed(k)
                       /\ Reported(k)' <=> Reported(k)
                       /\ Reporting(k)' <=> Reporting(k)
                       /\ Doomed(k)' <=> Doomed(k)
  BY Zenon DEF Listed, Reported, Reporting, Doomed
<1>2. DeathThreads'
  BY Zenon DEF DeathThreads, DeathInv
<1>3. ASSUME NEW k \in Links PROVE LinkSound(k)'
  <2>1. Same(k) /\ Kept /\ LinkSound(k)
    BY <1>1, Zenon DEF Same, Kept, DeathInv
  <2> QED
    BY <2>1, SoundSame, Zenon
<1> QED
  BY <1>2, <1>3, Zenon DEF DeathInv, DeathTypes

LEMMA InvNext ==
  ASSUME Sizes(Threads), Sizes(Proxies), Inv, [Next]_vars
  PROVE  Inv'
<1>1. RefInv /\ DeathInv /\ remote \in Remote
  BY Zenon DEF Inv, RefInv, RefTypes
<1>2. ASSUME NEW t \in Threads, Living(t) PROVE Inv'
  BY <1>2, LivingInv, Zenon
<1>3. ASSUME NEW t \in Threads, NEW c \in Cookies, linkToDeath(t, c) \/ AIBinder_unlinkToDeath(t, c) PROVE Inv'
  <2>1. RefInv'
    BY <1>1, <1>3, LinkRefs, Zenon
  <2>2. DeathInv'
    BY <1>1, <1>3, LinkDeaths, UserUnlinkDeaths, Zenon
  <2> QED
    BY <2>1, <2>2, Zenon DEF Inv
<1>4. ASSUME NEW t \in Threads, reportOneDeath(t) \/ onDied(t) \/ unlinkDead(t) \/ clearWho(t) \/ sendObituary(t) PROVE Inv'
  <2>1. RefInv'
    BY <1>1, <1>4, DyingRefs, Zenon
  <2>2. DeathInv'
    BY <1>1, <1>4, ReportDeaths, OnDiedDeaths, UnlinkDeadDeaths, ClearWhoDeaths, SendDeaths, Zenon
  <2> QED
    BY <2>1, <2>2, Zenon DEF Inv
<1>5. CASE Forget
  <2>1. UNCHANGED <<rec, tdr, agenda>> /\ remote' = [remote EXCEPT !.strong = @ - 1]
    BY <1>5, Zenon DEF Forget, deaths
  <2>2. remote'.sent = remote.sent /\ remote'.obits = remote.obits
    BY Zenon, <1>1, <2>1 DEF Remote
  <2> QED
    BY <1>1, <1>5, <2>1, <2>2, ForgetRefs, StillDeaths, Zenon DEF Inv
<1>6. CASE AIBinder_DeathRecipient_delete
  <2>1. UNCHANGED <<refs, agenda>>
    BY <1>6, Zenon DEF AIBinder_DeathRecipient_delete
  <2> QED
    BY <1>1, <1>6, <2>1, SameRefs, DeleteDeaths, Zenon DEF Inv
<1>7. CASE UNCHANGED vars
  <2>1. UNCHANGED <<refs, agenda>> /\ UNCHANGED <<rec, tdr, agenda>> /\ remote' = remote
    BY <1>7, Zenon DEF vars, refs, deaths
  <2> QED
    BY <1>1, <2>1, SameRefs, StillDeaths, Zenon DEF Inv
<1> QED
  BY <1>2, <1>3, <1>4, <1>5, <1>6, <1>7, Zenon DEF Next, Continue, Living, Class

LEMMA InvInit ==
  ASSUME Sizes(Threads), Sizes(Proxies), Init
  PROVE  Inv
<1>1. /\ remote = [strong |-> 1, obits |-> <<>>, sent |-> FALSE] /\ value = Absent /\ given = TRUE
      /\ abp = [p \in Proxies |-> NoProxy] /\ held = [t \in Threads |-> None] /\ weakly = [t \in Threads |-> None]
      /\ told = [t \in Threads |-> None] /\ agenda = [t \in Threads |-> <<>>]
      /\ rec = [strong |-> 1, list |-> {}] /\ tdr = [l \in Links |-> NoLink]
  BY Zenon DEF Init
<1>2. \A t \in Threads : agenda[t] = <<>> /\ held[t] = None /\ weakly[t] = None /\ told[t] = None
  BY <1>1, Zenon
<1>3. \A t \in Threads : (\A what : ~Has(agenda[t], what)) /\ \A what, x : ~HasOn(agenda[t], what, x)
  BY <1>2, SMT DEF Has, HasOn
<1>4. None \notin Proxies /\ Absent \notin Proxies /\ None \notin Class
  BY NamesApart, Zenon DEF Class
<1>5. remote \in Remote /\ remote.strong = 1 /\ remote.obits = <<>> /\ ~remote.sent
  BY <1>1 DEF Remote
<1>6. NoProxy \in Proxy /\ NoProxy.strong = 0 /\ NoProxy.weak = 0 /\ NoProxy.mClazz = None
  BY Zenon DEF NoProxy, Proxy
<1>7. \A p \in Proxies : abp[p] = NoProxy
  BY <1>1, Zenon
<1>8. RefTypes
  <2>1. abp \in [Proxies -> Proxy]
    BY <1>1, <1>6, Zenon
  <2>2. \A t \in Threads : Shaped(agenda[t])
    BY <1>2, Zenon DEF Shaped, Calling
  <2>3. held \in [Threads -> Proxies \cup {None}] /\ weakly \in [Threads -> Proxies \cup {None}] /\ told \in [Threads -> Class \cup {None}]
    BY Zenon, <1>1
  <2>4. DOMAIN agenda = Threads
    BY <1>1, Zenon
  <2> QED
    BY <1>1, <1>5, <2>1, <2>2, <2>3, <2>4, Zenon DEF RefTypes
<1>9. Cardinality({}) = 0
  BY Zenon DEF Sizes
<1>10. RemoteHeldOnce
  <2>1. \A what : Busy(what) = {}
    BY <1>3, Zenon DEF Busy, Has
  <2>2. {p \in Proxies : abp[p].strong > 0} = {}
    BY <1>6, <1>7
  <2>3. /\ Cardinality({p \in Proxies : abp[p].strong > 0}) = 0
        /\ Cardinality(Busy({"decRemote"})) = 0 /\ Cardinality(Busy({"findObject", "withLock"})) = 0
    BY <1>9, <2>1, <2>2, Zenon
  <2>4. (IF given THEN 1 ELSE 0) = 1
    BY <1>1, Zenon
  <2> QED
    BY <1>5, <2>3, <2>4 DEF RemoteHeldOnce
<1>11. ASSUME NEW p \in Proxies PROVE Counted(p)
  <2>1. Holders(p) = {} /\ Keepers(p) = {} /\ Weakeners(p) = {}
    BY <1>2, <1>3, <1>4, Zenon DEF Holders, Keepers, Weakeners
  <2>2. value # p
    BY <1>1, <1>4, Zenon
  <2> QED
    BY <1>6, <1>7, <1>9, <2>1, <2>2 DEF Counted, One
<1>12. ValueKept /\ \A t \in Threads : ThreadKeeps(t)
  BY <1>1, <1>2, <1>3, <1>4, Zenon DEF ValueKept, ThreadKeeps
<1>13. RefInv
  BY <1>6, <1>7, <1>8, <1>10, <1>11, <1>12, Zenon DEF RefInv
<1>14. NoLink \in Link /\ NoLink.sp = 0 /\ ~NoLink.late /\ NoLink.user = "never"
  BY Zenon DEF NoLink, Link
<1>15. DeathTypes /\ rec.list = {} /\ rec.strong = 1
  BY Zenon, <1>1, <1>14 DEF DeathTypes
<1>16. DeathThreads
  BY <1>3, Zenon DEF DeathThreads
<1>17. ASSUME NEW l \in Links PROVE LinkSound(l)
  <2>1. tdr[l] = NoLink /\ ~Reporting(l) /\ ~Reported(l) /\ ~Doomed(l)
    BY <1>1, <1>3, Zenon DEF Reporting, Reported, Doomed
  <2>2. ~Listed(l)
    BY <1>5 DEF Listed
  <2>3. One(l \in rec.list) + One(Reporting(l)) = 0
    BY <1>15, <2>1 DEF One
  <2>4. tdr[l].user # "linked"
    BY Zenon, <1>14, <2>1
  <2> QED
    BY <1>14, <2>1, <2>2, <2>3, <2>4, Zenon DEF LinkSound
<1>18. \A i, j \in DOMAIN remote.obits : i # j => remote.obits[i] # remote.obits[j]
  BY <1>5
<1>19. rec.strong # 0
  BY <1>15
<1>20. DeathInv
  BY <1>5, <1>15, <1>16, <1>17, <1>18, <1>19, Zenon DEF DeathInv
<1> QED
  BY <1>13, <1>20, Zenon DEF Inv

-----------------------------------------------------------------------------
(* What the invariant says                                                 *)

LEMMA HoldsByInv ==
  ASSUME Sizes(Threads), Inv
  PROVE  ProxiesHold
<1>1. RefInv /\ RefTypes /\ RemoteHeldOnce /\ ValueKept
  BY Zenon DEF Inv, RefInv
<1> SUFFICES ASSUME Quiet, \A t \in Threads : held[t] = None /\ weakly[t] = None
             PROVE  value \in {Absent, None} /\ \A p \in Proxies : abp[p] = NoProxy
  BY <1>1, Zenon DEF ProxiesHold, ProxiesFreed
<1>2. \A t \in Threads : (\A what : ~Has(agenda[t], what)) /\ \A what, x : ~HasOn(agenda[t], what, x)
  BY SMT DEF Quiet, Idle, Has, HasOn
<1>3. None \notin Proxies
  BY NamesApart, Zenon
<1>4. value \in {Absent, None} /\ value \notin Proxies
  BY <1>1, <1>2, <1>3, NamesApart, Zenon DEF RefTypes, ValueKept
<1>5. ASSUME NEW p \in Proxies PROVE abp[p] = NoProxy
  <2>1. Holders(p) = {} /\ Keepers(p) = {} /\ Weakeners(p) = {} /\ value # p
    BY <1>2, <1>3, <1>4, Zenon DEF Holders, Keepers, Weakeners
  <2>2. Cardinality({}) = 0
    BY Zenon DEF Sizes
  <2>3. Counted(p) /\ (abp[p].weak = 0 => abp[p].mClazz = None) /\ abp[p] \in Proxy
    BY <1>1, Zenon DEF RefInv, RefTypes
  <2>4. abp[p].strong = 0 /\ abp[p].weak = 0
    BY <2>1, <2>2, <2>3 DEF Counted, One
  <2> QED
    BY Zenon, <2>3, <2>4 DEF Proxy, NoProxy
<1> QED
  BY <1>4, <1>5, Zenon

LEMMA StaysByInv ==
  ASSUME Inv PROVE AssociatedStays
BY Zenon DEF Inv, RefInv, ThreadKeeps, AssociatedStays

LEMMA QuietLinks ==
  ASSUME Quiet, NEW l PROVE ~Reporting(l) /\ ~Reported(l) /\ ~Doomed(l)
<1>1. \A t \in Threads : \A what, x : ~HasOn(agenda[t], what, x)
  BY SMT DEF Quiet, Idle, HasOn
<1> QED
  BY <1>1, Zenon DEF Reporting, Reported, Doomed

LEMMA ReleasedByInv ==
  ASSUME Inv PROVE CookiesReleasedOnce
<1> SUFFICES ASSUME NEW l \in Links
             PROVE  /\ tdr[l].unlinked <= 1 /\ ~tdr[l].late
                    /\ Quiet /\ rec.strong = 0 /\ tdr[l] # NoLink => tdr[l].unlinked = 1
  BY Zenon DEF CookiesReleasedOnce
<1>1. DeathInv /\ LinkSound(l)
  BY Zenon DEF Inv, DeathInv
<1>2. tdr[l] = NoLink \/ tdr[l].unlinked = One(tdr[l].sp = 0)
  BY <1>1, Zenon DEF LinkSound
<1>3. tdr[l].unlinked <= 1 /\ ~tdr[l].late
  <2>1. NoLink.unlinked = 0
    BY Zenon DEF NoLink
  <2>2. ~tdr[l].late
    BY <1>1, Zenon DEF LinkSound
  <2> QED
    BY <1>2, <2>1, <2>2 DEF One
<1>4. ASSUME Quiet, rec.strong = 0, tdr[l] # NoLink PROVE tdr[l].unlinked = 1
  <2>1. l \notin rec.list /\ ~Reporting(l)
    BY <1>1, <1>4, QuietLinks, Zenon DEF DeathInv
  <2>2. tdr[l].sp = One(l \in rec.list) + One(Reporting(l))
    BY <1>1, Zenon DEF LinkSound
  <2>3. tdr[l].sp = 0
    BY <2>1, <2>2 DEF One
  <2> QED
    BY <1>2, <1>4, <2>3, Zenon DEF One
<1> QED
  BY <1>3, <1>4, Zenon

LEMMA ToldByInv ==
  ASSUME Inv PROVE DeathsTold
<1> SUFFICES ASSUME Quiet, remote.sent, rec.strong > 0, NEW l \in Links, tdr[l].user = "linked"
             PROVE  Told(tdr[l].mCookie)
  BY Zenon DEF DeathsTold, Told
<1>1. DeathInv /\ LinkSound(l)
  BY Zenon DEF Inv, DeathInv
<1>2. ~Listed(l)
  BY <1>1 DEF DeathInv, Listed
<1>3. ~Reported(l) /\ ~Doomed(l)
  BY QuietLinks, Zenon
<1> QED
  BY <1>1, <1>2, <1>3, Zenon DEF LinkSound

-----------------------------------------------------------------------------
(* Finite sets                                                             *)

INSTANCE FiniteSetTheorems

LEMMA SizesOf ==
  ASSUME NEW F, IsFiniteSet(F) PROVE Sizes(F)
<1> SUFFICES ASSUME NEW S \in SUBSET F
             PROVE  /\ Cardinality(S) \in Nat
                    /\ Cardinality(S) = 0 <=> S = {}
                    /\ \A x \in F : x \notin S => Cardinality(S \cup {x}) = Cardinality(S) + 1
  BY Zenon DEF Sizes
<1>1. IsFiniteSet(S)
  BY FS_Subset, Zenon
<1>2. Cardinality(S) \in Nat
  BY <1>1, FS_CardinalityType, Zenon
<1>3. Cardinality(S) = 0 <=> S = {}
  BY <1>1, FS_EmptySet, Zenon
<1>4. \A x \in F : x \notin S => Cardinality(S \cup {x}) = Cardinality(S) + 1
  BY <1>1, FS_AddElement, Zenon
<1> QED
  BY <1>2, <1>3, <1>4, Zenon

LEMMA Finite ==
  Sizes(Threads) /\ Sizes(Proxies)
BY NamesApart, SizesOf, Zenon

-----------------------------------------------------------------------------
(* The theorems                                                            *)

LEMMA Invariance ==
  Spec => []Inv
<1>1. Init => Inv
  BY Finite, InvInit, Zenon
<1>2. Inv /\ [Next]_vars => Inv'
  BY Finite, InvNext, Zenon
<1> QED
  BY <1>1, <1>2, PTL DEF Spec

(* Whatever threads look up, promote, copy and release at the same time, the object of the ABpBinders  *)
(* is held once by each of those in use and by nobody who is gone, and when no thread has a reference   *)
(* left every ABpBinder is freed and the attached Value is empty (ABpBinder::lookupOrCreateFromBinder,  *)
(* ABpBinder::onLastStrongRef and the weak references of the NDK).                                      *)
THEOREM ProxiesHoldTheirObject ==
  Spec => []ProxiesHold
<1>1. Inv => ProxiesHold
  BY Finite, HoldsByInv, Zenon
<1> QED
  BY <1>1, Invariance, PTL

(* A thread for which AIBinder_associateClass returned true finds that class on the AIBinder as long as *)
(* it holds it, whichever classes other threads try to associate (AIBinder::associateClassInternal).    *)
THEOREM AssociatedClassStays ==
  Spec => []AssociatedStays
<1>1. Inv => AssociatedStays
  BY StaysByInv, Zenon
<1> QED
  BY <1>1, Invariance, PTL

(* onUnlinked is called for a cookie at most once, onDied never after it, and when the recipient is     *)
(* deleted and no thread is in a call it has been called for every link that was ever made              *)
(* (TransferDeathRecipient's destructor, which an unlink, a prune, a refusal and a death race to run).  *)
THEOREM CookiesAreReleasedOnce ==
  Spec => []CookiesReleasedOnce
<1>1. Inv => CookiesReleasedOnce
  BY ReleasedByInv, Zenon
<1> QED
  BY <1>1, Invariance, PTL

(* When the object has died and its obituary has been handled, every cookie that is linked and was not  *)
(* unlinked has been told (BpBinder::sendObituary, TransferDeathRecipient::binderDied), although        *)
(* binderDied may take the link of another thread with the same cookie out of the list.                 *)
THEOREM LinkedCookiesAreTold ==
  Spec => []DeathsTold
<1>1. Inv => DeathsTold
  BY ToldByInv, Zenon
<1> QED
  BY <1>1, Invariance, PTL

=============================================================================
