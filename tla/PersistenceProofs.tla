-------------------------- MODULE PersistenceProofs --------------------------
(***************************************************************************)
(* Proofs about Persistence: for any route of waits, any number of         *)
(* instances, tokens and calls, and any failures, crashes and shutdowns    *)
(* between two steps, the store follows the memory, a restart repeats no   *)
(* wait that is over, and every token that waits can be moved on.          *)
(***************************************************************************)
EXTENDS Persistence, SequenceTheorems, TLAPS

(***************************************************************************)
(* The steps of a program, each fit to follow those before it.             *)
(***************************************************************************)
MoveVerb  == {"park", "end", "terminate"}
MakeVerb  == {"park", "insert", "save"}      \* about the entries of the next wait
ClearVerb == {"drop", "delete", "forget"}    \* about those of the wait that is left
KeepVerb  == {"fetch", "write"}
WipeVerb  == {"sweep", "erase", "purge"}
EntryVerb == {"take"} \cup MakeVerb \cup ClearVerb
TokenVerb == EntryVerb \cup {"end", "terminate"}
Verb      == TokenVerb \cup KeepVerb \cup WipeVerb
Step      == [do : Verb, row : Instance \cup Token \cup Entry]

\* The token a step is about.
Subject(x) == IF x.row \in Token THEN x.row ELSE x.row[1]

\* Two entries of one visit of a token to a wait.
SameWait(e, f) == e[1] = f[1] /\ e[2] = f[2] /\ e[4] = f[4]

\* A step has a row of its kind.
Fit(x) ==
  /\ x \in Step
  /\ x.do \in {"end", "terminate"} => x.row \in Token
  /\ x.do \in EntryVerb => x.row \in Entry
  /\ x.do \in KeepVerb \cup WipeVerb => x.row \in Instance
  /\ x.do \in {"insert", "save"} => x.row[3] \in Parts(x.row[2])
  /\ x.do \in {"delete", "forget", "save", "park"} => x.row[3] # "boundary"

\* What is left to do after a step that is about an instance ...
InstanceStep(x, later) ==
  /\ x.do \in {"purge", "write"} => later = {}
  /\ x.do = "erase" => later = {Order("purge", x.row)}
  /\ x.do = "sweep" => later = {Order("erase", x.row), Order("purge", x.row)}
  /\ x.do = "fetch" => later = {Order("write", x.row)}

\* ... or about a token: the instance is written at the end, after nothing but
\* steps of the token.
TokenStep(x, later) ==
  /\ Order("write", InstOf[Subject(x)]) \in later
  /\ \A y \in later : \/ y.do \in KeepVerb /\ y.row = InstOf[Subject(x)]
                      \/ y.do \in TokenVerb /\ Subject(y) = Subject(x)

\* The token moves after it was taken, and what goes belongs to the wait it leaves.
TakeStep(x, later) ==
  /\ \E y \in later : y.do \in MoveVerb
  /\ \A y \in later :
       /\ y.do \notin {"take", "forget"}
       /\ y.do \in ClearVerb => SameWait(y.row, x.row)
       /\ y.do \in MakeVerb => y.row[2] = x.row[2] + 1
       /\ y.do = "save" => Order("insert", y.row) \in later

\* When the token moves all that belongs to the old wait has gone.
MoveStep(x, later) ==
  /\ \A y \in later : /\ y.do \in KeepVerb \cup {"insert", "save"}
                      /\ y.do = "save" => Order("insert", y.row) \in later
  /\ x.do = "park" => Order("insert", x.row) \in later
  /\ x.do \in {"end", "terminate"} => \A y \in later : y.do \in KeepVerb

\* What comes belongs to one visit; a task or a catch is saved once it is in its map.
MakeStep(x, later) ==
  /\ \A y \in later : /\ y.do \in MakeVerb \cup KeepVerb
                      /\ y.do \in MakeVerb => SameWait(x.row, y.row)
  /\ x.do = "insert" /\ x.row[3] # "boundary" => Order("save", x.row) \in later
  /\ x.do = "save" => Order("insert", x.row) \notin later

\* An entry leaves its map before its row goes, and both before the token moves.
ClearStep(x, later) ==
  /\ \E y \in later : y.do \in MoveVerb
  /\ \A y \in later : /\ y.do = "take" => SameWait(y.row, x.row)
                      /\ y.do \in MakeVerb => y.row # x.row
  /\ x.do = "drop" /\ x.row[3] # "boundary" =>
       Order("delete", x.row) \in later \/ Order("forget", x.row) \in later
  /\ x.do \in {"delete", "forget"} => Order("drop", x.row) \notin later

Before(x, later) ==
  /\ x \notin later
  /\ InstanceStep(x, later)
  /\ x.do \in TokenVerb => TokenStep(x, later)
  /\ x.do = "take" => TakeStep(x, later)
  /\ x.do \in MoveVerb => MoveStep(x, later)
  /\ x.do \in MakeVerb => MakeStep(x, later)
  /\ x.do \in ClearVerb => ClearStep(x, later)

After(s, j) == {s[k] : k \in (j + 1)..Len(s)}
Sound(s)    == s \in Seq(Step) /\ \A j \in 1..Len(s) : Fit(s[j]) /\ Before(s[j], After(s, j))

LEMMA Elements ==
  ASSUME NEW S, NEW s \in Seq(S)
  PROVE  Range(s) = {s[j] : j \in 1..Len(s)} /\ Range(s) \subseteq S
<1>1. DOMAIN s = 1..Len(s) /\ Len(s) \in Nat  BY LenProperties
<1> QED  BY <1>1, ElementOfSeq DEF Range

\* The program without its first step.
LEMMA TailOf ==
  ASSUME NEW S, NEW s \in Seq(S), s # <<>>
  PROVE  /\ Head(s) = s[1] /\ Len(s) \in Nat \ {0} /\ Tail(s) \in Seq(S) /\ Len(Tail(s)) = Len(s) - 1
         /\ \A j \in 1..Len(Tail(s)) : Tail(s)[j] = s[j + 1]
         /\ Range(s) = {Head(s)} \cup Range(Tail(s))
<1>1. Head(s) = s[1] /\ Len(s) \in Nat \ {0} /\ Tail(s) \in Seq(S) /\ Len(Tail(s)) = Len(s) - 1
  BY EmptySeq, HeadTailProperties
<1>2. \A j \in 1..Len(Tail(s)) : Tail(s)[j] = s[j + 1]  BY HeadTailProperties
<1>3. Range(s) = {s[j] : j \in 1..Len(s)} /\ Range(Tail(s)) = {Tail(s)[k] : k \in 1..Len(Tail(s))}
  BY <1>1, Elements
<1>4. Range(Tail(s)) \subseteq Range(s) /\ Head(s) \in Range(s)  BY <1>1, <1>2, <1>3
<1>5. ASSUME NEW j \in 1..Len(s), j # 1 PROVE s[j] \in Range(Tail(s))
  <2>1. j - 1 \in 1..Len(Tail(s)) /\ Tail(s)[j - 1] = s[j - 1 + 1] /\ j - 1 + 1 = j
    BY <1>1, <1>2, <1>5
  <2> QED  BY <2>1, <1>3
<1>6. Range(s) \subseteq {Head(s)} \cup Range(Tail(s))  BY <1>1, <1>3, <1>5
<1> QED  BY <1>1, <1>2, <1>4, <1>6

LEMMA SoundTail ==
  ASSUME NEW s, Sound(s), s # <<>>
  PROVE  /\ Sound(Tail(s)) /\ Fit(Head(s)) /\ Before(Head(s), Range(Tail(s)))
         /\ Range(Tail(s)) = Range(s) \ {Head(s)} /\ Head(s) \in Range(s)
<1>0. s \in Seq(Step) /\ \A j \in 1..Len(s) : Fit(s[j]) /\ Before(s[j], After(s, j))  BY DEF Sound
<1>1. /\ Head(s) = s[1] /\ Len(s) \in Nat \ {0} /\ Tail(s) \in Seq(Step) /\ Len(Tail(s)) = Len(s) - 1
      /\ \A j \in 1..Len(Tail(s)) : Tail(s)[j] = s[j + 1]
      /\ Range(s) = {Head(s)} \cup Range(Tail(s))
  BY <1>0, TailOf
<1>2. \A j \in 1..Len(Tail(s)) : After(Tail(s), j) = After(s, j + 1)
  <2> TAKE j \in 1..Len(Tail(s))
  <2>1. After(Tail(s), j) \subseteq After(s, j + 1)
    <3> SUFFICES ASSUME NEW k \in (j + 1)..Len(Tail(s)) PROVE Tail(s)[k] \in After(s, j + 1)
      BY DEF After
    <3>1. k + 1 \in (j + 1 + 1)..Len(s) /\ Tail(s)[k] = s[k + 1]  BY <1>1
    <3> QED  BY <3>1 DEF After
  <2>2. After(s, j + 1) \subseteq After(Tail(s), j)
    <3> SUFFICES ASSUME NEW k \in (j + 1 + 1)..Len(s) PROVE s[k] \in After(Tail(s), j)
      BY DEF After
    <3>1. k - 1 \in (j + 1)..Len(Tail(s)) /\ Tail(s)[k - 1] = s[k]  BY <1>1
    <3> QED  BY <3>1 DEF After
  <2> QED  BY <2>1, <2>2
<1>3. \A j \in 1..Len(Tail(s)) : j + 1 \in 1..Len(s)  BY <1>1
<1>4. Sound(Tail(s))  BY <1>0, <1>1, <1>2, <1>3 DEF Sound
<1>5. Range(Tail(s)) = After(s, 1)
  <2>1. Range(Tail(s)) = {Tail(s)[j] : j \in 1..Len(Tail(s))}  BY <1>1, Elements
  <2>2. Range(Tail(s)) \subseteq After(s, 1)
    <3> SUFFICES ASSUME NEW j \in 1..Len(Tail(s)) PROVE Tail(s)[j] \in After(s, 1)  BY <2>1
    <3>1. j + 1 \in (1 + 1)..Len(s) /\ Tail(s)[j] = s[j + 1]  BY <1>1
    <3> QED  BY <3>1 DEF After
  <2>3. After(s, 1) \subseteq Range(Tail(s))
    <3> SUFFICES ASSUME NEW k \in (1 + 1)..Len(s) PROVE s[k] \in Range(Tail(s))  BY DEF After
    <3>1. k - 1 \in 1..Len(Tail(s)) /\ Tail(s)[k - 1] = s[k]  BY <1>1
    <3> QED  BY <3>1, <2>1
  <2> QED  BY <2>2, <2>3
<1>6. Fit(Head(s)) /\ Before(Head(s), Range(Tail(s)))
  <2>1. 1 \in 1..Len(s)  BY <1>1
  <2> QED  BY <2>1, <1>0, <1>1, <1>5
<1>7. Head(s) \notin Range(Tail(s))  BY <1>6 DEF Before
<1> QED  BY <1>1, <1>4, <1>6, <1>7

\* The program with one more step before it.
LEMMA SoundOp ==
  ASSUME NEW do, NEW r, NEW s, Sound(s), Fit(Order(do, r)), Before(Order(do, r), Range(s))
  PROVE  /\ Sound(Op(do, r, s)) /\ Op(do, r, s) # <<>>
         /\ Range(Op(do, r, s)) = {Order(do, r)} \cup Range(s)
<1> DEFINE x == Order(do, r)
           p == Op(do, r, s)
<1>0. s \in Seq(Step) /\ x \in Step /\ \A j \in 1..Len(s) : Fit(s[j]) /\ Before(s[j], After(s, j))
  BY DEF Sound, Fit
<1>1. <<x>> \in Seq(Step) /\ Len(<<x>>) = 1 /\ <<x>>[1] = x  BY <1>0
<1>2. /\ p \in Seq(Step) /\ Len(s) \in Nat /\ Len(p) = 1 + Len(s)
      /\ \A j \in 1..(1 + Len(s)) : p[j] = IF j <= 1 THEN <<x>>[j] ELSE s[j - 1]
  BY <1>0, <1>1, ConcatProperties, LenProperties DEF Op
<1>3. p[1] = x /\ \A j \in 1..Len(s) : p[j + 1] = s[j]  BY <1>1, <1>2
<1>4. p # <<>>  BY <1>2, EmptySeq
<1> HIDE DEF p, x
<1>5. /\ Head(p) = p[1] /\ Tail(p) \in Seq(Step) /\ Len(Tail(p)) = Len(p) - 1
      /\ \A j \in 1..Len(Tail(p)) : Tail(p)[j] = p[j + 1]
      /\ Range(p) = {Head(p)} \cup Range(Tail(p))
  BY <1>2, <1>4, TailOf
<1>6. Tail(p) = s
  <2>1. Len(Tail(p)) = Len(s) /\ \A j \in 1..Len(Tail(p)) : Tail(p)[j] = s[j]  BY <1>2, <1>3, <1>5
  <2> QED  BY <2>1, <1>0, <1>5, SeqEqual
<1>7. Range(p) = {x} \cup Range(s)  BY <1>3, <1>5, <1>6
<1>8. \A j \in 1..Len(s) : After(p, j + 1) = After(s, j)
  <2> TAKE j \in 1..Len(s)
  <2>1. After(s, j) \subseteq After(p, j + 1)
    <3> SUFFICES ASSUME NEW k \in (j + 1)..Len(s) PROVE s[k] \in After(p, j + 1)  BY DEF After
    <3>1. k + 1 \in (j + 1 + 1)..Len(p) /\ p[k + 1] = s[k]  BY <1>2, <1>3
    <3> QED  BY <3>1 DEF After
  <2>2. After(p, j + 1) \subseteq After(s, j)
    <3> SUFFICES ASSUME NEW k \in (j + 1 + 1)..Len(p) PROVE p[k] \in After(s, j)  BY DEF After
    <3>1. k - 1 \in (j + 1)..Len(s) /\ k - 1 \in 1..Len(s) /\ p[k - 1 + 1] = s[k - 1] /\ k - 1 + 1 = k
      BY <1>2, <1>3
    <3> QED  BY <3>1 DEF After
  <2> QED  BY <2>1, <2>2
<1>9. After(p, 1) = Range(s)
  <2>1. Range(s) = {s[j] : j \in 1..Len(s)}  BY <1>0, Elements
  <2>2. Range(s) \subseteq After(p, 1)
    <3> SUFFICES ASSUME NEW j \in 1..Len(s) PROVE s[j] \in After(p, 1)  BY <2>1
    <3>1. j + 1 \in (1 + 1)..Len(p) /\ p[j + 1] = s[j]  BY <1>2, <1>3
    <3> QED  BY <3>1 DEF After
  <2>3. After(p, 1) \subseteq Range(s)
    <3> SUFFICES ASSUME NEW k \in (1 + 1)..Len(p) PROVE p[k] \in Range(s)  BY DEF After
    <3>1. k - 1 \in 1..Len(s) /\ p[k - 1 + 1] = s[k - 1] /\ k - 1 + 1 = k  BY <1>2, <1>3
    <3> QED  BY <3>1, <2>1
  <2> QED  BY <2>2, <2>3
<1>10. \A j \in 1..Len(p) : Fit(p[j]) /\ Before(p[j], After(p, j))
  <2> TAKE j \in 1..Len(p)
  <2>1. CASE j = 1  BY <2>1, <1>3, <1>9 DEF x
  <2>2. CASE j # 1
    <3>1. j - 1 \in 1..Len(s) /\ p[j - 1 + 1] = s[j - 1] /\ j - 1 + 1 = j  BY <2>2, <1>2, <1>3
    <3> QED  BY <3>1, <1>0, <1>8
  <2> QED  BY <2>1, <2>2
<1> QED  BY <1>2, <1>4, <1>7, <1>10 DEF Sound, p, x

LEMMA SoundNone == Sound(<<>>) /\ Range(<<>>) = {}
<1>1. <<>> \in Seq(Step) /\ Len(<<>>) = 0  BY EmptySeq
<1>2. Range(<<>>) = {<<>>[j] : j \in 1..Len(<<>>)}  BY <1>1, Elements
<1>3. 1..Len(<<>>) = {}  BY <1>1
<1> QED  BY <1>1, <1>2, <1>3 DEF Sound

LEMMA SoundFit ==
  ASSUME NEW s, Sound(s)
  PROVE  /\ \A x \in Range(s) : Fit(x)
         /\ s = <<>> <=> Range(s) = {}
<1>1. s \in Seq(Step) /\ \A j \in 1..Len(s) : Fit(s[j])  BY DEF Sound
<1>2. Range(s) = {s[j] : j \in 1..Len(s)}  BY <1>1, Elements
<1>3. s # <<>> => Head(s) \in Range(s)  BY <1>1, TailOf
<1> QED  BY <1>1, <1>2, <1>3, SoundNone

----------------------------------------------------------------------------
(***************************************************************************)
(* The programs of the source are sound.                                   *)
(***************************************************************************)
LEMMA Names ==
  /\ Len(Route) \in Nat /\ Ended = Len(Route) + 1 /\ Wait = 1..Len(Route) /\ Ended \notin Wait
  /\ \A n \in Wait : Route[n] \in {"task", "gateway"}
  /\ InstOf \in [Token -> Instance] /\ First \in [Token -> Wait]
  /\ \A n \in Wait : n \in BoundaryAt => Route[n] = "task"
  /\ \A i \in Instance : i \notin Token /\ i \notin Entry
  /\ \A t \in Token : t \notin Entry /\ t \notin Instance
  /\ \A e \in Entry : e \notin Token /\ e \notin Instance
  /\ NoJob \notin Job \cup {Shutdown}
<1>1. Route \in Seq({"task", "gateway"})  BY RouteAssumption
<1>2. Len(Route) \in Nat /\ \A n \in 1..Len(Route) : Route[n] \in {"task", "gateway"}
  BY <1>1, LenProperties, ElementOfSeq
<1>3. \A n \in Wait : n \in BoundaryAt => Route[n] = "task"  BY RouteAssumption
<1>4. Instance \cap Token = {} /\ (Instance \cup Token) \cap Entry = {}  BY NamesAssumption
<1> HIDE DEF Entry
<1>5. /\ \A i \in Instance : i \notin Token /\ i \notin Entry
      /\ \A t \in Token : t \notin Entry /\ t \notin Instance
      /\ \A e \in Entry : e \notin Token /\ e \notin Instance
  BY <1>4
<1> QED  BY <1>2, <1>3, <1>5, RouteAssumption, LoopAssumption DEF Ended, Wait

LEMMA Entries ==
  /\ \A t \in Token, n \in Wait, part \in Part, k \in Copy :
       /\ <<t, n, part, k>> \in Entry
       /\ <<t, n, part, k>>[1] = t /\ <<t, n, part, k>>[2] = n
       /\ <<t, n, part, k>>[3] = part /\ <<t, n, part, k>>[4] = k
  /\ \A e \in Entry : /\ e[1] \in Token /\ e[2] \in Wait /\ e[3] \in Part /\ e[4] \in Copy
                      /\ e = <<e[1], e[2], e[3], e[4]>>
  BY DEF Entry

\* Two entries are one when they say the same.
LEMMA SameEntry ==
  ASSUME NEW e \in Entry, NEW f \in Entry, SameWait(e, f), e[3] = f[3]
  PROVE  e = f
<1>1. e = <<e[1], e[2], e[3], e[4]>> /\ f = <<f[1], f[2], f[3], f[4]>>  BY Entries
<1> QED  BY <1>1 DEF SameWait

LEMMA PersistSound ==
  ASSUME NEW i \in Instance
  PROVE  /\ Sound(PersistInstance(i))
         /\ Range(PersistInstance(i)) = {Order("fetch", i), Order("write", i)}
<1> DEFINE w == Op("write", i, <<>>)
<1>1. Sound(w) /\ Range(w) = {Order("write", i)}
  <2>1. Fit(Order("write", i)) /\ Before(Order("write", i), {})
    BY DEF Fit, Step, Verb, TokenVerb, EntryVerb, KeepVerb, WipeVerb, MoveVerb, MakeVerb, ClearVerb,
           Before, InstanceStep, Order
  <2>2. Before(Order("write", i), Range(<<>>)) /\ Sound(<<>>)  BY <2>1, SoundNone
  <2>3. Sound(w) /\ Range(w) = {Order("write", i)} \cup Range(<<>>)  BY <2>1, <2>2, SoundOp
  <2> QED  BY <2>3, SoundNone
<1>2. Fit(Order("fetch", i)) /\ Before(Order("fetch", i), {Order("write", i)})
  BY DEF Fit, Step, Verb, TokenVerb, EntryVerb, KeepVerb, WipeVerb, MoveVerb, MakeVerb, ClearVerb,
         Before, InstanceStep, Order
<1> HIDE DEF w
<1>3. Sound(Op("fetch", i, w)) /\ Range(Op("fetch", i, w)) = {Order("fetch", i)} \cup Range(w)
  BY <1>1, <1>2, SoundOp
<1> QED  BY <1>1, <1>3 DEF PersistInstance, w

\* After a step that makes entry e there are only those that make other entries of the
\* visit, and the write of the instance.
Ahead(e, later) ==
  /\ Order("write", InstOf[e[1]]) \in later
  /\ \A y \in later : \/ y.do \in KeepVerb /\ y.row = InstOf[e[1]]
                      \/ y.do \in {"insert", "save"} /\ y.row \in Entry /\ SameWait(e, y.row)

\* An entry that is put in its map, and then saved.
LEMMA SavedSound ==
  ASSUME NEW e \in Entry, e[3] # "boundary", e[3] \in Parts(e[2]), NEW rest, Sound(rest),
         Ahead(e, Range(rest)), \A y \in Range(rest) : y.row # e
  PROVE  /\ Sound(Op("insert", e, Op("save", e, rest)))
         /\ Range(Op("insert", e, Op("save", e, rest))) =
              {Order("insert", e), Order("save", e)} \cup Range(rest)
<1> USE DEF Order
<1>0. e \notin Token /\ e \notin Instance  BY Names
<1>1. Fit(Order("save", e)) /\ Fit(Order("insert", e))
  BY DEF Fit, Step, Verb, TokenVerb, EntryVerb, KeepVerb, WipeVerb, MoveVerb, MakeVerb, ClearVerb
<1>2. ASSUME NEW y \in Range(rest), y.do \in MakeVerb PROVE y.row \in Entry /\ SameWait(e, y.row) /\ y.row[1] = e[1]
  BY <1>2 DEF Ahead, MakeVerb, KeepVerb, SameWait
<1>a. /\ Order("write", InstOf[e[1]]) \in Range(rest)
      /\ \A y \in Range(rest) : y.do \in MakeVerb \/ (y.do \in KeepVerb /\ y.row = InstOf[e[1]])
  BY DEF Ahead, MakeVerb
<1>3. Before(Order("save", e), Range(rest))
  <2>1. TokenStep(Order("save", e), Range(rest))
    <3>1. Subject(Order("save", e)) = e[1]  BY <1>0 DEF Subject
    <3>2. ASSUME NEW y \in Range(rest), y.do \in MakeVerb PROVE y.do \in TokenVerb /\ Subject(y) = e[1]
      BY <3>2, <1>2, Names DEF Subject, TokenVerb, EntryVerb
    <3> QED  BY <3>1, <3>2, <1>a DEF TokenStep
  <2>2. MakeStep(Order("save", e), Range(rest))
    <3>1. ASSUME NEW y \in Range(rest), y.do \in MakeVerb PROVE SameWait(e, y.row)  BY <3>1, <1>2
    <3>2. Order("save", e).do = "save" /\ Order("save", e).row = e /\ Order("insert", e) \notin Range(rest)
      OBVIOUS
    <3> QED  BY <3>1, <3>2, <1>a DEF MakeStep
  <2> QED  BY <2>1, <2>2 DEF Before, InstanceStep, MakeVerb, ClearVerb, MoveVerb
<1>4. /\ Sound(Op("save", e, rest))
      /\ Range(Op("save", e, rest)) = {Order("save", e)} \cup Range(rest)
  BY <1>1, <1>3, SoundOp
<1> DEFINE R == {Order("save", e)} \cup Range(rest)
<1>5. Before(Order("insert", e), R)
  <2>0. \A y \in R : y.row # e \/ y.do = "save"  OBVIOUS
  <2>1. TokenStep(Order("insert", e), R)
    <3>1. Subject(Order("insert", e)) = e[1] /\ Subject(Order("save", e)) = e[1]  BY <1>0 DEF Subject
    <3>2. ASSUME NEW y \in Range(rest), y.do \in MakeVerb PROVE y.do \in TokenVerb /\ Subject(y) = e[1]
      BY <3>2, <1>2, Names DEF Subject, TokenVerb, EntryVerb
    <3>3. Order("save", e).do \in TokenVerb  BY DEF TokenVerb, EntryVerb, MakeVerb
    <3> QED  BY <3>1, <3>2, <3>3, <1>a DEF TokenStep
  <2>2. MakeStep(Order("insert", e), R)
    <3>1. \A y \in R : /\ y.do \in MakeVerb \cup KeepVerb
                       /\ y.do \in MakeVerb => SameWait(e, y.row)
      BY <1>2, <1>a DEF SameWait, MakeVerb
    <3> QED  BY <3>1 DEF MakeStep
  <2> QED  BY <2>0, <2>1, <2>2 DEF Before, InstanceStep, MakeVerb, ClearVerb, MoveVerb
<1> DEFINE p == Op("save", e, rest)
<1> HIDE DEF p, Order
<1>6. Sound(p) /\ Range(p) = R  BY <1>4 DEF p
<1>7. Before(Order("insert", e), Range(p))  BY <1>5, <1>6
<1>8. Sound(p) /\ Fit(Order("insert", e))  BY <1>1, <1>6
<1>9. Sound(Op("insert", e, p)) /\ Range(Op("insert", e, p)) = {Order("insert", e)} \cup Range(p)
  BY <1>7, <1>8, SoundOp
<1> QED  BY <1>6, <1>9 DEF p

\* The steps by which token t gets to wait n, or to its end, and what comes after.
Entering(t, n, k, S) ==
  /\ Order("write", InstOf[t]) \in S
  /\ \E y \in S : y.do \in MoveVerb
  /\ \A y \in S : \/ y.do \in KeepVerb /\ y.row = InstOf[t]
                  \/ y.do \in {"end", "terminate"} /\ y.row = t
                  \/ /\ y.do \in MakeVerb /\ y.row \in Entry
                     /\ y.row[1] = t /\ y.row[2] = n /\ y.row[4] = k
  /\ \A y \in S : y.do = "save" => Order("insert", y.row) \in S

LEMMA EndSound ==
  ASSUME NEW t \in Token, NEW do \in {"end", "terminate"}, NEW n, NEW k
  PROVE  LET p == Op(do, t, PersistInstance(InstOf[t])) IN Sound(p) /\ Entering(t, n, k, Range(p))
<1>0. t \notin Entry /\ t \notin Instance /\ InstOf[t] \in Instance  BY Names
<1>1. PICK q : q = PersistInstance(InstOf[t])  OBVIOUS
<1>2. Sound(q) /\ Range(q) = {Order("fetch", InstOf[t]), Order("write", InstOf[t])}
  BY <1>0, <1>1, PersistSound
<1>3. Fit(Order(do, t))
  BY DEF Order, Fit, Step, Verb, TokenVerb, EntryVerb, KeepVerb, WipeVerb, MoveVerb, MakeVerb, ClearVerb
<1>4. Before(Order(do, t), {Order("fetch", InstOf[t]), Order("write", InstOf[t])})
  <2>1. TokenStep(Order(do, t), {Order("fetch", InstOf[t]), Order("write", InstOf[t])})
    BY DEF TokenStep, Order, Subject, KeepVerb
  <2>2. MoveStep(Order(do, t), {Order("fetch", InstOf[t]), Order("write", InstOf[t])})
    BY DEF MoveStep, Order, KeepVerb
  <2> QED  BY <2>1, <2>2 DEF Before, InstanceStep, MakeVerb, ClearVerb, Order
<1>5. Before(Order(do, t), Range(q))  BY <1>2, <1>4
<1>6. Sound(Op(do, t, q)) /\ Range(Op(do, t, q)) = {Order(do, t)} \cup Range(q)
  <2>1. Sound(q) /\ Fit(Order(do, t))  BY <1>2, <1>3
  <2> QED  BY <2>1, <1>5, SoundOp
<1>7. Entering(t, n, k, {Order(do, t), Order("fetch", InstOf[t]), Order("write", InstOf[t])})
  BY DEF Entering, Order, KeepVerb, MoveVerb
<1>8. Range(Op(do, t, q)) = {Order(do, t), Order("fetch", InstOf[t]), Order("write", InstOf[t])}
  BY <1>2, <1>6
<1> QED  BY <1>1, <1>6, <1>7, <1>8

LEMMA AlternativesSound ==
  ASSUME NEW t \in Token, NEW n \in Wait, NEW k \in Copy, NEW q,
         q = IF Route[n] = "gateway"
             THEN Op("insert", <<t, n, "other", k>>,
                     Op("save", <<t, n, "other", k>>, PersistInstance(InstOf[t])))
             ELSE PersistInstance(InstOf[t])
  PROVE  /\ Sound(q) /\ Ahead(<<t, n, "main", k>>, Range(q))
         /\ \A y \in Range(q) : /\ y.row # <<t, n, "main", k>>
                                /\ y.do = "save" => Order("insert", y.row) \in Range(q)
<1>1. PICK i, p, e, m : /\ i = InstOf[t] /\ p = PersistInstance(i)
                        /\ e = <<t, n, "other", k>> /\ m = <<t, n, "main", k>>
  OBVIOUS
<1>2. /\ e \in Entry /\ e[1] = t /\ e[2] = n /\ e[3] = "other" /\ e[4] = k
      /\ m \in Entry /\ m[1] = t /\ m[2] = n /\ m[3] = "main" /\ m[4] = k
  BY <1>1, Entries DEF Part
<1>3. i \in Instance /\ i # m /\ e # m /\ SameWait(m, e)  BY <1>1, <1>2, Names DEF SameWait
<1>4. Sound(p) /\ Range(p) = {Order("fetch", i), Order("write", i)}  BY <1>1, <1>3, PersistSound
<1>5. Ahead(m, Range(p)) /\ Ahead(e, Range(p)) /\ \A y \in Range(p) : y.row = i /\ y.do # "save"
  BY <1>1, <1>2, <1>4 DEF Ahead, Order, KeepVerb
<1>6. CASE Route[n] # "gateway"
  <2>1. q = p  BY <1>1, <1>6
  <2> QED  BY <2>1, <1>1, <1>3, <1>4, <1>5
<1>7. CASE Route[n] = "gateway"
  <2>1. q = Op("insert", e, Op("save", e, p))  BY <1>1, <1>7
  <2>2. e[3] \in Parts(e[2]) /\ e[3] # "boundary"  BY <1>2, <1>7 DEF Parts
  <2>3. \A y \in Range(p) : y.row # e  BY <1>2, <1>3, <1>5, Names
  <2>4. /\ Sound(Op("insert", e, Op("save", e, p)))
        /\ Range(Op("insert", e, Op("save", e, p))) = {Order("insert", e), Order("save", e)} \cup Range(p)
    BY <1>2, <1>4, <1>5, <2>2, <2>3, SavedSound
  <2>5. Range(q) = {Order("insert", e), Order("save", e)} \cup Range(p)  BY <2>1, <2>4
  <2>6. \A y \in Range(q) : /\ y.row # m
                            /\ y.do = "save" => Order("insert", y.row) \in Range(q)
    BY <2>5, <1>3, <1>5 DEF Order
  <2>7. Ahead(m, Range(q))
    <3>1. \A y \in Range(q) \ Range(p) : y.do \in {"insert", "save"} /\ y.row = e
      BY <2>5 DEF Order
    <3> QED  BY <3>1, <2>5, <1>2, <1>3, <1>5 DEF Ahead
  <2> QED  BY <2>1, <2>4, <2>6, <2>7, <1>1
<1> QED  BY <1>6, <1>7

LEMMA ParkSound ==
  ASSUME NEW t \in Token, NEW n \in Wait, NEW k \in Copy, NEW q, Sound(q), NEW m,
         m = <<t, n, "main", k>>, Ahead(m, Range(q)),
         \A y \in Range(q) : /\ y.row # m
                             /\ y.do = "save" => Order("insert", y.row) \in Range(q)
  PROVE  LET p == Op("park", m, Op("insert", m, Op("save", m, q)))
         IN /\ Sound(p) /\ Entering(t, n, k, Range(p))
            /\ Range(p) = {Order("park", m), Order("insert", m), Order("save", m)} \cup Range(q)
<1>2. m \in Entry /\ m[1] = t /\ m[2] = n /\ m[3] = "main" /\ m[4] = k
  BY Entries DEF Part
<1>3. PICK r : r = Op("insert", m, Op("save", m, q))  OBVIOUS
<1>4. Sound(r) /\ Range(r) = {Order("insert", m), Order("save", m)} \cup Range(q)
  <2>1. m[3] # "boundary" /\ m[3] \in Parts(m[2])  BY <1>2 DEF Parts
  <2> QED  BY <1>2, <1>3, <2>1, SavedSound
<1>5. /\ Order("write", InstOf[t]) \in Range(r) /\ Order("insert", m) \in Range(r)
      /\ \A y \in Range(r) : y.do = "save" => Order("insert", y.row) \in Range(r)
  BY <1>2, <1>4 DEF Ahead, Order
<1>6. \A y \in Range(r) : \/ y.do \in KeepVerb /\ y.row = InstOf[t]
                          \/ y.do \in {"insert", "save"} /\ y.row \in Entry /\ SameWait(m, y.row)
  <2>1. \A y \in Range(r) \ Range(q) : y.do \in {"insert", "save"} /\ y.row = m  BY <1>4 DEF Order
  <2> QED  BY <2>1, <1>2, <1>4 DEF Ahead, SameWait
<1>7. Fit(Order("park", m))
  BY <1>2, Names DEF Fit, Order, Step, Verb, TokenVerb, EntryVerb, KeepVerb, WipeVerb, MoveVerb, MakeVerb, ClearVerb
<1>8. Before(Order("park", m), Range(r))
  <2>0. Order("park", m).do = "park" /\ Order("park", m).row = m /\ Subject(Order("park", m)) = t
    BY <1>2, Names DEF Order, Subject
  <2>1. \A y \in Range(r) : y.do # "park" /\ y.do \in KeepVerb \cup {"insert", "save"}
    BY <1>6 DEF KeepVerb
  <2>2. TokenStep(Order("park", m), Range(r))
    <3>1. ASSUME NEW y \in Range(r), y.do \in {"insert", "save"}, y.row \in Entry, SameWait(m, y.row)
          PROVE  y.do \in TokenVerb /\ Subject(y) = t
      BY <3>1, <1>2, Names DEF TokenVerb, EntryVerb, MakeVerb, Subject, SameWait
    <3> QED  BY <3>1, <2>0, <1>5, <1>6 DEF TokenStep
  <2>3. MoveStep(Order("park", m), Range(r))  BY <2>0, <2>1, <1>5 DEF MoveStep
  <2>4. MakeStep(Order("park", m), Range(r))  BY <2>0, <2>1, <1>6 DEF MakeStep, MakeVerb, KeepVerb
  <2>5. InstanceStep(Order("park", m), Range(r))  BY <2>0 DEF InstanceStep
  <2> QED  BY <2>0, <2>1, <2>2, <2>3, <2>4, <2>5 DEF Before, ClearVerb
<1>9. Sound(Op("park", m, r)) /\ Range(Op("park", m, r)) = {Order("park", m)} \cup Range(r)
  <2>1. Sound(r) /\ Fit(Order("park", m))  BY <1>4, <1>7
  <2> QED  BY <2>1, <1>8, SoundOp
<1>10. Entering(t, n, k, {Order("park", m)} \cup Range(r))
  <2>0. Order("park", m).do = "park" /\ Order("park", m).row = m  BY DEF Order
  <2>1. \A y \in Range(r) : \/ y.do \in KeepVerb /\ y.row = InstOf[t]
                            \/ /\ y.do \in MakeVerb /\ y.row \in Entry
                               /\ y.row[1] = t /\ y.row[2] = n /\ y.row[4] = k
    BY <1>2, <1>6 DEF MakeVerb, SameWait
  <2> QED  BY <2>0, <2>1, <1>2, <1>5 DEF Entering, MoveVerb, MakeVerb
<1> QED  BY <1>3, <1>4, <1>9, <1>10

LEMMA EnterSound ==
  ASSUME NEW t \in Token, NEW n \in 1..Ended, NEW k \in Copy
  PROVE  Sound(Enter(t, n, k)) /\ Entering(t, n, k, Range(Enter(t, n, k)))
<1>1. CASE n = Ended
  <2>1. PICK do \in {"end", "terminate"} : do = IF t \in Terminating THEN "terminate" ELSE "end"
    OBVIOUS
  <2>2. Enter(t, n, k) = Op(do, t, PersistInstance(InstOf[t]))  BY <1>1, <2>1 DEF Enter
  <2> QED  BY <2>2, EndSound
<1>2. CASE n # Ended
  <2>1. n \in Wait  BY <1>2, Names
  <2>2. PICK m, b, q, p :
          /\ m = <<t, n, "main", k>> /\ b = <<t, n, "boundary", k>>
          /\ q = IF Route[n] = "gateway"
                 THEN Op("insert", <<t, n, "other", k>>,
                         Op("save", <<t, n, "other", k>>, PersistInstance(InstOf[t])))
                 ELSE PersistInstance(InstOf[t])
          /\ p = Op("park", m, Op("insert", m, Op("save", m, q)))
    OBVIOUS
  <2>3. Enter(t, n, k) = IF n \in BoundaryAt THEN Op("insert", b, p) ELSE p
    BY <1>2, <2>2 DEF Enter
  <2>4. /\ Sound(q) /\ Ahead(m, Range(q))
        /\ \A y \in Range(q) : /\ y.row # m
                               /\ y.do = "save" => Order("insert", y.row) \in Range(q)
    BY <2>1, <2>2, AlternativesSound
  <2>5. /\ Sound(p) /\ Entering(t, n, k, Range(p))
        /\ Range(p) = {Order("park", m), Order("insert", m), Order("save", m)} \cup Range(q)
    BY <2>1, <2>2, <2>4, ParkSound
  <2>6. CASE n \notin BoundaryAt  BY <2>3, <2>5, <2>6
  <2>7. CASE n \in BoundaryAt
    <3>1. /\ b \in Entry /\ b[1] = t /\ b[2] = n /\ b[3] = "boundary" /\ b[4] = k
          /\ m \in Entry /\ m[1] = t /\ m[2] = n /\ m[3] = "main" /\ m[4] = k
      BY <2>1, <2>2, Entries DEF Part
    <3>2. Range(q) = {Order("fetch", InstOf[t]), Order("write", InstOf[t])}
      <4>1. Route[n] = "task" /\ InstOf[t] \in Instance  BY <2>1, <2>7, Names
      <4> QED  BY <4>1, <2>2, PersistSound
    <3>3. \A y \in Range(p) : \/ y.do \in KeepVerb /\ y.row = InstOf[t]
                              \/ y.do \in MakeVerb /\ y.row = m
      BY <2>5, <3>2 DEF Order, KeepVerb, MakeVerb
    <3>4. Order("insert", b).do = "insert" /\ Order("insert", b).row = b /\ Subject(Order("insert", b)) = t
      BY <3>1, Names DEF Order, Subject
    <3>5. Fit(Order("insert", b))
      <4>1. b[3] \in Parts(b[2])  BY <2>7, <3>1 DEF Parts
      <4> QED
        BY <4>1, <3>1, <3>4, Names DEF Fit, Order, Step, Verb, TokenVerb, EntryVerb, KeepVerb, WipeVerb, MoveVerb, MakeVerb, ClearVerb
    <3>6. Before(Order("insert", b), Range(p))
      <4>1. b # m /\ SameWait(b, m)  BY <3>1 DEF SameWait
      <4>2. Order("insert", b) \notin Range(p)
        BY <3>3, <3>4, <4>1 DEF KeepVerb
      <4>3. TokenStep(Order("insert", b), Range(p))
        <5>1. \A y \in Range(p) : y.do \in MakeVerb => y.do \in TokenVerb  BY DEF TokenVerb, EntryVerb
        <5>2. \A y \in Range(p) : y.row = m => Subject(y) = t  BY <3>1, Names DEF Subject
        <5>3. Order("write", InstOf[t]) \in Range(p)  BY <2>5 DEF Entering
        <5> QED  BY <3>3, <3>4, <5>1, <5>2, <5>3 DEF TokenStep
      <4>4. MakeStep(Order("insert", b), Range(p))
        <5>1. \A y \in Range(p) : /\ y.do \in MakeVerb \cup KeepVerb
                                  /\ y.do \in MakeVerb => SameWait(b, y.row)
          BY <3>3, <4>1 DEF MakeVerb, KeepVerb
        <5> QED  BY <5>1, <3>1, <3>4 DEF MakeStep
      <4>5. InstanceStep(Order("insert", b), Range(p))  BY <3>4 DEF InstanceStep
      <4> QED  BY <3>4, <4>2, <4>3, <4>4, <4>5 DEF Before, MoveVerb, ClearVerb
    <3>7. /\ Sound(Op("insert", b, p))
          /\ Range(Op("insert", b, p)) = {Order("insert", b)} \cup Range(p)
      <4>1. Sound(p) /\ Fit(Order("insert", b))  BY <2>5, <3>5
      <4> QED  BY <4>1, <3>6, SoundOp
    <3>8. Entering(t, n, k, {Order("insert", b)} \cup Range(p))
      <4>1. Order("insert", b).do # "save" /\ Order("insert", b).do \in MakeVerb
        BY <3>4 DEF MakeVerb
      <4>2. b \in Entry /\ b[1] = t /\ b[2] = n /\ b[4] = k  BY <3>1
      <4> QED  BY <2>5, <3>4, <4>1, <4>2 DEF Entering
    <3> QED  BY <2>3, <2>7, <3>7, <3>8
  <2> QED  BY <2>6, <2>7
<1> QED  BY <1>1, <1>2

\* The steps by which a call leaves the wait of entry e, or what is left of them.
Leading(e, k, S) ==
  /\ Order("write", InstOf[e[1]]) \in S
  /\ \E y \in S : y.do \in MoveVerb
  /\ \A y \in S : \/ y.do \in KeepVerb /\ y.row = InstOf[e[1]]
                  \/ y.do \in {"end", "terminate"} /\ y.row = e[1]
                  \/ /\ y.do \in MakeVerb /\ y.row \in Entry
                     /\ y.row[1] = e[1] /\ y.row[2] = e[2] + 1 /\ y.row[4] = k
                  \/ y.do \in ClearVerb /\ y.row \in Entry /\ SameWait(y.row, e)
                  \/ y.do = "take" /\ y.row = e
  /\ \A y \in S : y.do = "save" => Order("insert", y.row) \in S

\* All such steps are about one token and its instance.
LEMMA LeadingTokens ==
  ASSUME NEW e \in Entry, NEW k, NEW S, Leading(e, k, S)
  PROVE  \A y \in S : \/ y.do \in KeepVerb /\ y.row = InstOf[e[1]]
                      \/ y.do \in TokenVerb /\ Subject(y) = e[1]
<1> TAKE y \in S
<1>0. e[1] \in Token /\ e \notin Token  BY Entries, Names
<1>1. CASE y.do \in {"end", "terminate"} /\ y.row = e[1]
  BY <1>0, <1>1 DEF TokenVerb, Subject
<1>2. CASE y.do \in MakeVerb /\ y.row \in Entry /\ y.row[1] = e[1]
  BY <1>2, Names DEF TokenVerb, EntryVerb, Subject
<1>3. CASE y.do \in ClearVerb /\ y.row \in Entry /\ SameWait(y.row, e)
  BY <1>3, Names DEF TokenVerb, EntryVerb, Subject, SameWait
<1>4. CASE y.do = "take" /\ y.row = e
  BY <1>0, <1>4 DEF TokenVerb, EntryVerb, Subject
<1> QED  BY <1>1, <1>2, <1>3, <1>4 DEF Leading

LEMMA ClearSound ==
  ASSUME NEW e \in Entry, NEW k, NEW rest, Sound(rest), Leading(e, k, Range(rest)),
         NEW do \in ClearVerb, NEW f \in Entry, SameWait(f, e),
         Order(do, f) \notin Range(rest),
         do = "drop" /\ f[3] # "boundary" =>
           Order("delete", f) \in Range(rest) \/ Order("forget", f) \in Range(rest),
         do # "drop" => f[3] # "boundary" /\ Order("drop", f) \notin Range(rest)
  PROVE  /\ Sound(Op(do, f, rest)) /\ Leading(e, k, Range(Op(do, f, rest)))
         /\ Range(Op(do, f, rest)) = {Order(do, f)} \cup Range(rest)
<1> DEFINE x == Order(do, f)
           R == Range(rest)
<1>1. x.do = do /\ x.row = f  BY DEF Order
<1>2. Subject(x) = e[1] /\ do \in TokenVerb
  BY <1>1, Names DEF Subject, SameWait, TokenVerb, EntryVerb
<1>3. Fit(x)
  BY <1>1, Names DEF Order, Fit, Step, Verb, TokenVerb, EntryVerb, KeepVerb, WipeVerb, MoveVerb, MakeVerb, ClearVerb
<1>4. TokenStep(x, R)  BY <1>2, LeadingTokens DEF TokenStep, Leading
<1>5. ClearStep(x, R)
  <2>1. ASSUME NEW y \in R, y.do = "take" PROVE SameWait(y.row, f)
    BY <2>1 DEF Leading, SameWait, KeepVerb, MakeVerb, ClearVerb
  <2>2. ASSUME NEW y \in R, y.do \in MakeVerb PROVE y.row # f
    <3>1. y.row[2] = e[2] + 1  BY <2>2 DEF Leading, KeepVerb, MakeVerb, ClearVerb
    <3>2. f[2] = e[2] /\ e[2] \in Int  BY Entries, Names DEF SameWait
    <3> QED  BY <3>1, <3>2
  <2>3. \E y \in R : y.do \in MoveVerb  BY DEF Leading
  <2> QED  BY <1>1, <2>1, <2>2, <2>3 DEF ClearStep, ClearVerb
<1>6. Before(x, R)
  BY <1>1, <1>4, <1>5 DEF Before, InstanceStep, ClearVerb, MoveVerb, MakeVerb
<1>7. Leading(e, k, {x} \cup R)
  <2>1. \A y \in {x} : y.do \in ClearVerb /\ y.row \in Entry /\ SameWait(y.row, e) /\ y.do # "save"
    BY <1>1 DEF ClearVerb
  <2> HIDE DEF x, R
  <2> QED  BY <2>1 DEF Leading, R
<1>8. Sound(Op(do, f, rest)) /\ Range(Op(do, f, rest)) = {Order(do, f)} \cup Range(rest)
  BY <1>3, <1>6, SoundOp
<1> QED  BY <1>7, <1>8

LEMMA TakeSound ==
  ASSUME NEW e \in Entry, NEW k, NEW rest, Sound(rest), Leading(e, k, Range(rest)),
         \A y \in Range(rest) : y.do \notin {"take", "forget"}
  PROVE  /\ Sound(Op("take", e, rest)) /\ Leading(e, k, Range(Op("take", e, rest)))
         /\ Range(Op("take", e, rest)) = {Order("take", e)} \cup Range(rest)
<1> DEFINE x == Order("take", e)
           R == Range(rest)
<1>1. x.do = "take" /\ x.row = e  BY DEF Order
<1>2. Subject(x) = e[1] /\ "take" \in TokenVerb
  BY <1>1, Names DEF Subject, TokenVerb, EntryVerb
<1>3. Fit(x)
  BY <1>1, Names DEF Order, Fit, Step, Verb, TokenVerb, EntryVerb, KeepVerb, WipeVerb, MoveVerb, MakeVerb, ClearVerb
<1>4. TokenStep(x, R)  BY <1>2, LeadingTokens DEF TokenStep, Leading
<1>5. TakeStep(x, R)
  <2>1. ASSUME NEW y \in R, y.do \in ClearVerb PROVE SameWait(y.row, e)
    BY <2>1 DEF Leading, KeepVerb, MakeVerb, ClearVerb
  <2>2. ASSUME NEW y \in R, y.do \in MakeVerb PROVE y.row[2] = e[2] + 1
    BY <2>2 DEF Leading, KeepVerb, MakeVerb, ClearVerb
  <2>3. \E y \in R : y.do \in MoveVerb  BY DEF Leading
  <2>4. \A y \in R : y.do = "save" => Order("insert", y.row) \in R  BY DEF Leading
  <2> QED  BY <1>1, <2>1, <2>2, <2>3, <2>4 DEF TakeStep
<1>6. Before(x, R)
  <2>1. x \notin R  BY <1>1
  <2> QED  BY <2>1, <1>1, <1>4, <1>5 DEF Before, InstanceStep, ClearVerb, MoveVerb, MakeVerb
<1>7. Leading(e, k, {x} \cup R)
  <2>1. \A y \in {x} : y.do = "take" /\ y.row = e
    BY <1>1
  <2> HIDE DEF x, R
  <2> QED  BY <2>1 DEF Leading, R
<1>8. Sound(Op("take", e, rest)) /\ Range(Op("take", e, rest)) = {Order("take", e)} \cup Range(rest)
  BY <1>3, <1>6, SoundOp
<1> QED  BY <1>7, <1>8

\* All that belongs to the wait of entry e is cleared.
Leaves(e, S) ==
  /\ Order("take", e) \in S
  /\ \A f \in Entry : Order("delete", f) \in S \/ Order("forget", f) \in S
                        => f = e \/ Order("drop", f) \in S
  /\ \A f \in Entry : SameWait(f, e) /\ f[3] \in Parts(f[2])
                        => /\ f = e \/ Order("drop", f) \in S
                           /\ f[3] # "boundary" => Order("delete", f) \in S \/ Order("forget", f) \in S

LEMMA Siblings ==
  ASSUME NEW e \in Entry, NEW part \in Part
  PROVE  /\ Sibling(e, part) \in Entry /\ SameWait(Sibling(e, part), e) /\ Sibling(e, part)[3] = part
         /\ \A f \in Entry : SameWait(f, e) /\ f[3] = part => f = Sibling(e, part)
<1>1. e = <<e[1], e[2], e[3], e[4]>> /\ e[1] \in Token /\ e[2] \in Wait /\ e[4] \in Copy  BY Entries
<1>2. Sibling(e, part) = <<e[1], e[2], part, e[4]>>  BY <1>1 DEF Sibling
<1>3. /\ Sibling(e, part) \in Entry /\ SameWait(Sibling(e, part), e) /\ Sibling(e, part)[3] = part
  BY <1>1, <1>2, Entries DEF SameWait
<1>4. ASSUME NEW f \in Entry, SameWait(f, e), f[3] = part PROVE f = Sibling(e, part)
  BY <1>3, <1>4, SameEntry DEF SameWait
<1> QED  BY <1>3, <1>4

\* What follows the steps that clear.
LEMMA EnterNext ==
  ASSUME NEW e \in Entry, NEW k \in Copy, NEW q, q = Enter(e[1], e[2] + 1, k)
  PROVE  /\ Sound(q) /\ Leading(e, k, Range(q))
         /\ \A y \in Range(q) : y.do \in MakeVerb \cup KeepVerb \cup {"end", "terminate"}
<1>1. e[1] \in Token /\ e[2] + 1 \in 1..Ended  BY Entries, Names
<1>2. Sound(q) /\ Entering(e[1], e[2] + 1, k, Range(q))  BY <1>1, EnterSound
<1> QED  BY <1>2 DEF Leading, Entering

LEMMA TaskSound ==
  ASSUME NEW e \in Entry, NEW k \in Copy, e[3] = "main", Route[e[2]] = "task", NEW p, p = LeaveTask(e, k)
  PROVE  Sound(p) /\ Leading(e, k, Range(p)) /\ Leaves(e, Range(p))
<1>1. PICK q, b, q1, q2 :
        /\ q = Enter(e[1], e[2] + 1, k) /\ b = Sibling(e, "boundary")
        /\ q1 = Op("drop", b, q) /\ q2 = Op("delete", e, q1)
  OBVIOUS
<1>2. p = Op("take", e, q2)  BY <1>1 DEF LeaveTask
<1>3. /\ Sound(q) /\ Leading(e, k, Range(q))
      /\ \A y \in Range(q) : y.do \in MakeVerb \cup KeepVerb \cup {"end", "terminate"}
  BY <1>1, EnterNext
<1>4. /\ b \in Entry /\ SameWait(b, e) /\ b[3] = "boundary" /\ b # e
      /\ \A f \in Entry : SameWait(f, e) /\ f[3] = "boundary" => f = b
  BY <1>1, Siblings DEF Part
<1>5. Sound(q1) /\ Leading(e, k, Range(q1)) /\ Range(q1) = {Order("drop", b)} \cup Range(q)
  <2>1. Order("drop", b) \notin Range(q) /\ "drop" \in ClearVerb
    BY <1>3 DEF Order, ClearVerb, MakeVerb, KeepVerb
  <2> QED  BY <2>1, <1>1, <1>3, <1>4, ClearSound
<1>6. Sound(q2) /\ Leading(e, k, Range(q2)) /\ Range(q2) = {Order("delete", e)} \cup Range(q1)
  <2>1. /\ Order("delete", e) \notin Range(q1) /\ "delete" \in ClearVerb
        /\ Order("drop", e) \notin Range(q1) /\ SameWait(e, e)
    BY <1>3, <1>4, <1>5 DEF Order, ClearVerb, MakeVerb, KeepVerb, SameWait
  <2> QED  BY <2>1, <1>1, <1>5, ClearSound
<1>7. \A y \in Range(q2) : y.do \notin {"take", "forget"}
  BY <1>3, <1>5, <1>6 DEF Order, MakeVerb, KeepVerb
<1>8. /\ Sound(p) /\ Leading(e, k, Range(p))
      /\ Range(p) = {Order("take", e), Order("delete", e), Order("drop", b)} \cup Range(q)
  <2>1. Sound(p) /\ Leading(e, k, Range(p)) /\ Range(p) = {Order("take", e)} \cup Range(q2)
    BY <1>2, <1>6, <1>7, TakeSound
  <2> QED  BY <2>1, <1>5, <1>6
<1>9. Leaves(e, Range(p))
  <2>1. ASSUME NEW f \in Entry, Order("delete", f) \in Range(p) \/ Order("forget", f) \in Range(p)
        PROVE  f = e
    BY <2>1, <1>3, <1>8 DEF Order, MakeVerb, KeepVerb
  <2>2. ASSUME NEW f \in Entry, SameWait(f, e), f[3] \in Parts(f[2])
        PROVE  f = e \/ (f = b /\ f[3] = "boundary")
    <3>1. f[2] = e[2] /\ f[3] \in {"main", "boundary"}  BY <2>2 DEF SameWait, Parts
    <3> QED  BY <3>1, <2>2, <1>4, SameEntry
  <2> QED  BY <2>1, <2>2, <1>8 DEF Leaves
<1> QED  BY <1>8, <1>9

LEMMA BoundarySound ==
  ASSUME NEW e \in Entry, NEW k \in Copy, e[3] = "boundary", Route[e[2]] = "task",
         NEW p, p = LeaveByBoundary(e, k)
  PROVE  Sound(p) /\ Leading(e, k, Range(p)) /\ Leaves(e, Range(p))
<1>1. PICK q, m, q1, q2 :
        /\ q = Enter(e[1], e[2] + 1, k) /\ m = Sibling(e, "main")
        /\ q1 = Op("delete", m, q) /\ q2 = Op("drop", m, q1)
  OBVIOUS
<1>2. p = Op("take", e, q2)  BY <1>1 DEF LeaveByBoundary
<1>3. /\ Sound(q) /\ Leading(e, k, Range(q))
      /\ \A y \in Range(q) : y.do \in MakeVerb \cup KeepVerb \cup {"end", "terminate"}
  BY <1>1, EnterNext
<1>4. /\ m \in Entry /\ SameWait(m, e) /\ m[3] = "main"
      /\ \A f \in Entry : SameWait(f, e) /\ f[3] = "main" => f = m
  BY <1>1, Siblings DEF Part
<1>5. Sound(q1) /\ Leading(e, k, Range(q1)) /\ Range(q1) = {Order("delete", m)} \cup Range(q)
  <2>1. /\ Order("delete", m) \notin Range(q) /\ Order("drop", m) \notin Range(q)
        /\ "delete" \in ClearVerb
    BY <1>3 DEF Order, ClearVerb, MakeVerb, KeepVerb
  <2> QED  BY <2>1, <1>1, <1>3, <1>4, ClearSound
<1>6. Sound(q2) /\ Leading(e, k, Range(q2)) /\ Range(q2) = {Order("drop", m)} \cup Range(q1)
  <2>1. /\ Order("drop", m) \notin Range(q1) /\ "drop" \in ClearVerb
        /\ Order("delete", m) \in Range(q1)
    BY <1>3, <1>5 DEF Order, ClearVerb, MakeVerb, KeepVerb
  <2> QED  BY <2>1, <1>1, <1>4, <1>5, ClearSound
<1>7. \A y \in Range(q2) : y.do \notin {"take", "forget"}
  BY <1>3, <1>5, <1>6 DEF Order, MakeVerb, KeepVerb
<1>8. /\ Sound(p) /\ Leading(e, k, Range(p))
      /\ Range(p) = {Order("take", e), Order("drop", m), Order("delete", m)} \cup Range(q)
  <2>1. Sound(p) /\ Leading(e, k, Range(p)) /\ Range(p) = {Order("take", e)} \cup Range(q2)
    BY <1>2, <1>6, <1>7, TakeSound
  <2> QED  BY <2>1, <1>5, <1>6
<1>9. Leaves(e, Range(p))
  <2>1. ASSUME NEW f \in Entry, Order("delete", f) \in Range(p) \/ Order("forget", f) \in Range(p)
        PROVE  f = m
    BY <2>1, <1>3, <1>8 DEF Order, MakeVerb, KeepVerb
  <2>2. ASSUME NEW f \in Entry, SameWait(f, e), f[3] \in Parts(f[2])
        PROVE  (f = e /\ f[3] = "boundary") \/ f = m
    <3>1. f[2] = e[2] /\ f[3] \in {"main", "boundary"}  BY <2>2 DEF SameWait, Parts
    <3> QED  BY <3>1, <2>2, <1>4, SameEntry
  <2> QED  BY <2>1, <2>2, <1>8 DEF Leaves
<1> QED  BY <1>8, <1>9

LEMMA GatewaySound ==
  ASSUME NEW e \in Entry, NEW k \in Copy, e[3] \in Parts(e[2]), Route[e[2]] = "gateway",
         NEW p, p = LeaveGateway(e, k)
  PROVE  Sound(p) /\ Leading(e, k, Range(p)) /\ Leaves(e, Range(p))
<1>1. PICK q, o, q1, q2, q3 :
        /\ q = Enter(e[1], e[2] + 1, k)
        /\ o = Sibling(e, IF e[3] = "main" THEN "other" ELSE "main")
        /\ q1 = Op("delete", e, q) /\ q2 = Op("take", e, q1) /\ q3 = Op("forget", o, q2)
  OBVIOUS
<1>2. p = Op("drop", o, q3)  BY <1>1 DEF LeaveGateway
<1>3. /\ Sound(q) /\ Leading(e, k, Range(q))
      /\ \A y \in Range(q) : y.do \in MakeVerb \cup KeepVerb \cup {"end", "terminate"}
  BY <1>1, EnterNext
<1>0. e[3] \in {"main", "other"} /\ e[2] \notin BoundaryAt
  <2>1. e[2] \notin BoundaryAt  BY Names, Entries
  <2> QED  BY <2>1 DEF Parts
<1>4. /\ o \in Entry /\ SameWait(o, e) /\ o[3] # "boundary" /\ o # e /\ SameWait(e, e)
      /\ \A f \in Entry : SameWait(f, e) /\ f[3] \in {"main", "other"} => f = o \/ f = e
  <2>1. CASE e[3] = "main"
    <3>1. /\ o \in Entry /\ SameWait(o, e) /\ o[3] = "other"
          /\ \A f \in Entry : SameWait(f, e) /\ f[3] = "other" => f = o
      BY <2>1, <1>1, Siblings DEF Part
    <3> QED  BY <3>1, <2>1, SameEntry DEF SameWait
  <2>2. CASE e[3] = "other"
    <3>1. /\ o \in Entry /\ SameWait(o, e) /\ o[3] = "main"
          /\ \A f \in Entry : SameWait(f, e) /\ f[3] = "main" => f = o
      BY <2>2, <1>1, Siblings DEF Part
    <3> QED  BY <3>1, <2>2, SameEntry DEF SameWait
  <2> QED  BY <1>0, <2>1, <2>2
<1>5. Sound(q1) /\ Leading(e, k, Range(q1)) /\ Range(q1) = {Order("delete", e)} \cup Range(q)
  <2>1. /\ Order("delete", e) \notin Range(q) /\ Order("drop", e) \notin Range(q)
        /\ "delete" \in ClearVerb /\ e[3] # "boundary"
    BY <1>0, <1>3 DEF Order, ClearVerb, MakeVerb, KeepVerb
  <2> QED  BY <2>1, <1>1, <1>3, <1>4, ClearSound
<1>6. Sound(q2) /\ Leading(e, k, Range(q2)) /\ Range(q2) = {Order("take", e)} \cup Range(q1)
  <2>1. \A y \in Range(q1) : y.do \notin {"take", "forget"}
    BY <1>3, <1>5 DEF Order, MakeVerb, KeepVerb
  <2> QED  BY <2>1, <1>1, <1>5, TakeSound
<1>7. Sound(q3) /\ Leading(e, k, Range(q3)) /\ Range(q3) = {Order("forget", o)} \cup Range(q2)
  <2>1. /\ Order("forget", o) \notin Range(q2) /\ Order("drop", o) \notin Range(q2)
        /\ "forget" \in ClearVerb
    BY <1>3, <1>5, <1>6 DEF Order, ClearVerb, MakeVerb, KeepVerb
  <2> QED  BY <2>1, <1>1, <1>4, <1>6, ClearSound
<1>8. Sound(p) /\ Leading(e, k, Range(p)) /\ Range(p) = {Order("drop", o)} \cup Range(q3)
  <2>1. /\ Order("drop", o) \notin Range(q3) /\ Order("forget", o) \in Range(q3)
        /\ "drop" \in ClearVerb
    BY <1>3, <1>5, <1>6, <1>7 DEF Order, ClearVerb, MakeVerb, KeepVerb
  <2> QED  BY <2>1, <1>2, <1>4, <1>7, ClearSound
<1>9. Range(p) = {Order("drop", o), Order("forget", o), Order("take", e), Order("delete", e)} \cup Range(q)
  BY <1>5, <1>6, <1>7, <1>8
<1>10. Leaves(e, Range(p))
  <2>1. ASSUME NEW f \in Entry, Order("delete", f) \in Range(p) \/ Order("forget", f) \in Range(p)
        PROVE  f = e \/ f = o
    BY <2>1, <1>3, <1>9 DEF Order, MakeVerb, KeepVerb
  <2>2. ASSUME NEW f \in Entry, SameWait(f, e), f[3] \in Parts(f[2])
        PROVE  f = e \/ f = o
    <3>1. f[2] = e[2] /\ f[3] \in {"main", "other"}  BY <2>2, <1>0 DEF SameWait, Parts
    <3> QED  BY <3>1, <2>2, <1>4
  <2> QED  BY <2>1, <2>2, <1>9 DEF Leaves
<1> QED  BY <1>8, <1>10

\* Whatever ends a wait: its handler clears all of it, and only then moves the token.
LEMMA ProgramSound ==
  ASSUME NEW e \in Entry, NEW k \in Copy, e[3] \in Parts(e[2])
  PROVE  /\ Sound(Program(e, k)) /\ Leading(e, k, Range(Program(e, k)))
         /\ Leaves(e, Range(Program(e, k)))
<1>1. e[2] \in Wait /\ Route[e[2]] \in {"task", "gateway"}  BY Entries, Names
<1>2. CASE e[3] = "boundary"
  <2>1. Route[e[2]] = "task"  BY <1>1, <1>2, Names DEF Parts
  <2>2. Program(e, k) = LeaveByBoundary(e, k)  BY <1>2, <2>1 DEF Program
  <2> QED  BY <2>1, <2>2, <1>2, BoundarySound
<1>3. CASE e[3] # "boundary" /\ Route[e[2]] = "gateway"
  <2>1. Program(e, k) = LeaveGateway(e, k)  BY <1>3 DEF Program
  <2> QED  BY <2>1, <1>3, GatewaySound
<1>4. CASE e[3] # "boundary" /\ Route[e[2]] = "task"
  <2>1. e[3] = "main"  BY <1>4 DEF Parts
  <2>2. Program(e, k) = LeaveTask(e, k)  BY <1>4 DEF Program
  <2> QED  BY <2>1, <2>2, <1>4, TaskSound
<1> QED  BY <1>1, <1>2, <1>3, <1>4

LEMMA DeleteSound ==
  ASSUME NEW i \in Instance
  PROVE  /\ Sound(DeleteProgram(i))
         /\ Range(DeleteProgram(i)) = {Order("sweep", i), Order("erase", i), Order("purge", i)}
<1>1. PICK q, q1 : q = Op("purge", i, <<>>) /\ q1 = Op("erase", i, q)  OBVIOUS
<1>2. Sound(q) /\ Range(q) = {Order("purge", i)}
  <2>1. Fit(Order("purge", i)) /\ Before(Order("purge", i), {})
    BY DEF Fit, Step, Verb, TokenVerb, EntryVerb, KeepVerb, WipeVerb, MoveVerb, MakeVerb, ClearVerb,
           Before, InstanceStep, Order
  <2>2. Before(Order("purge", i), Range(<<>>)) /\ Sound(<<>>)  BY <2>1, SoundNone
  <2>3. Sound(q) /\ Range(q) = {Order("purge", i)} \cup Range(<<>>)  BY <1>1, <2>1, <2>2, SoundOp
  <2> QED  BY <2>3, SoundNone
<1>3. Sound(q1) /\ Range(q1) = {Order("erase", i), Order("purge", i)}
  <2>1. Fit(Order("erase", i)) /\ Before(Order("erase", i), {Order("purge", i)})
    BY DEF Fit, Step, Verb, TokenVerb, EntryVerb, KeepVerb, WipeVerb, MoveVerb, MakeVerb, ClearVerb,
           Before, InstanceStep, Order
  <2>2. Before(Order("erase", i), Range(q))  BY <2>1, <1>2
  <2>3. Sound(q1) /\ Range(q1) = {Order("erase", i)} \cup Range(q)  BY <1>1, <1>2, <2>1, <2>2, SoundOp
  <2> QED  BY <2>3, <1>2
<1>4. Fit(Order("sweep", i)) /\ Before(Order("sweep", i), {Order("erase", i), Order("purge", i)})
  BY DEF Fit, Step, Verb, TokenVerb, EntryVerb, KeepVerb, WipeVerb, MoveVerb, MakeVerb, ClearVerb,
         Before, InstanceStep, Order
<1>5. Before(Order("sweep", i), Range(q1))  BY <1>3, <1>4
<1>6. /\ Sound(Op("sweep", i, q1))
      /\ Range(Op("sweep", i, q1)) = {Order("sweep", i)} \cup Range(q1)
  <2>1. Sound(q1) /\ Fit(Order("sweep", i))  BY <1>3, <1>4
  <2> QED  BY <2>1, <1>5, SoundOp
<1>7. DeleteProgram(i) = Op("sweep", i, q1)  BY <1>1 DEF DeleteProgram
<1> QED  BY <1>3, <1>6, <1>7

----------------------------------------------------------------------------
(***************************************************************************)
(* The invariant.  First what the calls have still to do, and the jobs.    *)
(***************************************************************************)
Todo(c)    == Range(ops[c])
Due(do, r) == \E c \in Call : Order(do, r) \in Todo(c)
Jobs       == (Range(queue) \ {Shutdown}) \cup (IF Working THEN {worker.job} ELSE {})
Mentions(c, t) == \E x \in Todo(c) : x.do \in TokenVerb /\ Subject(x) = t

\* The programs are sound, a token is in the hands of one call, and only the
\* rows that are stored at all have jobs.
KeptFit(e) == /\ e \in pending \/ e \in rows => e[3] \in Parts(e[2])
              /\ e \in rows => e[3] # "boundary"
JobFit(j) == IF j.row \in Instance THEN j.do = "save" ELSE j.row[3] # "boundary"
Alone(t)  == \A c, d \in Call : Mentions(c, t) /\ Mentions(d, t) => c = d
Shape ==
  /\ \A c \in Call : Sound(ops[c])
  /\ \A t \in Token : Alone(t)
  /\ \A j \in Jobs : JobFit(j)
  /\ \A e \in Entry : KeptFit(e)

\* The phases of a shutdown: no call outlives the requests and the timer loop, and
\* what the worker leaves behind is lost.
Modes ==
  /\ running \in {"down", "crashed"} => ~sweeping /\ \A c \in Call : Todo(c) = {}
  /\ running = "flushing" => \A c \in Call \ {Loop} : Todo(c) = {}
  /\ ~sweeping => Todo(Loop) = {}
  /\ running = "down" => worker = Exited
  /\ running = "crashed" \/ worker = Exited => JobRows \subseteq stray

Base == TypeOK /\ Shape /\ Modes

(***************************************************************************)
(* The instances.  A row that differs from the memory is to be written, by *)
(* a call that has changed it or by a job; no crash lost that for a token  *)
(* that is not exposed.                                                    *)
(***************************************************************************)
Matches(i)  == /\ i \in saved /\ \A t \in TokensOf(i) : savedAt[t] = at[t]
               /\ i \in closed <=> i \in savedClosed
WriteDue(i) == \E c \in Call : Order("write", i) \in Todo(c) /\ \A x \in Todo(c) : x.do # "take"
Known(i)    == running # "crashed" \/ \E t \in TokensOf(i) : t \notin exposed

InstanceRow(i) ==
  /\ i \in live => Matches(i) \/ WriteDue(i) \/ Order("save", i) \in Jobs
  /\ i \notin live => i \notin saved \/ Due("erase", i)
InstanceRows == \A i \in Instance \ stray : Known(i) => InstanceRow(i)

\* An instance is deleted from memory before anything else of it goes.
Wiped(i) == \E do \in WipeVerb : Due(do, i)
Deleting == \A i \in Instance : Wiped(i) => i \notin live

(***************************************************************************)
(* The entries: a save is due for one that is not stored, a delete for a   *)
(* row without an entry.                                                   *)
(***************************************************************************)
SaveDue(e)   == \E c \in Call : Order("save", e) \in Todo(c) /\ Order("insert", e) \notin Todo(c)
DeleteDue(e) == Due("delete", e) \/ Due("forget", e)
EntryRow(e) ==
  /\ e \in pending => e \in rows \/ SaveDue(e) \/ Order("save", e) \in Jobs \/ Wiped(InstOf[e[1]])
  /\ e \notin pending /\ e \in rows => DeleteDue(e) \/ Order("delete", e) \in Jobs
EntryRows == \A e \in Entry \ stray :
  e[3] # "boundary" /\ (running # "crashed" \/ e[1] \notin exposed) => EntryRow(e)

\* A row is deleted for good: its entry has left its map, or leaves it first.
ClearedEntry(e) ==
  /\ Order("delete", e) \in Jobs => e \notin pending
  /\ \A c \in Call : (Order("delete", e) \in Todo(c) \/ Order("forget", e) \in Todo(c)) /\ e \in pending
                       => Order("drop", e) \in Todo(c)
Cleared == \A e \in Entry : ClearedEntry(e)

\* An entry that is still to be made is known to nobody else.
FreshEntry(c, e) == Order("insert", e) \in Todo(c) =>
  /\ e \notin pending \cup rows \cup JobRows
  /\ \A d \in Call : \A x \in Todo(d) : x.row = e => d = c /\ x.do \in MakeVerb
Fresh == \A c \in Call, e \in Entry : FreshEntry(c, e)

Stored == InstanceRows /\ Deleting /\ EntryRows /\ Cleared /\ Fresh

----------------------------------------------------------------------------
(***************************************************************************)
(* What a step of a call does to what is left to do.                       *)
(***************************************************************************)
HeadIs(c, h) == /\ h = Head(ops[c]) /\ h \in Todo(c) /\ Fit(h) /\ Before(h, Todo(c) \ {h})
                /\ RowOf(c) = h.row /\ \A do : Head1(c, do) <=> h.do = do

Others(c)      == \A d \in Call : d # c => Todo(d)' = Todo(d)
Advances(c, h) == Todo(c)' = Todo(c) \ {h} /\ Others(c)
Stops(c)       == Todo(c)' = {} /\ Others(c)
Starts(c, S)   == Todo(c) = {} /\ Todo(c)' = S /\ Others(c)

LEMMA HeadFacts ==
  ASSUME Base, NEW c \in Call, NEW do, Head1(c, do)
  PROVE  \E h : HeadIs(c, h)
<1>1. ops[c] # <<>> /\ Sound(ops[c])  BY DEF Base, Shape, Head1
<1>2. PICK h : h = Head(ops[c])  OBVIOUS
<1>3. h \in Todo(c) /\ Fit(h) /\ Before(h, Todo(c) \ {h})
  BY <1>1, <1>2, SoundTail DEF Todo
<1>4. RowOf(c) = h.row /\ \A v : Head1(c, v) <=> h.do = v  BY <1>1, <1>2 DEF RowOf, Head1
<1> QED  BY <1>2, <1>3, <1>4 DEF HeadIs

\* Shape of the programs, and the domains, when those of one call change.
OpsKept == /\ \A d \in Call : Sound(ops'[d])
           /\ DOMAIN ops' = Call

LEMMA Advancing ==
  ASSUME Base, NEW c \in Call, NEW h, HeadIs(c, h), h.do \in Verb, Advance(c)
  PROVE  Advances(c, h) /\ OpsKept
<1>1. DOMAIN ops = Call /\ \A d \in Call : Sound(ops[d])  BY DEF Base, Shape, TypeOK
<1>2. ops[c] # <<>> /\ h = Head(ops[c])  BY <1>1 DEF HeadIs, Head1
<1>3. Sound(Tail(ops[c])) /\ Range(Tail(ops[c])) = Todo(c) \ {h}
  BY <1>1, <1>2, SoundTail DEF Todo
<1>4. ops' = [ops EXCEPT ![c] = Tail(ops[c])]  BY DEF Advance
<1>5. DOMAIN ops' = Call /\ ops'[c] = Tail(ops[c]) /\ \A d \in Call : d # c => ops'[d] = ops[d]
  BY <1>1, <1>4
<1> QED  BY <1>1, <1>3, <1>5 DEF Advances, Others, OpsKept, Todo

LEMMA Aborting ==
  ASSUME Base, NEW c \in Call, Abort(c)
  PROVE  /\ Stops(c) /\ OpsKept
         /\ \A r : r \in stray' <=> r \in stray \/ Order("delete", r) \in Todo(c)
<1>1. DOMAIN ops = Call /\ \A d \in Call : Sound(ops[d])  BY DEF Base, Shape, TypeOK
<1>2. ops' = [ops EXCEPT ![c] = <<>>]  BY DEF Abort
<1>3. DOMAIN ops' = Call /\ ops'[c] = <<>> /\ \A d \in Call : d # c => ops'[d] = ops[d]
  BY <1>1, <1>2
<1>4. Stops(c) /\ OpsKept  BY <1>1, <1>3, SoundNone DEF Stops, Others, OpsKept, Todo
<1>5. \A x \in Todo(c) : x \in [do : Verb, row : Instance \cup Token \cup Entry]
  BY <1>1, SoundFit DEF Todo, Fit, Step
<1>6. \A x \in Todo(c) : x.do = "delete" <=> x = Order("delete", x.row)  BY <1>5 DEF Order
<1>7. stray' = stray \cup {o.row : o \in {p \in Todo(c) : p.do = "delete"}}  BY DEF Abort, Todo
<1>8. \A r : Order("delete", r).row = r /\ Order("delete", r).do = "delete"  BY DEF Order
<1> QED  BY <1>4, <1>6, <1>7, <1>8

LEMMA Emptying ==
  ASSUME Base, NEW c \in Call, ops' = [ops EXCEPT ![c] = <<>>]
  PROVE  Stops(c) /\ OpsKept
<1>1. DOMAIN ops = Call /\ \A d \in Call : Sound(ops[d])  BY DEF Base, Shape, TypeOK
<1>2. DOMAIN ops' = Call /\ ops'[c] = <<>> /\ \A d \in Call : d # c => ops'[d] = ops[d]
  BY <1>1
<1> QED  BY <1>1, <1>2, SoundNone DEF Stops, Others, OpsKept, Todo

\* Nothing to fetch: the write is not made.
LEMMA Skipping ==
  ASSUME Base, NEW c \in Call, NEW h, HeadIs(c, h), h.do = "fetch",
         ops' = [ops EXCEPT ![c] = Tail(Tail(@))]
  PROVE  Stops(c) /\ OpsKept /\ Todo(c) = {h, Order("write", h.row)}
<1>1. DOMAIN ops = Call /\ \A d \in Call : Sound(ops[d])  BY DEF Base, Shape, TypeOK
<1>2. ops[c] # <<>> /\ h = Head(ops[c]) /\ h \in Todo(c)  BY <1>1 DEF HeadIs, Head1
<1>3. Sound(Tail(ops[c])) /\ Range(Tail(ops[c])) = Todo(c) \ {h}
  BY <1>1, <1>2, SoundTail DEF Todo
<1>4. Todo(c) \ {h} = {Order("write", h.row)}  BY DEF HeadIs, Before, InstanceStep
<1>5. PICK s : s = Tail(ops[c])  OBVIOUS
<1>6. Sound(s) /\ Range(s) = {Order("write", h.row)} /\ s # <<>>  BY <1>3, <1>4, <1>5, SoundNone
<1>7. Sound(Tail(s)) /\ Range(Tail(s)) = Range(s) \ {Head(s)} /\ Head(s) \in Range(s)
  BY <1>6, SoundTail
<1>8. Sound(Tail(s)) /\ Range(Tail(s)) = {}  BY <1>6, <1>7
<1>9. ops' = [ops EXCEPT ![c] = Tail(s)]  BY <1>5
<1>10. DOMAIN ops' = Call /\ ops'[c] = Tail(s) /\ \A d \in Call : d # c => ops'[d] = ops[d]
  BY <1>1, <1>9
<1>11. Todo(c) = {h, Order("write", h.row)}  BY <1>2, <1>4
<1> QED  BY <1>1, <1>8, <1>10, <1>11 DEF Stops, Others, OpsKept, Todo

LEMMA Starting ==
  ASSUME Base, NEW c \in Call, NEW p, Sound(p), Begin(c, p)
  PROVE  Starts(c, Range(p)) /\ OpsKept
<1>1. DOMAIN ops = Call /\ \A d \in Call : Sound(ops[d])  BY DEF Base, Shape, TypeOK
<1>2. ops[c] = <<>> /\ ops' = [ops EXCEPT ![c] = p]  BY DEF Begin
<1>3. DOMAIN ops' = Call /\ ops'[c] = p /\ \A d \in Call : d # c => ops'[d] = ops[d]
  BY <1>1, <1>2
<1> QED  BY <1>1, <1>2, <1>3, SoundNone DEF Starts, Others, OpsKept, Todo

LEMMA SameOps ==
  ASSUME Base, ops' = ops
  PROVE  OpsKept /\ \A c \in Call : Todo(c)' = Todo(c)
  BY DEF OpsKept, Todo, Base, Shape, TypeOK

\* The steps of a program are records of a verb and a row.
LEMMA Orders ==
  /\ \A do, r : Order(do, r).do = do /\ Order(do, r).row = r
  /\ \A do, r, v, s : Order(do, r) = Order(v, s) => do = v /\ r = s
  /\ \A x : Fit(x) => x = Order(x.do, x.row) /\ x.do \in Verb
  /\ \A j \in Job : j = Order(j.do, j.row) /\ j.do \in {"save", "delete"} /\ j.row \in Row
<1>1. \A do, r : Order(do, r).do = do /\ Order(do, r).row = r  BY DEF Order
<1>2. \A x : Fit(x) => x = Order(x.do, x.row) /\ x.do \in Verb
  BY DEF Fit, Step, Order
<1>3. \A j \in Job : j = Order(j.do, j.row) /\ j.do \in {"save", "delete"} /\ j.row \in Row
  BY DEF Job, Order
<1>4. ASSUME NEW do, NEW r, NEW v, NEW s, Order(do, r) = Order(v, s) PROVE do = v /\ r = s
  BY <1>1, <1>4
<1> QED  BY <1>1, <1>2, <1>3, <1>4

LEMMA TodoFit ==
  ASSUME Base, NEW c \in Call
  PROVE  \A x \in Todo(c) : Fit(x)
  BY SoundFit DEF Base, Shape, Todo

----------------------------------------------------------------------------
(***************************************************************************)
(* The jobs.                                                               *)
(***************************************************************************)
LEMMA RowsOfJobs == JobRows = {j.row : j \in Jobs} /\ JobRows' = {j.row : j \in Jobs'}
  BY DEF JobRows, Jobs

LEMMA Appending ==
  ASSUME NEW S, NEW q \in Seq(S), NEW j \in S
  PROVE  Append(q, j) \in Seq(S) /\ Range(Append(q, j)) = Range(q) \cup {j}
<1>1. PICK r : r = Append(q, j)  OBVIOUS
<1>2. r \in Seq(S) /\ Len(q) \in Nat /\ Len(r) = Len(q) + 1 /\ r[Len(q) + 1] = j
      /\ \A m \in 1..Len(q) : r[m] = q[m]
  BY <1>1, LenProperties
<1>3. Range(q) = {q[m] : m \in 1..Len(q)} /\ Range(r) = {r[m] : m \in 1..Len(r)}  BY <1>2, Elements
<1>4. Range(r) \subseteq Range(q) \cup {j}  BY <1>2, <1>3
<1>5. Range(q) \subseteq Range(r)
  <2> SUFFICES ASSUME NEW m \in 1..Len(q) PROVE q[m] \in Range(r)  BY <1>3
  <2>1. m \in 1..Len(r) /\ r[m] = q[m]  BY <1>2
  <2> QED  BY <2>1, <1>3
<1>6. j \in Range(r)
  <2>1. Len(q) + 1 \in 1..Len(r)  BY <1>2
  <2> QED  BY <2>1, <1>2, <1>3
<1> QED  BY <1>1, <1>2, <1>4, <1>5, <1>6

\* The states of the worker, and what is a job.
LEMMA WorkerStates ==
  ASSUME Base
  PROVE  /\ queue \in Seq(Job \cup {Shutdown}) /\ Jobs \subseteq Job
         /\ Shutdown \notin Job /\ NoJob \notin Job /\ NoJob # Shutdown /\ Idle # Exited
         /\ Working => worker.job \in Job /\ worker.job \in Jobs
         /\ worker = Idle \/ worker = Exited => ~Working
<1>1. /\ queue \in Seq(Job \cup {Shutdown})
      /\ worker \in [job : Job \cup {NoJob, Shutdown}, attempt : 0..(MaxRetries - 1), found : BOOLEAN]
  BY DEF Base, TypeOK
<1>2. \A j \in Job : j.do \in {"save", "delete"}  BY DEF Job
<1>3. Shutdown \notin Job  BY <1>2 DEF Shutdown
<1>4. NoJob \notin Job /\ NoJob # Shutdown  BY LoopAssumption
<1>5. Idle.job = NoJob /\ Exited.job = Shutdown  BY DEF Idle, Exited
<1>6. Working => worker.job \in Job  BY <1>1 DEF Working
<1>7. Range(queue) \subseteq Job \cup {Shutdown}  BY <1>1, Elements
<1>8. Jobs \subseteq Job  BY <1>6, <1>7 DEF Jobs
<1>9. Working => worker.job \in Jobs  BY DEF Jobs
<1>10. worker = Idle \/ worker = Exited => ~Working  BY <1>5 DEF Working
<1> QED  BY <1>1, <1>3, <1>4, <1>5, <1>6, <1>8, <1>9, <1>10

LEMMA SameJobs ==
  ASSUME queue' = queue, worker' = worker
  PROVE  Jobs' = Jobs
  BY DEF Jobs, Working

LEMMA Enqueuing ==
  ASSUME Base, NEW j \in Job, queue' = Enqueue(j), worker' = worker
  PROVE  /\ queue' \in Seq(Job \cup {Shutdown})
         /\ Jobs' = IF worker = Exited THEN Jobs ELSE Jobs \cup {j}
<1>1. queue \in Seq(Job \cup {Shutdown}) /\ Shutdown \notin Job  BY WorkerStates
<1>2. CASE worker = Exited
  <2>1. queue' = queue  BY <1>2 DEF Enqueue
  <2> QED  BY <2>1, <1>1, <1>2, SameJobs
<1>3. CASE worker # Exited
  <2>1. queue' = Append(queue, j)  BY <1>3 DEF Enqueue
  <2>2. queue' \in Seq(Job \cup {Shutdown}) /\ Range(queue') = Range(queue) \cup {j}
    BY <2>1, <1>1, Appending
  <2>3. j # Shutdown  BY <1>1
  <2> QED  BY <2>2, <2>3, <1>3 DEF Jobs, Working
<1> QED  BY <1>2, <1>3

LEMMA Receiving ==
  ASSUME Base, Receive
  PROVE  /\ queue' \in Seq(Job \cup {Shutdown}) /\ Jobs' = Jobs
         /\ worker' = Exited \/ (worker' = [Idle EXCEPT !.job = Head(queue)] /\ Head(queue) \in Job /\ stray' = stray)
         /\ worker' = Exited => \A r : r \in stray' <=> r \in stray \/ r \in JobRows'
<1>1. PICK q, j : q = Tail(queue) /\ j = Head(queue)  OBVIOUS
<1>2. queue \in Seq(Job \cup {Shutdown}) /\ queue # <<>> /\ worker = Idle /\ queue' = q
  BY <1>1, WorkerStates DEF Receive
<1>3. q \in Seq(Job \cup {Shutdown}) /\ j \in Job \cup {Shutdown} /\ Range(queue) = {j} \cup Range(q)
  <2>1. Range(queue) \subseteq Job \cup {Shutdown}  BY <1>2, Elements
  <2>2. q \in Seq(Job \cup {Shutdown}) /\ Range(queue) = {j} \cup Range(q)  BY <1>1, <1>2, TailOf
  <2> QED  BY <2>1, <2>2
<1>4. Jobs = Range(queue) \ {Shutdown}  BY <1>2, WorkerStates DEF Jobs
<1>5. CASE j = Shutdown
  <2>1. worker' = Exited /\ stray' = stray \cup {k.row : k \in Range(q) \ {Shutdown}}
    BY <1>1, <1>5 DEF Receive
  <2>2. Jobs' = Range(q) \ {Shutdown}
    <3>1. Exited.job = Shutdown  BY DEF Exited
    <3> QED  BY <2>1, <1>2, <3>1 DEF Jobs, Working
  <2>3. Jobs' = Jobs  BY <2>2, <1>3, <1>4, <1>5
  <2>4. stray' = stray \cup JobRows'  BY <2>1, <2>2, RowsOfJobs
  <2> QED  BY <2>1, <2>3, <2>4, <1>2, <1>3
<1>6. CASE j # Shutdown
  <2>1. worker' = [Idle EXCEPT !.job = j] /\ stray' = stray  BY <1>1, <1>6 DEF Receive
  <2>2. worker'.job = j /\ j \in Job /\ worker' # Exited
    BY <2>1, <1>3, <1>6, WorkerStates DEF Idle, Exited
  <2>3. Jobs' = (Range(q) \ {Shutdown}) \cup {j}
    BY <2>2, <1>2, WorkerStates DEF Jobs, Working
  <2>4. Jobs' = Jobs  BY <2>3, <1>3, <1>4, <1>6
  <2> QED  BY <2>1, <2>2, <2>4, <1>1, <1>2, <1>3
<1> QED  BY <1>5, <1>6

\* The worker is done with its job.
LEMMA Finishing ==
  ASSUME Base, Working, queue' = queue, worker' = Idle
  PROVE  Jobs = Jobs' \cup {worker.job}
<1>1. Jobs' = Range(queue) \ {Shutdown}
  <2>1. Idle.job = NoJob  BY DEF Idle
  <2> QED  BY <2>1 DEF Jobs, Working
<1> QED  BY <1>1 DEF Jobs

\* The worker keeps it.
LEMMA Keeping ==
  ASSUME queue' = queue, worker'.job = worker.job
  PROVE  Jobs' = Jobs
  BY DEF Jobs, Working

LEMMA NoJobs ==
  ASSUME queue' = <<>>, worker' = Idle
  PROVE  Jobs' = {} /\ JobRows' = {}
<1>1. Idle.job = NoJob  BY DEF Idle
<1>2. Jobs' = {}  BY <1>1, SoundNone DEF Jobs, Working
<1> QED  BY <1>2, RowsOfJobs

LEMMA Flushing ==
  ASSUME Base, FlushQueue
  PROVE  queue' \in Seq(Job \cup {Shutdown}) /\ Jobs' = Jobs
<1>1. queue' = Append(queue, Shutdown) /\ worker' = worker  BY DEF FlushQueue
<1>2. queue' \in Seq(Job \cup {Shutdown}) /\ Range(queue') = Range(queue) \cup {Shutdown}
  BY <1>1, WorkerStates, Appending
<1> QED  BY <1>1, <1>2 DEF Jobs, Working

----------------------------------------------------------------------------
(***************************************************************************)
(* Types, programs and phases.                                             *)
(***************************************************************************)

\* A step of a call takes from what it has to do.
LEMMA CallOps ==
  ASSUME Base, NEW c \in Call, CallStep(c)
  PROVE  /\ OpsKept /\ \A d \in Call : Todo(d)' \subseteq Todo(d)
         /\ \E h : HeadIs(c, h) /\ h.do \in Verb
<1>1. ASSUME NEW do, Head1(c, do) PROVE \E h : HeadIs(c, h) /\ h.do \in Verb
  BY <1>1, HeadFacts, Orders DEF HeadIs
<1>2. PICK h : HeadIs(c, h) /\ h.do \in Verb
  BY <1>1 DEF CallStep, TakeToken, ParkToken, EditPending, EndToken, Terminate, SkipSave,
              Store, Storing, Forget, SweepRows, EraseInstance, PurgeEntries
<1>3. ASSUME Advance(c) PROVE OpsKept /\ \A d \in Call : Todo(d)' \subseteq Todo(d)
  BY <1>2, <1>3, Advancing DEF Advances, Others
<1>4. ASSUME Abort(c) PROVE OpsKept /\ \A d \in Call : Todo(d)' \subseteq Todo(d)
  BY <1>4, Aborting DEF Stops, Others
<1>5. ASSUME ops' = ops PROVE OpsKept /\ \A d \in Call : Todo(d)' \subseteq Todo(d)
  BY <1>5, SameOps
<1>6. ASSUME ops' = [ops EXCEPT ![c] = <<>>] PROVE OpsKept /\ \A d \in Call : Todo(d)' \subseteq Todo(d)
  BY <1>6, Emptying DEF Stops, Others
<1>7. ASSUME SkipSave(c) PROVE OpsKept /\ \A d \in Call : Todo(d)' \subseteq Todo(d)
  <2>1. CASE Advance(c)  BY <2>1, <1>3
  <2>2. CASE Head1(c, "fetch") /\ ops' = [ops EXCEPT ![c] = Tail(Tail(@))]
    <3>1. h.do = "fetch"  BY <2>2, <1>2 DEF HeadIs
    <3> QED  BY <3>1, <2>2, <1>2, Skipping DEF Stops, Others
  <2> QED  BY <1>7, <2>1, <2>2 DEF SkipSave
<1>8. Advance(c) \/ Abort(c) \/ ops' = ops \/ ops' = [ops EXCEPT ![c] = <<>>] \/ SkipSave(c)
  <2>1. CASE Store(c)
    BY <2>1 DEF Store
  <2>2. CASE EraseInstance(c)
    BY <2>2 DEF EraseInstance
  <2>3. CASE TakeToken(c) \/ ParkToken(c) \/ EndToken(c)
    BY <2>3 DEF TakeToken, ParkToken, EndToken
  <2>4. CASE EditPending(c) \/ Terminate(c) \/ Forget(c) \/ SweepRows(c) \/ PurgeEntries(c)
    BY <2>4 DEF EditPending, Terminate, Forget, SweepRows, PurgeEntries
  <2> QED  BY <2>1, <2>2, <2>3, <2>4 DEF CallStep
<1> QED  BY <1>2, <1>3, <1>4, <1>5, <1>6, <1>7, <1>8

MemTyped  == /\ live \subseteq Instance /\ closed \subseteq Instance
             /\ at \in [Token -> 0..Ended] /\ pending \subseteq Entry
DiskTyped == /\ saved \subseteq Instance /\ savedClosed \subseteq Instance
             /\ savedAt \in [Token -> 0..Ended] /\ rows \subseteq Entry
WorkTyped == /\ queue \in Seq(Job \cup {Shutdown})
             /\ worker \in [job : Job \cup {NoJob, Shutdown}, attempt : 0..(MaxRetries - 1), found : BOOLEAN]
ModeTyped == /\ running \in {"up", "draining", "flushing", "down", "crashed"} /\ sweeping \in BOOLEAN
             /\ failures \in 0..MaxFailures /\ crashes \in 0..MaxCrashes
PastTyped == stray \subseteq Row /\ exposed \subseteq Token
CallTyped == DOMAIN ops = Call /\ tries \in [Call -> 0..InlineRetries]

LEMMA TypeParts ==
  /\ TypeOK <=> MemTyped /\ DiskTyped /\ WorkTyped /\ ModeTyped /\ PastTyped /\ CallTyped
  /\ TypeOK' <=> MemTyped' /\ DiskTyped' /\ WorkTyped' /\ ModeTyped' /\ PastTyped' /\ CallTyped'
  BY DEF TypeOK, MemTyped, DiskTyped, WorkTyped, ModeTyped, PastTyped, CallTyped

LEMMA Frames ==
  /\ UNCHANGED memVars /\ MemTyped => MemTyped'
  /\ UNCHANGED diskVars /\ DiskTyped => DiskTyped'
  /\ UNCHANGED workVars /\ WorkTyped => WorkTyped'
  /\ UNCHANGED modeVars /\ UNCHANGED failures /\ ModeTyped => ModeTyped'
  /\ UNCHANGED ghostVars /\ PastTyped => PastTyped'
  /\ UNCHANGED callVars /\ CallTyped => CallTyped'
<1>1. UNCHANGED memVars /\ MemTyped => MemTyped'  BY DEF memVars, MemTyped
<1>2. UNCHANGED diskVars /\ DiskTyped => DiskTyped'  BY DEF diskVars, DiskTyped
<1>3. UNCHANGED workVars /\ WorkTyped => WorkTyped'  BY DEF workVars, WorkTyped
<1>4. UNCHANGED modeVars /\ UNCHANGED failures /\ ModeTyped => ModeTyped'  BY DEF modeVars, ModeTyped
<1>5. UNCHANGED ghostVars /\ PastTyped => PastTyped'  BY DEF ghostVars, PastTyped
<1>6. UNCHANGED callVars /\ CallTyped => CallTyped'  BY DEF callVars, CallTyped
<1> QED  BY <1>1, <1>2, <1>3, <1>4, <1>5, <1>6

LEMMA WriteTyped ==
  ASSUME MemTyped, DiskTyped, NEW do, NEW r \in Row, Write(do, r)
  PROVE  DiskTyped'
<1>1. CASE r \in Instance
  <2>1. WriteInstance(do, r)  BY <1>1 DEF Write
  <2>2. saved' \subseteq Instance /\ savedClosed' \subseteq Instance /\ rows' = rows
    BY <2>1, <1>1 DEF WriteInstance, DiskTyped, MemTyped
  <2>3. savedAt' \in [Token -> 0..Ended]
    BY <2>1 DEF WriteInstance, DiskTyped, MemTyped
  <2> QED  BY <2>2, <2>3 DEF DiskTyped
<1>2. CASE r \notin Instance
  <2>1. WriteEntry(do, r) /\ r \in Entry  BY <1>2 DEF Write, Row
  <2> QED  BY <2>1 DEF WriteEntry, DiskTyped
<1> QED  BY <1>1, <1>2

LEMMA FailTyped ==
  ASSUME MemTyped, DiskTyped, ModeTyped, NEW do, NEW r \in Row, WriteFails(do, r)
  PROVE  DiskTyped' /\ failures' \in 0..MaxFailures
<1>1. DiskTyped'
  <2>1. Write(do, r) \/ UNCHANGED diskVars  BY DEF WriteFails
  <2> QED  BY <2>1, WriteTyped, Frames
<1>2. failures' = failures + 1 /\ failures < MaxFailures /\ failures \in Nat /\ MaxFailures \in Nat
  BY BoundsAssumption DEF WriteFails, ModeTyped
<1> QED  BY <1>1, <1>2

\* What a step of a call leaves typed.
LEMMA CallWorks ==
  ASSUME Base, NEW c \in Call
  PROVE  /\ MemTyped /\ DiskTyped /\ WorkTyped /\ ModeTyped /\ PastTyped /\ CallTyped
         /\ CallStep(c) => DOMAIN ops' = Call
         /\ Advance(c) /\ CallStep(c) => CallTyped'
         /\ Abort(c) /\ CallStep(c) => CallTyped'
         /\ Abort(c) => PastTyped'
<1>1. MemTyped /\ DiskTyped /\ WorkTyped /\ ModeTyped /\ PastTyped /\ CallTyped
  BY TypeParts DEF Base
<1>2. CallStep(c) => DOMAIN ops' = Call  BY CallOps DEF OpsKept
<1>3. 0 \in 0..InlineRetries  BY RetryAssumption
<1>4. Advance(c) \/ Abort(c) => tries' = [tries EXCEPT ![c] = 0]  BY DEF Advance, Abort
<1>5. Advance(c) \/ Abort(c) => tries' \in [Call -> 0..InlineRetries]  BY <1>1, <1>3, <1>4 DEF CallTyped
<1>6. ASSUME Abort(c) PROVE PastTyped'
  <2>1. ASSUME NEW x \in Todo(c), x.do = "delete" PROVE x.row \in Row
    <3>1. Fit(x)  BY <2>1, TodoFit
    <3> QED  BY <3>1, <2>1 DEF Fit, EntryVerb, ClearVerb, Row
  <2>2. stray' = stray \cup {o.row : o \in {p \in Todo(c) : p.do = "delete"}} /\ exposed' = exposed
    BY <1>6 DEF Abort, Todo
  <2> QED  BY <2>1, <2>2, <1>1 DEF PastTyped
<1> QED  BY <1>1, <1>2, <1>5, <1>6 DEF CallTyped

\* The head of a call's program, and the row it is about.
LEMMA HeadOf ==
  ASSUME Base, NEW c \in Call, NEW do, Head1(c, do)
  PROVE  /\ \E h : HeadIs(c, h) /\ h.do = do /\ h = Order(do, h.row) /\ do \in Verb /\ RowOf(c) = h.row
         /\ do \in EntryVerb => RowOf(c) \in Entry
         /\ do \in {"end", "terminate"} => RowOf(c) \in Token
         /\ do \in KeepVerb \cup WipeVerb => RowOf(c) \in Instance
<1>1. PICK h : HeadIs(c, h)  BY HeadFacts
<1>2. h.do = do /\ RowOf(c) = h.row /\ Fit(h)  BY <1>1 DEF HeadIs
<1>3. h = Order(do, h.row) /\ do \in Verb  BY <1>2, Orders
<1> QED  BY <1>1, <1>2, <1>3 DEF Fit

LEMMA TokenTypes ==
  ASSUME Base, NEW c \in Call, CallStep(c), TakeToken(c) \/ ParkToken(c) \/ EndToken(c) \/ Terminate(c)
  PROVE  TypeOK'
<1>1. /\ MemTyped /\ DiskTyped /\ WorkTyped /\ ModeTyped /\ PastTyped /\ CallTyped
      /\ Advance(c) \/ Abort(c) => CallTyped'
      /\ Abort(c) => PastTyped' /\ MemTyped'
  BY CallWorks, Frames DEF Abort
<1>2. UNCHANGED diskVars /\ UNCHANGED workVars /\ UNCHANGED modeVars /\ UNCHANGED failures
  BY DEF TakeToken, ParkToken, EndToken, Terminate
<1>3. DiskTyped' /\ WorkTyped' /\ ModeTyped'  BY <1>1, <1>2, Frames
<1>4. 0 \in 0..Ended /\ Ended \in 0..Ended /\ Wait \subseteq 0..Ended  BY Names
<1>5. ASSUME NEW t \in Token, NEW n \in 0..Ended, at' = [at EXCEPT ![t] = n],
             live' = live, closed' \subseteq closed \cup {InstOf[t]}, pending' \subseteq pending
      PROVE  MemTyped'
  <2>1. at' \in [Token -> 0..Ended]  BY <1>1, <1>5 DEF MemTyped
  <2>2. InstOf[t] \in Instance  BY Names
  <2>3. live' \subseteq Instance /\ closed' \subseteq Instance /\ pending' \subseteq Entry
    BY <2>2, <1>1, <1>5 DEF MemTyped
  <2> QED  BY <2>1, <2>3 DEF MemTyped
<1>6. CASE Abort(c)  BY <1>1, <1>3, <1>6, TypeParts
<1>7. CASE TakeToken(c) /\ ~Abort(c)
  <2>1. PICK e \in Entry : e = RowOf(c)  BY <1>7, HeadOf DEF TakeToken, EntryVerb
  <2>2. /\ at' = [at EXCEPT ![e[1]] = Nowhere] /\ closed' = closed \ {InstOf[e[1]]}
        /\ Advance(c) /\ UNCHANGED <<live, pending, ghostVars>>
    BY <2>1, <1>7 DEF TakeToken
  <2>3. MemTyped'  BY <2>2, <1>4, <1>5, Entries DEF Nowhere
  <2> QED  BY <2>2, <2>3, <1>1, <1>3, Frames, TypeParts
<1>8. CASE ParkToken(c) /\ ~Abort(c)
  <2>1. PICK e \in Entry : e = RowOf(c)  BY <1>8, HeadOf DEF ParkToken, EntryVerb, MakeVerb
  <2>2. /\ at' = [at EXCEPT ![e[1]] = e[2]]
        /\ Advance(c) /\ UNCHANGED <<live, closed, pending, ghostVars>>
    BY <2>1, <1>8 DEF ParkToken
  <2>3. e[1] \in Token /\ e[2] \in 0..Ended  BY <1>4, Entries
  <2>4. MemTyped'  BY <2>2, <2>3, <1>5
  <2> QED  BY <2>2, <2>4, <1>1, <1>3, Frames, TypeParts
<1>9. CASE EndToken(c) /\ ~Abort(c)
  <2>1. PICK t \in Token : t = RowOf(c)  BY <1>9, HeadOf DEF EndToken
  <2>2. /\ at' = [at EXCEPT ![t] = Ended] /\ closed' \subseteq closed \cup {InstOf[t]}
        /\ Advance(c) /\ UNCHANGED <<live, pending, ghostVars>>
    BY <2>1, <1>9 DEF EndToken
  <2>3. MemTyped'  BY <2>2, <1>4, <1>5
  <2> QED  BY <2>2, <2>3, <1>1, <1>3, Frames, TypeParts
<1>10. CASE Terminate(c)
  <2>1. PICK t \in Token : t = RowOf(c)  BY <1>10, HeadOf DEF Terminate
  <2>2. /\ at' = [at EXCEPT ![t] = Ended] /\ closed' = closed \cup {InstOf[t]}
        /\ Advance(c) /\ live' = live /\ pending' = pending \ EntriesOf(InstOf[t])
        /\ stray' = stray \cup (pending \cap EntriesOf(InstOf[t]))
        /\ exposed' = exposed \cup TokensOf(InstOf[t])
    BY <2>1, <1>10 DEF Terminate
  <2>3. MemTyped'  BY <2>2, <1>4, <1>5
  <2>4. PastTyped'  BY <2>2, <1>1 DEF PastTyped, EntriesOf, TokensOf, Row
  <2> QED  BY <2>2, <2>3, <2>4, <1>1, <1>3, TypeParts
<1> QED  BY <1>6, <1>7, <1>8, <1>9, <1>10

LEMMA StoreTypes ==
  ASSUME Base, NEW c \in Call, CallStep(c), Store(c)
  PROVE  TypeOK'
<1>1. /\ MemTyped /\ DiskTyped /\ WorkTyped /\ ModeTyped /\ PastTyped /\ CallTyped
      /\ Advance(c) => CallTyped'
  BY CallWorks
<1>2. PICK do, r : do = Head(ops[c]).do /\ r = RowOf(c)  OBVIOUS
<1>3. do \in {"delete", "save", "write"} /\ Head1(c, do) /\ UNCHANGED memVars /\ UNCHANGED modeVars
  BY <1>2 DEF Store, Storing, Head1
<1>4. r \in Row
  BY <1>2, <1>3, HeadOf DEF Row, EntryVerb, MakeVerb, ClearVerb, KeepVerb
<1>5. MemTyped'  BY <1>1, <1>3, Frames
<1>6. KindOf(do) \in {"save", "delete"} /\ Order(KindOf(do), r) \in Job
  BY <1>4 DEF KindOf, Job, Order
<1>7. Astray(do, r) \subseteq {r}  BY DEF Astray
<1>8. CASE Write(KindOf(do), r) /\ Advance(c) /\ stray' = stray \cup Astray(do, r) /\ UNCHANGED <<workVars, failures, exposed>>
  <2>1. DiskTyped' /\ WorkTyped' /\ ModeTyped'
    BY <1>1, <1>3, <1>4, <1>8, WriteTyped, Frames
  <2>2. PastTyped'  BY <1>1, <1>4, <1>7, <1>8 DEF PastTyped
  <2> QED  BY <2>1, <2>2, <1>1, <1>5, <1>8, TypeParts
<1>9. CASE /\ WriteFails(KindOf(do), r) /\ RetriesLeft(c) /\ tries' = [tries EXCEPT ![c] = @ + 1]
           /\ stray' = stray \cup Astray(do, r) /\ UNCHANGED <<ops, workVars, exposed>>
  <2>1. DiskTyped' /\ failures' \in 0..MaxFailures  BY <1>1, <1>4, <1>9, FailTyped
  <2>2. WorkTyped'  BY <1>1, <1>9, Frames
  <2>3. ModeTyped'  BY <2>1, <1>1, <1>3 DEF ModeTyped, modeVars
  <2>4. PastTyped'  BY <1>1, <1>4, <1>7, <1>9 DEF PastTyped
  <2>5. CallTyped'
    <3>1. tries[c] + 1 \in 0..InlineRetries
      BY <1>1, <1>9, RetryAssumption DEF RetriesLeft, CallTyped
    <3> QED  BY <3>1, <1>1, <1>9 DEF CallTyped
  <2> QED  BY <2>1, <2>2, <2>3, <2>4, <2>5, <1>5, TypeParts
<1>10. CASE /\ WriteFails(KindOf(do), r) /\ Advance(c) /\ queue' = Enqueue(Order(KindOf(do), r))
            /\ stray' = stray \cup Astray(do, r) \cup (IF worker = Exited THEN {r} ELSE {})
            /\ UNCHANGED <<worker, exposed>>
  <2>1. DiskTyped' /\ failures' \in 0..MaxFailures  BY <1>1, <1>4, <1>10, FailTyped
  <2>2. queue' \in Seq(Job \cup {Shutdown})  BY <1>6, <1>10, Enqueuing
  <2>3. WorkTyped'  BY <2>2, <1>1, <1>10 DEF WorkTyped
  <2>4. ModeTyped'  BY <2>1, <1>1, <1>3 DEF ModeTyped, modeVars
  <2>5. PastTyped'  BY <1>1, <1>4, <1>7, <1>10 DEF PastTyped
  <2> QED  BY <2>1, <2>3, <2>4, <2>5, <1>1, <1>5, <1>10, TypeParts
<1> QED  BY <1>2, <1>8, <1>9, <1>10 DEF Store

LEMMA RowTypes ==
  ASSUME Base, NEW c \in Call, CallStep(c),
         EditPending(c) \/ SkipSave(c) \/ Forget(c) \/ SweepRows(c) \/ EraseInstance(c) \/ PurgeEntries(c)
  PROVE  TypeOK'
<1>1. /\ MemTyped /\ DiskTyped /\ WorkTyped /\ ModeTyped /\ PastTyped /\ CallTyped
      /\ Advance(c) => CallTyped'
      /\ DOMAIN ops' = Call
  BY CallWorks
<1>2. UNCHANGED workVars /\ UNCHANGED modeVars
  BY DEF EditPending, SkipSave, Forget, SweepRows, EraseInstance, PurgeEntries
<1>3. WorkTyped'  BY <1>1, <1>2, Frames
<1>4. CASE EditPending(c)
  <2>1. RowOf(c) \in Entry  BY <1>4, HeadOf DEF EditPending, EntryVerb, MakeVerb, ClearVerb
  <2>2. /\ UNCHANGED diskVars /\ UNCHANGED failures /\ UNCHANGED ghostVars /\ Advance(c)
        /\ live' = live /\ at' = at /\ closed' = closed /\ pending' \subseteq pending \cup {RowOf(c)}
    BY <1>4 DEF EditPending
  <2>3. MemTyped'  BY <2>1, <2>2, <1>1 DEF MemTyped
  <2> QED  BY <2>2, <2>3, <1>1, <1>2, <1>3, Frames, TypeParts
<1>5. CASE SkipSave(c)
  <2>1. UNCHANGED memVars /\ UNCHANGED diskVars /\ UNCHANGED failures /\ UNCHANGED ghostVars
    BY <1>5 DEF SkipSave
  <2>2. CallTyped'
    <3>1. Advance(c) \/ tries' = tries  BY <1>5 DEF SkipSave
    <3> QED  BY <3>1, <1>1 DEF CallTyped
  <2> QED  BY <2>1, <2>2, <1>1, <1>2, <1>3, Frames, TypeParts
<1>6. CASE Forget(c)
  <2>1. RowOf(c) \in Entry  BY <1>6, HeadOf DEF Forget, EntryVerb, ClearVerb
  <2>2. RowOf(c) \in Row  BY <2>1 DEF Row
  <2>3. /\ UNCHANGED memVars /\ exposed' = exposed /\ Advance(c)
        /\ \/ Write("delete", RowOf(c)) /\ failures' = failures /\ stray' = stray
           \/ WriteFails("delete", RowOf(c)) /\ stray' = stray \cup {RowOf(c)}
    BY <1>6 DEF Forget
  <2>4. DiskTyped' /\ failures' \in 0..MaxFailures
    BY <2>2, <2>3, <1>1, WriteTyped, FailTyped DEF ModeTyped
  <2>5. PastTyped'  BY <2>2, <2>3, <1>1 DEF PastTyped
  <2>6. ModeTyped'  BY <2>4, <1>1, <1>2 DEF ModeTyped, modeVars
  <2> QED  BY <2>3, <2>4, <2>5, <2>6, <1>1, <1>3, Frames, TypeParts
<1>7. CASE SweepRows(c)
  <2>1. /\ UNCHANGED memVars /\ exposed' = exposed /\ Advance(c)
        /\ saved' = saved /\ savedAt' = savedAt /\ savedClosed' = savedClosed
        /\ rows' \subseteq rows /\ stray' \subseteq stray \cup pending
        /\ failures' = failures \/ (failures < MaxFailures /\ failures' = failures + 1)
    BY <1>7 DEF SweepRows
  <2>2. DiskTyped'  BY <2>1, <1>1 DEF DiskTyped
  <2>3. PastTyped'  BY <2>1, <1>1 DEF PastTyped, MemTyped, Row
  <2>4. failures' \in 0..MaxFailures  BY <2>1, <1>1, BoundsAssumption DEF ModeTyped
  <2>5. ModeTyped'  BY <2>4, <1>1, <1>2 DEF ModeTyped, modeVars
  <2> QED  BY <2>1, <2>2, <2>3, <2>5, <1>1, <1>3, Frames, TypeParts
<1>8. CASE EraseInstance(c)
  <2>1. RowOf(c) \in Instance  BY <1>8, HeadOf DEF EraseInstance, WipeVerb
  <2>2. RowOf(c) \in Row  BY <2>1 DEF Row
  <2>3. /\ UNCHANGED memVars /\ exposed' = exposed
        /\ Advance(c) \/ tries' = tries
        /\ \/ Write("delete", RowOf(c)) /\ failures' = failures /\ stray' = stray
           \/ WriteFails("delete", RowOf(c)) /\ stray' = stray \cup {RowOf(c)} \cup EntriesOf(RowOf(c))
    BY <1>8 DEF EraseInstance
  <2>4. DiskTyped' /\ failures' \in 0..MaxFailures
    BY <2>2, <2>3, <1>1, WriteTyped, FailTyped DEF ModeTyped
  <2>5. PastTyped'  BY <2>2, <2>3, <1>1 DEF PastTyped, EntriesOf, Row
  <2>6. ModeTyped'  BY <2>4, <1>1, <1>2 DEF ModeTyped, modeVars
  <2>7. CallTyped'  BY <2>3, <1>1 DEF CallTyped
  <2> QED  BY <2>3, <2>4, <2>5, <2>6, <2>7, <1>1, <1>3, Frames, TypeParts
<1>9. CASE PurgeEntries(c)
  <2>1. /\ UNCHANGED diskVars /\ UNCHANGED failures /\ exposed' = exposed /\ Advance(c)
        /\ live' = live /\ at' = at /\ closed' = closed /\ pending' \subseteq pending
        /\ stray' \subseteq stray \cup pending
    BY <1>9 DEF PurgeEntries
  <2>2. MemTyped'  BY <2>1, <1>1 DEF MemTyped
  <2>3. PastTyped'  BY <2>1, <1>1 DEF PastTyped, MemTyped, Row
  <2> QED  BY <2>1, <2>2, <2>3, <1>1, <1>2, <1>3, Frames, TypeParts
<1> QED  BY <1>4, <1>5, <1>6, <1>7, <1>8, <1>9

LEMMA RowsTyped ==
  ASSUME Base
  PROVE  JobRows \subseteq Row /\ \A j \in Jobs : j \in Job /\ j.row \in Row
  BY WorkerStates, RowsOfJobs, Orders

LEMMA WorkerTypes ==
  ASSUME Base, WorkerStep
  PROVE  TypeOK'
<1>1. /\ MemTyped /\ DiskTyped /\ WorkTyped /\ ModeTyped /\ PastTyped /\ CallTyped
  BY TypeParts DEF Base
<1>2. UNCHANGED memVars /\ UNCHANGED callVars /\ UNCHANGED modeVars /\ exposed' = exposed
  BY DEF WorkerStep, Receive, SkipJob, FindInstance, ExecuteJob, ghostVars
<1>3. MemTyped' /\ CallTyped'  BY <1>1, <1>2, Frames
<1>4. 0 \in 0..(MaxRetries - 1) /\ Idle = [job |-> NoJob, attempt |-> 0, found |-> FALSE]
  BY RetryAssumption DEF Idle
<1>5. Exited = [job |-> Shutdown, attempt |-> 0, found |-> FALSE]  BY DEF Exited
<1>w. WorkTyped <=> /\ queue \in Seq(Job \cup {Shutdown})
                    /\ worker \in [job : Job \cup {NoJob, Shutdown}, attempt : 0..(MaxRetries - 1), found : BOOLEAN]
  BY DEF WorkTyped
<1>v. Idle \in [job : Job \cup {NoJob, Shutdown}, attempt : 0..(MaxRetries - 1), found : BOOLEAN]
  BY <1>4
<1>6. CASE Receive
  <2>1. /\ queue' \in Seq(Job \cup {Shutdown})
        /\ worker' = Exited \/ (worker' = [Idle EXCEPT !.job = Head(queue)] /\ Head(queue) \in Job)
    BY <1>6, Receiving
  <2>2. WorkTyped'
    <3>1. PICK j : j = Head(queue)  OBVIOUS
    <3>2. worker' = Exited \/ (worker' = [job |-> j, attempt |-> 0, found |-> FALSE] /\ j \in Job)
      BY <2>1, <1>4, <3>1
    <3>3. Exited \in [job : Job \cup {NoJob, Shutdown}, attempt : 0..(MaxRetries - 1), found : BOOLEAN]
      BY <1>4, <1>5
    <3>4. worker' \in [job : Job \cup {NoJob, Shutdown}, attempt : 0..(MaxRetries - 1), found : BOOLEAN]
      <4>1. CASE worker' = Exited  BY <4>1, <3>3
      <4>2. CASE worker' = [job |-> j, attempt |-> 0, found |-> FALSE] /\ j \in Job
        <5>1. [job |-> j, attempt |-> 0, found |-> FALSE] \in
                [job : Job \cup {NoJob, Shutdown}, attempt : 0..(MaxRetries - 1), found : BOOLEAN]
          BY <4>2, <1>4
        <5> QED  BY <5>1, <4>2
      <4> QED  BY <4>1, <4>2, <3>2
    <3> QED  BY <3>4, <2>1 DEF WorkTyped
  <2>3. stray' \subseteq stray \cup {j.row : j \in Jobs'}
    <3>1. CASE worker' = Exited
      BY <3>1, <1>6, Receiving, RowsOfJobs
    <3>2. CASE worker' # Exited
      BY <3>2, <1>6, Receiving
    <3> QED  BY <3>1, <3>2
  <2>4. stray' \subseteq Row
    BY <2>3, <1>1, <1>6, Receiving, RowsTyped DEF PastTyped
  <2>5. PastTyped'  BY <2>4, <1>1, <1>2 DEF PastTyped
  <2>6. UNCHANGED diskVars /\ UNCHANGED failures  BY <1>6 DEF Receive
  <2> QED  BY <2>2, <2>5, <2>6, <1>1, <1>2, <1>3, Frames, TypeParts
<1>7. CASE SkipJob \/ FindInstance
  <2>1. /\ UNCHANGED diskVars /\ UNCHANGED failures /\ UNCHANGED ghostVars
        /\ queue' = queue /\ (worker' = Idle \/ worker' = [worker EXCEPT !.found = TRUE])
    BY <1>7 DEF SkipJob, FindInstance
  <2>2. WorkTyped'  BY <2>1, <1>1, <1>w, <1>v DEF WorkTyped
  <2> QED  BY <2>1, <2>2, <1>1, <1>2, <1>3, Frames, TypeParts
<1>8. CASE ExecuteJob
  <2>1. PICK do, r : do = worker.job.do /\ r = worker.job.row  OBVIOUS
  <2>2. r \in Row  BY <2>1, <1>8, WorkerStates, RowsTyped DEF ExecuteJob
  <2>3. /\ queue' = queue
        /\ stray' \subseteq stray \cup {r}
        /\ \/ Write(do, r) /\ worker' = Idle /\ failures' = failures
           \/ /\ WriteFails(do, r)
              /\ \/ /\ worker.attempt + 1 < MaxRetries
                    /\ worker' = [worker EXCEPT !.attempt = @ + 1, !.found = FALSE]
                 \/ worker' = Idle
    BY <2>1, <1>8 DEF ExecuteJob
  <2>4. DiskTyped' /\ failures' \in 0..MaxFailures
    BY <2>2, <2>3, <1>1, WriteTyped, FailTyped DEF ModeTyped
  <2>5. WorkTyped'
    <3>1. CASE worker' = Idle  BY <3>1, <2>3, <1>1, <1>v DEF WorkTyped
    <3>2. CASE worker.attempt + 1 < MaxRetries /\ worker' = [worker EXCEPT !.attempt = @ + 1, !.found = FALSE]
      <4>1. worker.attempt + 1 \in 0..(MaxRetries - 1)  BY <3>2, <1>1, RetryAssumption DEF WorkTyped
      <4> QED  BY <4>1, <3>2, <2>3, <1>1 DEF WorkTyped
    <3> QED  BY <3>1, <3>2, <2>3
  <2>6. PastTyped'  BY <2>2, <2>3, <1>1, <1>2 DEF PastTyped
  <2>7. ModeTyped'  BY <2>4, <1>1, <1>2 DEF ModeTyped, modeVars
  <2> QED  BY <2>4, <2>5, <2>6, <2>7, <1>3, TypeParts
<1> QED  BY <1>6, <1>7, <1>8 DEF WorkerStep

LEMMA ModeTypes ==
  ASSUME Base, Signal \/ EndSweep \/ FlushQueue \/ Stop
  PROVE  TypeOK'
<1>1. /\ MemTyped /\ DiskTyped /\ WorkTyped /\ ModeTyped /\ PastTyped /\ CallTyped
  BY TypeParts DEF Base
<1>2. /\ UNCHANGED memVars /\ UNCHANGED diskVars /\ UNCHANGED callVars /\ UNCHANGED ghostVars
      /\ failures' = failures
  BY DEF Signal, EndSweep, FlushQueue, Stop
<1>3. MemTyped' /\ DiskTyped' /\ CallTyped' /\ PastTyped'  BY <1>1, <1>2, Frames
<1>4. WorkTyped'
  <2>1. CASE FlushQueue
    <3>1. queue' \in Seq(Job \cup {Shutdown}) /\ worker' = worker
      BY <2>1, Flushing DEF FlushQueue
    <3> QED  BY <3>1, <1>1 DEF WorkTyped
  <2>2. CASE ~FlushQueue
    <3>1. UNCHANGED workVars  BY <2>2 DEF Signal, EndSweep, Stop
    <3> QED  BY <3>1, <1>1, Frames
  <2> QED  BY <2>1, <2>2
<1>5. ModeTyped'
  <2>1. /\ running' \in {running, "draining", "flushing", "down"}
        /\ sweeping' = sweeping \/ sweeping' = FALSE
        /\ crashes' = crashes \/ (crashes < MaxCrashes /\ crashes' = crashes + 1)
    BY DEF Signal, EndSweep, FlushQueue, Stop
  <2>2. crashes' \in 0..MaxCrashes  BY <2>1, <1>1, BoundsAssumption DEF ModeTyped
  <2> QED  BY <2>1, <2>2, <1>1, <1>2 DEF ModeTyped
<1> QED  BY <1>3, <1>4, <1>5, TypeParts

LEMMA BootTypes ==
  ASSUME Base, Crash \/ Restore
  PROVE  TypeOK'
<1>1. /\ MemTyped /\ DiskTyped /\ WorkTyped /\ ModeTyped /\ PastTyped /\ CallTyped
  BY TypeParts DEF Base
<1>2. UNCHANGED diskVars /\ queue' = <<>> /\ worker' = Idle  BY DEF Crash, Restore
<1>3. DiskTyped' /\ WorkTyped'
  <2>1. Idle \in [job : Job \cup {NoJob, Shutdown}, attempt : 0..(MaxRetries - 1), found : BOOLEAN]
    BY RetryAssumption DEF Idle
  <2>2. <<>> \in Seq(Job \cup {Shutdown})  BY EmptySeq
  <2> QED  BY <2>1, <2>2, <1>1, <1>2, Frames DEF WorkTyped
<1>4. CASE Crash
  <2>1. UNCHANGED memVars /\ failures' = failures  BY <1>4 DEF Crash
  <2>2. CallTyped'  BY <1>4, RetryAssumption DEF Crash, CallTyped
  <2>3. /\ stray' = stray \cup JobRows /\ exposed' \subseteq exposed \cup Token
    BY <1>4 DEF Crash
  <2>4. PastTyped'  BY <2>3, <1>1, RowsTyped DEF PastTyped
  <2>5. /\ running' = "crashed" /\ sweeping' = FALSE /\ crashes < MaxCrashes /\ crashes' = crashes + 1
    BY <1>4 DEF Crash
  <2>6. ModeTyped'
    <3>1. crashes' \in 0..MaxCrashes  BY <2>5, <1>1, BoundsAssumption DEF ModeTyped
    <3> QED  BY <3>1, <2>1, <2>5, <1>1 DEF ModeTyped
  <2> QED  BY <2>1, <2>2, <2>4, <2>6, <1>1, <1>3, Frames, TypeParts
<1>5. CASE Restore
  <2>1. /\ UNCHANGED callVars /\ running' = "up" /\ sweeping' = TRUE /\ crashes' = crashes
    BY <1>5 DEF Restore
  <2>2. /\ live' \subseteq saved /\ at' = savedAt /\ closed' = savedClosed /\ pending' \subseteq rows
    BY <1>5 DEF Restore, LoadRows
  <2>3. MemTyped'  BY <2>2, <1>1 DEF MemTyped, DiskTyped
  <2>4. /\ stray' \subseteq stray \cup saved \cup rows /\ exposed' \subseteq exposed \cup Token
        /\ failures' = failures \/ (failures < MaxFailures /\ failures' = failures + 1)
    BY <1>5 DEF Restore
  <2>5. PastTyped'  BY <2>4, <1>1 DEF PastTyped, DiskTyped, Row
  <2>6. failures' \in 0..MaxFailures  BY <2>4, <1>1, BoundsAssumption DEF ModeTyped
  <2>7. ModeTyped'  BY <2>1, <2>6, <1>1 DEF ModeTyped
  <2> QED  BY <2>1, <2>3, <2>5, <2>7, <1>1, <1>3, Frames, TypeParts
<1> QED  BY <1>4, <1>5

\* What Complete and DeleteInstance begin.
LEMMA CompleteBegins ==
  ASSUME Base, NEW c \in Call, NEW e \in Entry, Complete(c, e)
  PROVE  \E k \in Copy : /\ New(e[1], e[2] + 1, k) /\ Begin(c, Program(e, k))
                         /\ Sound(Program(e, k)) /\ Leading(e, k, Range(Program(e, k)))
                         /\ Leaves(e, Range(Program(e, k)))
<1>1. PICK k \in Copy : New(e[1], e[2] + 1, k) /\ Begin(c, Program(e, k))  BY DEF Complete
<1>2. e \in pending  BY DEF Complete
<1>3. KeptFit(e)  BY DEF Base, Shape
<1>4. e[3] \in Parts(e[2])  BY <1>2, <1>3 DEF KeptFit
<1> QED  BY <1>1, <1>4, ProgramSound

LEMMA BeginTypes ==
  ASSUME Base, NEW c \in Call,
         (\E e \in Entry : Complete(c, e)) \/ \E i \in Instance : DeleteInstance(c, i)
  PROVE  TypeOK'
<1>1. /\ MemTyped /\ DiskTyped /\ WorkTyped /\ ModeTyped /\ PastTyped /\ CallTyped
  BY TypeParts DEF Base
<1>2. PICK p : Begin(c, p)  BY DEF Complete, DeleteInstance
<1>3. /\ UNCHANGED diskVars /\ UNCHANGED workVars /\ UNCHANGED modeVars /\ failures' = failures
      /\ UNCHANGED ghostVars /\ tries' = tries /\ ops' = [ops EXCEPT ![c] = p]
  BY <1>2 DEF Begin
<1>4. /\ live' \subseteq live /\ pending' \subseteq pending /\ at' = at /\ closed' = closed
  BY DEF Complete, DeleteInstance
<1>5. MemTyped'  BY <1>1, <1>4 DEF MemTyped
<1>6. CallTyped'  BY <1>1, <1>3 DEF CallTyped
<1> QED  BY <1>1, <1>3, <1>5, <1>6, Frames, TypeParts

LEMMA TypeNext ==
  ASSUME Base, Next
  PROVE  TypeOK'
<1>1. ASSUME NEW c \in Call, CallStep(c) PROVE TypeOK'
  BY <1>1, TokenTypes, StoreTypes, RowTypes DEF CallStep
<1> QED  BY <1>1, BeginTypes, WorkerTypes, ModeTypes, BootTypes DEF Next

\* What a write does to the rows.
LEMMA WriteRows ==
  ASSUME NEW do \in {"save", "delete"}, NEW r \in Row, Write(do, r) \/ WriteFails(do, r)
  PROVE  /\ \A e \in Entry : /\ e \in rows' => e \in rows \/ (e = r /\ do = "save")
                             /\ e \in rows => e \in rows' \/ (e = r /\ do = "delete")
         /\ Write(do, r) /\ r \in Entry => (r \in rows' <=> do = "save")
         /\ r \in Instance => rows' = rows
         /\ r \in Entry => saved' = saved /\ savedAt' = savedAt /\ savedClosed' = savedClosed
<1>1. CASE Write(do, r) /\ r \in Instance
  BY <1>1, Names DEF Write, WriteInstance
<1>2. CASE Write(do, r) /\ r \in Entry
  BY <1>2, Names DEF Write, WriteEntry
<1>3. CASE UNCHANGED diskVars /\ ~Write(do, r)
  BY <1>3 DEF diskVars
<1>4. r \in Instance \/ r \in Entry  BY DEF Row
<1>5. WriteFails(do, r) => Write(do, r) \/ UNCHANGED diskVars  BY DEF WriteFails
<1> QED  BY <1>1, <1>2, <1>3, <1>4, <1>5

\* Only the last failure of a store call makes a job.
LEMMA CallJobs ==
  ASSUME Base, NEW c \in Call, CallStep(c)
  PROVE  /\ worker' = worker /\ stray \subseteq stray' /\ exposed \subseteq exposed'
         /\ running' = running /\ sweeping' = sweeping
         /\ \/ Jobs' = Jobs
            \/ /\ Store(c) /\ Advance(c) /\ WriteFails(KindOf(Head(ops[c]).do), RowOf(c))
               /\ queue' = Enqueue(Order(KindOf(Head(ops[c]).do), RowOf(c)))
               /\ Order(KindOf(Head(ops[c]).do), RowOf(c)) \in Job
               /\ worker # Exited /\ Jobs' = Jobs \cup {Order(KindOf(Head(ops[c]).do), RowOf(c))}
<1>1. running' = running /\ sweeping' = sweeping
  BY DEF CallStep, TakeToken, ParkToken, EditPending, EndToken, Terminate, SkipSave, Store, Forget,
         SweepRows, EraseInstance, PurgeEntries, modeVars
<1>2. CASE ~Store(c)
  <2>1. TakeToken(c) \/ ParkToken(c) \/ EndToken(c) => stray \subseteq stray' /\ exposed \subseteq exposed'
    BY DEF TakeToken, ParkToken, EndToken, Abort, ghostVars
  <2>2. EditPending(c) \/ SkipSave(c) => stray \subseteq stray' /\ exposed \subseteq exposed'
    BY DEF EditPending, SkipSave, ghostVars
  <2>3. Terminate(c) \/ Forget(c) \/ SweepRows(c) \/ EraseInstance(c) \/ PurgeEntries(c)
          => stray \subseteq stray' /\ exposed \subseteq exposed'
    BY DEF Terminate, Forget, SweepRows, EraseInstance, PurgeEntries
  <2>4. queue' = queue /\ worker' = worker
    BY <1>2 DEF CallStep, TakeToken, ParkToken, EditPending, EndToken, Terminate, SkipSave, Forget,
         SweepRows, EraseInstance, PurgeEntries, workVars
  <2>5. Jobs' = Jobs  BY <2>4, SameJobs
  <2> QED  BY <2>1, <2>2, <2>3, <2>4, <2>5, <1>1, <1>2 DEF CallStep
<1>3. CASE Store(c)
  <2>1. PICK do, r : do = Head(ops[c]).do /\ r = RowOf(c)  OBVIOUS
  <2>2. do \in {"delete", "save", "write"} /\ Head1(c, do)  BY <2>1, <1>3 DEF Store, Storing, Head1
  <2>3. r \in Row
    BY <2>1, <2>2, HeadOf DEF Row, EntryVerb, MakeVerb, ClearVerb, KeepVerb
  <2>4. Order(KindOf(do), r) \in Job  BY <2>3 DEF KindOf, Job, Order
  <2>5. stray \subseteq stray' /\ exposed' = exposed /\ worker' = worker
    BY <1>3 DEF Store, workVars
  <2>6. \/ queue' = queue
        \/ WriteFails(KindOf(do), r) /\ Advance(c) /\ queue' = Enqueue(Order(KindOf(do), r))
    BY <2>1, <1>3 DEF Store, workVars
  <2>7. CASE queue' = queue  BY <2>5, <2>7, <1>1, SameJobs
  <2>8. CASE WriteFails(KindOf(do), r) /\ Advance(c) /\ queue' = Enqueue(Order(KindOf(do), r))
    <3>1. Jobs' = IF worker = Exited THEN Jobs ELSE Jobs \cup {Order(KindOf(do), r)}
      BY <2>4, <2>5, <2>8, Enqueuing
    <3> QED  BY <3>1, <2>1, <2>4, <2>5, <2>8, <1>1, <1>3
  <2> QED  BY <2>6, <2>7, <2>8
<1> QED  BY <1>2, <1>3

LEMMA StoreKinds ==
  ASSUME Base, NEW c \in Call, Store(c)
  PROVE  \E h : /\ HeadIs(c, h) /\ h.do \in {"delete", "save", "write"} /\ h.do = Head(ops[c]).do
                /\ RowOf(c) = h.row /\ h.row \in Row /\ h = Order(h.do, h.row)
                /\ h.do \in {"delete", "save"} => h.row \in Entry /\ h.row[3] # "boundary" /\ KindOf(h.do) = h.do
                /\ h.do = "save" => h.row \in pending /\ h.row[3] \in Parts(h.row[2])
                /\ h.do = "write" => h.row \in Instance /\ KindOf(h.do) = "save"
<1>1. PICK do : do \in {"delete", "save", "write"} /\ Head1(c, do) /\ do = Head(ops[c]).do
                /\ (do = "save" => RowOf(c) \in pending)
  BY DEF Store, Storing, Head1
<1>2. PICK h : HeadIs(c, h) /\ h.do = do /\ h = Order(do, h.row) /\ RowOf(c) = h.row  BY <1>1, HeadOf
<1>3. Fit(h)  BY <1>2 DEF HeadIs
<1> QED  BY <1>1, <1>2, <1>3 DEF Fit, EntryVerb, MakeVerb, ClearVerb, KeepVerb, KindOf, Row

LEMMA MentionsHandled ==
  ASSUME Base, NEW t \in Token
  PROVE  Handled(t) <=> \E c \in Call : Mentions(c, t)
<1>1. ASSUME NEW c \in Call, NEW x \in Todo(c)
      PROVE  (x.row = t \/ (x.row \in Entry /\ x.row[1] = t)) <=> (x.do \in TokenVerb /\ Subject(x) = t)
  <2>1. Fit(x) /\ x.do \in Verb  BY <1>1, TodoFit, Orders
  <2>2. CASE x.do \in EntryVerb
    <3>1. x.row \in Entry /\ x.row \notin Token  BY <2>1, <2>2, Names DEF Fit
    <3> QED  BY <3>1, <2>2, Names DEF Subject, TokenVerb
  <2>3. CASE x.do \in {"end", "terminate"}
    <3>1. x.row \in Token /\ x.row \notin Entry  BY <2>1, <2>3, Names DEF Fit
    <3> QED  BY <3>1, <2>3 DEF Subject, TokenVerb
  <2>4. CASE x.do \in KeepVerb \cup WipeVerb
    <3>1. x.row \in Instance /\ x.row \notin Entry /\ x.row # t  BY <2>1, <2>4, Names DEF Fit
    <3>2. x.do \notin TokenVerb
      BY <2>4 DEF TokenVerb, EntryVerb, MakeVerb, ClearVerb, KeepVerb, WipeVerb
    <3> QED  BY <3>1, <3>2
  <2> QED  BY <2>1, <2>2, <2>3, <2>4 DEF Verb, TokenVerb
<1> QED  BY <1>1 DEF Handled, Mentions, Todo

LEMMA ShapeCalls ==
  ASSUME Base, NEW c \in Call, CallStep(c)
  PROVE  Shape'
<1>1. /\ OpsKept /\ \A d \in Call : Todo(d)' \subseteq Todo(d)
  BY CallOps
<1>2. \A t \in Token : Alone(t)'  BY <1>1 DEF Base, Shape, Alone, Mentions
<1>3. ASSUME NEW j \in Jobs' PROVE JobFit(j)'
  <2>1. CASE j \in Jobs  BY <2>1 DEF Base, Shape, JobFit
  <2>2. CASE j \notin Jobs
    <3>1. Store(c) /\ j = Order(KindOf(Head(ops[c]).do), RowOf(c))  BY <2>2, CallJobs
    <3>2. PICK h : /\ h.do \in {"delete", "save", "write"} /\ h.do = Head(ops[c]).do /\ RowOf(c) = h.row
                   /\ h.do \in {"delete", "save"} => h.row \in Entry /\ h.row[3] # "boundary"
                   /\ h.do = "write" => h.row \in Instance /\ KindOf(h.do) = "save"
      BY <3>1, StoreKinds
    <3>3. j.row = h.row /\ j.do = KindOf(h.do)  BY <3>1, <3>2, Orders
    <3> QED  BY <3>2, <3>3, Names DEF JobFit
  <2> QED  BY <2>1, <2>2
<1>4. ASSUME NEW e \in Entry PROVE KeptFit(e)'
  <2>1. KeptFit(e)  BY DEF Base, Shape
  <2>2. CASE EditPending(c)
    <3>1. PICK h : HeadIs(c, h) /\ h.row = RowOf(c) /\ (Head1(c, "insert") => h.do = "insert")
      BY <2>2, HeadOf DEF EditPending
    <3>2. Head1(c, "insert") => h.row[3] \in Parts(h.row[2])  BY <3>1 DEF HeadIs, Fit
    <3>3. rows' = rows /\ (e \in pending' => e \in pending \/ (Head1(c, "insert") /\ e = h.row))
      BY <3>1, <2>2 DEF EditPending, diskVars
    <3> QED  BY <2>1, <3>2, <3>3 DEF KeptFit
  <2>3. CASE Store(c)
    <3>1. PICK h : /\ h.do \in {"delete", "save", "write"} /\ h.do = Head(ops[c]).do
                   /\ RowOf(c) = h.row /\ h.row \in Row
                   /\ h.do \in {"delete", "save"} => h.row \in Entry /\ h.row[3] # "boundary" /\ KindOf(h.do) = h.do
                   /\ h.do = "save" => h.row[3] \in Parts(h.row[2])
                   /\ h.do = "write" => h.row \in Instance /\ KindOf(h.do) = "save"
      BY <2>3, StoreKinds
    <3>2. Write(KindOf(h.do), h.row) \/ WriteFails(KindOf(h.do), h.row)  BY <3>1, <2>3 DEF Store
    <3>3. KindOf(h.do) \in {"save", "delete"}  BY DEF KindOf
    <3>4. e \in rows' => e \in rows \/ (e = h.row /\ KindOf(h.do) = "save")
      BY <3>1, <3>2, <3>3, WriteRows
    <3>5. pending' = pending  BY <2>3 DEF Store, memVars
    <3>6. e = h.row => h.do # "write"  BY <3>1, Names
    <3> QED  BY <2>1, <3>1, <3>4, <3>5, <3>6 DEF KeptFit
  <2>4. CASE ~EditPending(c) /\ ~Store(c)
    <3>1. e \in pending' => e \in pending
      BY <2>4 DEF CallStep, TakeToken, ParkToken, EndToken, Terminate, SkipSave, Forget, SweepRows,
              EraseInstance, PurgeEntries, Abort, memVars
    <3>2. e \in rows' => e \in rows
      <4>1. CASE Forget(c) \/ EraseInstance(c)
        <5>1. RowOf(c) \in Row
          BY <4>1, HeadOf DEF Forget, EraseInstance, Row, EntryVerb, ClearVerb, WipeVerb
        <5>2. Write("delete", RowOf(c)) \/ WriteFails("delete", RowOf(c))
          BY <4>1 DEF Forget, EraseInstance
        <5> QED  BY <5>1, <5>2, WriteRows
      <4>2. CASE ~Forget(c) /\ ~EraseInstance(c)
        BY <4>2, <2>4 DEF CallStep, TakeToken, ParkToken, EndToken, Terminate, SkipSave, SweepRows,
              PurgeEntries, diskVars
      <4> QED  BY <4>1, <4>2
    <3> QED  BY <2>1, <3>1, <3>2 DEF KeptFit
  <2> QED  BY <2>2, <2>3, <2>4
<1> QED  BY <1>1, <1>2, <1>3, <1>4 DEF Shape, OpsKept

\* A call that begins takes only tokens nobody else has in hand.
LEMMA BeginMentions ==
  ASSUME Base, NEW c \in Call
  PROVE  /\ \A e \in Entry : Complete(c, e) =>
              /\ OpsKept /\ \A t \in Token : Alone(t)'
              /\ c = Loop => sweeping
              /\ c # Loop => running = "up"
         /\ \A i \in Instance : DeleteInstance(c, i) =>
              /\ OpsKept /\ \A t \in Token : Alone(t)'
              /\ Starts(c, {Order("sweep", i), Order("erase", i), Order("purge", i)})
              /\ c # Loop /\ running = "up"
<1>1. ASSUME NEW e \in Entry, Complete(c, e)
      PROVE  /\ OpsKept /\ \A t \in Token : Alone(t)'
             /\ c = Loop => sweeping
             /\ c # Loop => running = "up"
  <2>1. PICK k : Begin(c, Program(e, k)) /\ Sound(Program(e, k)) /\ Leading(e, k, Range(Program(e, k)))
    BY <1>1, CompleteBegins
  <2>2. PICK S : S = Range(Program(e, k))  OBVIOUS
  <2>3. Starts(c, S) /\ OpsKept  BY <2>1, <2>2, Starting
  <2>4. \A y \in S : \/ y.do \in KeepVerb /\ y.row = InstOf[e[1]]
                     \/ y.do \in TokenVerb /\ Subject(y) = e[1]
    BY <2>1, <2>2, LeadingTokens
  <2>5. ~Handled(e[1]) /\ e[1] \in Token  BY <1>1, Entries DEF Complete
  <2>6. \A d \in Call : ~Mentions(d, e[1])  BY <2>5, MentionsHandled
  <2>7. \A t \in Token : Mentions(c, t)' => t = e[1]
    BY <2>3, <2>4 DEF Mentions, Starts, TokenVerb, KeepVerb, EntryVerb, MakeVerb, ClearVerb
  <2>8. \A t \in Token, d \in Call : d # c => (Mentions(d, t)' <=> Mentions(d, t))
    BY <2>3 DEF Mentions, Starts, Others
  <2>9. \A t \in Token : Alone(t)'
    <3> TAKE t \in Token
    <3>1. Alone(t)  BY DEF Base, Shape
    <3> QED  BY <3>1, <2>6, <2>7, <2>8 DEF Alone
  <2>10. (c = Loop => sweeping) /\ (c # Loop => running = "up")  BY <1>1 DEF Complete
  <2> QED  BY <2>3, <2>9, <2>10
<1>2. ASSUME NEW i \in Instance, DeleteInstance(c, i)
      PROVE  /\ OpsKept /\ \A t \in Token : Alone(t)'
             /\ Starts(c, {Order("sweep", i), Order("erase", i), Order("purge", i)})
             /\ c # Loop /\ running = "up"
  <2>1. Begin(c, DeleteProgram(i)) /\ c # Loop /\ running = "up"  BY <1>2 DEF DeleteInstance
  <2>2. Sound(DeleteProgram(i)) /\ Range(DeleteProgram(i)) = {Order("sweep", i), Order("erase", i), Order("purge", i)}
    BY DeleteSound
  <2>3. OpsKept /\ Starts(c, {Order("sweep", i), Order("erase", i), Order("purge", i)})
    BY <2>1, <2>2, Starting
  <2>4. \A t \in Token : ~Mentions(c, t)'
    BY <2>3 DEF Mentions, Starts, Order, TokenVerb, EntryVerb, MakeVerb, ClearVerb
  <2>5. \A t \in Token, d \in Call : d # c => (Mentions(d, t)' <=> Mentions(d, t))
    BY <2>3 DEF Mentions, Starts, Others
  <2>6. \A t \in Token : Alone(t)'
    <3> TAKE t \in Token
    <3>1. Alone(t)  BY DEF Base, Shape
    <3> QED  BY <3>1, <2>4, <2>5 DEF Alone
  <2> QED  BY <2>1, <2>3, <2>6
<1> QED  BY <1>1, <1>2

LEMMA SameAlone ==
  ASSUME Base, ops' = ops
  PROVE  OpsKept /\ \A t \in Token : Alone(t)'
  BY SameOps DEF Base, Shape, Alone, Mentions

\* What the worker works on is a job; its writes are those of a job.
LEMMA WorkerJobs ==
  ASSUME Base, WorkerStep
  PROVE  /\ ops' = ops /\ stray \subseteq stray' /\ Jobs' \subseteq Jobs /\ pending' = pending
         /\ ~ExecuteJob => rows' = rows
         /\ ExecuteJob => /\ worker.job \in Jobs /\ worker.job.do \in {"save", "delete"} /\ worker.job.row \in Row
                          /\ JobFit(worker.job)
                          /\ worker.job.row \in Entry /\ worker.job.do = "save" => worker.job.row \in pending
                          /\ \/ Write(worker.job.do, worker.job.row)
                             \/ WriteFails(worker.job.do, worker.job.row)
<1>1. ops' = ops /\ stray \subseteq stray' /\ pending' = pending /\ (~ExecuteJob => rows' = rows)
  BY DEF WorkerStep, Receive, SkipJob, FindInstance, ExecuteJob, ghostVars, callVars, memVars, diskVars
<1>2. Jobs' \subseteq Jobs
  <2>1. CASE Receive  BY <2>1, Receiving
  <2>2. CASE FindInstance  BY <2>2, Keeping DEF FindInstance
  <2>3. CASE SkipJob  BY <2>3, Finishing DEF SkipJob
  <2>4. CASE ExecuteJob
    <3>1. Working /\ queue' = queue /\ (worker' = Idle \/ worker'.job = worker.job)
      <4>1. worker \in [job : Job \cup {NoJob, Shutdown}, attempt : 0..(MaxRetries - 1), found : BOOLEAN]
        BY TypeParts DEF Base, WorkTyped
      <4>2. [worker EXCEPT !.attempt = @ + 1, !.found = FALSE].job = worker.job  BY <4>1
      <4>3. worker' = Idle \/ worker' = [worker EXCEPT !.attempt = @ + 1, !.found = FALSE]
        BY <2>4 DEF ExecuteJob
      <4>4. Working /\ queue' = queue  BY <2>4 DEF ExecuteJob
      <4> QED  BY <4>2, <4>3, <4>4
    <3> QED  BY <3>1, Finishing, Keeping
  <2> QED  BY <2>1, <2>2, <2>3, <2>4 DEF WorkerStep
<1>3. ASSUME ExecuteJob
      PROVE  /\ worker.job \in Jobs /\ worker.job.do \in {"save", "delete"} /\ worker.job.row \in Row
             /\ JobFit(worker.job)
             /\ worker.job.row \in Entry /\ worker.job.do = "save" => worker.job.row \in pending
             /\ \/ Write(worker.job.do, worker.job.row)
                \/ WriteFails(worker.job.do, worker.job.row)
  <2>1. Working /\ worker.job \in Jobs /\ worker.job \in Job  BY <1>3, WorkerStates DEF ExecuteJob
  <2>2. worker.job.do \in {"save", "delete"} /\ worker.job.row \in Row  BY <2>1, Orders
  <2>3. Write(worker.job.do, worker.job.row) \/ WriteFails(worker.job.do, worker.job.row)
    BY <1>3 DEF ExecuteJob
  <2>4. worker.job.row \in Entry /\ worker.job.do = "save" => worker.job.row \in pending
    BY <1>3, Names DEF ExecuteJob
  <2> QED  BY <2>1, <2>2, <2>3, <2>4 DEF Base, Shape
<1> QED  BY <1>1, <1>2, <1>3

LEMMA ShapeNext ==
  ASSUME Base, Next
  PROVE  Shape'
<1>1. ASSUME NEW c \in Call, CallStep(c) PROVE Shape'  BY <1>1, ShapeCalls
<1>2. ASSUME NEW c \in Call, (\E e \in Entry : Complete(c, e)) \/ \E i \in Instance : DeleteInstance(c, i)
      PROVE  Shape'
  <2>1. OpsKept /\ \A t \in Token : Alone(t)'  BY <1>2, BeginMentions
  <2>2. UNCHANGED workVars /\ rows' = rows /\ pending' \subseteq pending
    BY <1>2 DEF Complete, DeleteInstance, Begin, diskVars
  <2>3. Jobs' = Jobs  BY <2>2, SameJobs DEF workVars
  <2> QED  BY <2>1, <2>2, <2>3 DEF Base, Shape, OpsKept, KeptFit, JobFit
<1>3. ASSUME WorkerStep PROVE Shape'
  <2>1. ops' = ops /\ Jobs' \subseteq Jobs /\ pending' = pending /\ (~ExecuteJob => rows' = rows)
    BY <1>3, WorkerJobs
  <2>2. OpsKept /\ \A t \in Token : Alone(t)'  BY <2>1, SameAlone
  <2>3. ASSUME NEW e \in Entry PROVE KeptFit(e)'
    <3>1. KeptFit(e)  BY DEF Base, Shape
    <3>2. CASE ExecuteJob
      <4>1. e \in rows' => e \in rows \/ (e = worker.job.row /\ e \in pending /\ JobFit(worker.job))
        BY <3>2, <1>3, WorkerJobs, WriteRows
      <4>2. e = worker.job.row /\ JobFit(worker.job) => e[3] # "boundary"  BY Names DEF JobFit
      <4> QED  BY <3>1, <4>1, <4>2, <2>1 DEF KeptFit
    <3>3. CASE ~ExecuteJob  BY <3>1, <3>3, <2>1 DEF KeptFit
    <3> QED  BY <3>2, <3>3
  <2> QED  BY <2>1, <2>2, <2>3 DEF Base, Shape, OpsKept, JobFit
<1>4. ASSUME Signal \/ EndSweep \/ FlushQueue \/ Stop PROVE Shape'
  <2>1. ops' = ops /\ pending' = pending /\ rows' = rows
    BY <1>4 DEF Signal, EndSweep, FlushQueue, Stop, callVars, memVars, diskVars
  <2>2. OpsKept /\ \A t \in Token : Alone(t)'  BY <2>1, SameAlone
  <2>3. Jobs' = Jobs
    <3>1. CASE FlushQueue  BY <3>1, Flushing
    <3>2. CASE ~FlushQueue  BY <3>2, <1>4, SameJobs DEF Signal, EndSweep, Stop, workVars
    <3> QED  BY <3>1, <3>2
  <2> QED  BY <2>1, <2>2, <2>3 DEF Base, Shape, OpsKept, KeptFit, JobFit
<1>5. ASSUME Crash \/ Restore PROVE Shape'
  <2>1. Jobs' = {}  BY <1>5, NoJobs DEF Crash, Restore
  <2>2. \A e \in Entry : KeptFit(e)'
    <3>1. rows' = rows /\ (pending' = pending \/ pending' \subseteq rows)
      BY <1>5 DEF Crash, Restore, LoadRows, diskVars, memVars
    <3> QED  BY <3>1 DEF Base, Shape, KeptFit
  <2>3. OpsKept /\ \A t \in Token : Alone(t)'
    <3>1. CASE Restore  BY <3>1, SameAlone DEF Restore, callVars
    <3>2. CASE Crash
      <4>1. ops' = [d \in Call |-> <<>>]  BY <3>2 DEF Crash
      <4>2. \A d \in Call : Todo(d)' = {} /\ Sound(ops'[d])  BY <4>1, SoundNone DEF Todo
      <4> QED  BY <4>1, <4>2 DEF OpsKept, Alone, Mentions
    <3> QED  BY <1>5, <3>1, <3>2
  <2> QED  BY <2>1, <2>2, <2>3 DEF Shape, OpsKept
<1> QED  BY <1>1, <1>2, <1>3, <1>4, <1>5 DEF Next

LEMMA ModesNext ==
  ASSUME Base, Next
  PROVE  Modes'
<1>0. Modes /\ Loop \in Call  BY LoopAssumption DEF Base
<1>1. ASSUME NEW c \in Call, CallStep(c) PROVE Modes'
  <2>1. /\ \A d \in Call : Todo(d)' \subseteq Todo(d)
        /\ \E h : h \in Todo(c)
    BY <1>1, CallOps DEF HeadIs
  <2>2. /\ worker' = worker /\ stray \subseteq stray' /\ running' = running /\ sweeping' = sweeping
        /\ worker = Exited => Jobs' = Jobs
    BY <1>1, CallJobs
  <2>3. running \notin {"down", "crashed"}  BY <2>1, <1>0 DEF Modes
  <2>4. worker = Exited => JobRows' = JobRows  BY <2>2, RowsOfJobs
  <2> QED  BY <2>1, <2>2, <2>3, <2>4, <1>0 DEF Modes
<1>2. ASSUME NEW c \in Call, (\E e \in Entry : Complete(c, e)) \/ \E i \in Instance : DeleteInstance(c, i)
      PROVE  Modes'
  <2>1. (c = Loop => sweeping) /\ (c # Loop => running = "up")  BY <1>2, BeginMentions
  <2>2. UNCHANGED workVars /\ running' = running /\ sweeping' = sweeping /\ stray' = stray /\ Others(c)
    <3>1. UNCHANGED workVars /\ UNCHANGED modeVars /\ UNCHANGED ghostVars
      BY <1>2 DEF Complete, DeleteInstance, Begin
    <3>2. Others(c)
      <4>1. PICK p : Begin(c, p)  BY <1>2 DEF Complete, DeleteInstance
      <4> QED  BY <4>1 DEF Begin, Others, Todo, Base, TypeOK
    <3> QED  BY <3>1, <3>2 DEF modeVars, ghostVars
  <2>3. JobRows' = JobRows  BY <2>2, SameJobs, RowsOfJobs DEF workVars
  <2>4. worker' = worker  BY <2>2 DEF workVars
  <2> QED  BY <2>1, <2>2, <2>3, <2>4, <1>0 DEF Modes, Others
<1>3. ASSUME WorkerStep PROVE Modes'
  <2>1. ops' = ops /\ stray \subseteq stray' /\ Jobs' \subseteq Jobs  BY <1>3, WorkerJobs
  <2>2. UNCHANGED modeVars  BY <1>3 DEF WorkerStep, Receive, SkipJob, FindInstance, ExecuteJob
  <2>3. worker # Exited
    BY <1>3, WorkerStates DEF WorkerStep, Receive, SkipJob, FindInstance, ExecuteJob
  <2>4. worker' = Exited => JobRows' \subseteq stray'
    <3>1. CASE Receive  BY <3>1, Receiving
    <3>2. CASE ~Receive
      <4>1. Exited.job = Shutdown /\ Exited # Idle  BY WorkerStates DEF Exited
      <4>2. Working /\ (worker' = Idle \/ worker'.job = worker.job)
        <5>1. worker \in [job : Job \cup {NoJob, Shutdown}, attempt : 0..(MaxRetries - 1), found : BOOLEAN]
          BY TypeParts DEF Base, WorkTyped
        <5>2. /\ [worker EXCEPT !.attempt = @ + 1, !.found = FALSE].job = worker.job
              /\ [worker EXCEPT !.found = TRUE].job = worker.job
          BY <5>1
        <5>3. \/ worker' = Idle \/ worker' = [worker EXCEPT !.found = TRUE]
              \/ worker' = [worker EXCEPT !.attempt = @ + 1, !.found = FALSE]
          BY <1>3, <3>2 DEF WorkerStep, SkipJob, FindInstance, ExecuteJob
        <5>4. Working  BY <1>3, <3>2 DEF WorkerStep, SkipJob, FindInstance, ExecuteJob
        <5> QED  BY <5>2, <5>3, <5>4
      <4> QED  BY <4>1, <4>2 DEF Working
    <3> QED  BY <3>1, <3>2
  <2>5. \A d \in Call : Todo(d)' = Todo(d)  BY <2>1, SameOps
  <2>6. running = "crashed" => JobRows' \subseteq stray'
    BY <2>1, <1>0, RowsOfJobs DEF Modes
  <2> QED  BY <2>2, <2>3, <2>4, <2>5, <2>6, <1>0 DEF Modes, modeVars
<1>4. ASSUME Signal \/ EndSweep \/ FlushQueue \/ Stop PROVE Modes'
  <2>1. ops' = ops /\ stray' = stray /\ worker' = worker
    BY <1>4 DEF Signal, EndSweep, FlushQueue, Stop, callVars, ghostVars, workVars
  <2>2. \A d \in Call : Todo(d)' = Todo(d)  BY <2>1, SameOps
  <2>3. JobRows' = JobRows
    <3>1. CASE FlushQueue  BY <3>1, Flushing, RowsOfJobs
    <3>2. CASE ~FlushQueue
      BY <3>2, <1>4, SameJobs, RowsOfJobs DEF Signal, EndSweep, Stop, workVars
    <3> QED  BY <3>1, <3>2
  <2>4. \A d \in Call : ops[d] = <<>> => Todo(d) = {}  BY SoundNone DEF Todo
  <2>5. CASE Signal  BY <2>1, <2>2, <2>3, <2>5, <1>0 DEF Modes, Signal
  <2>6. CASE EndSweep  BY <2>1, <2>2, <2>3, <2>4, <2>6, <1>0 DEF Modes, EndSweep
  <2>7. CASE FlushQueue  BY <2>1, <2>2, <2>3, <2>4, <2>7, <1>0 DEF Modes, FlushQueue
  <2>8. CASE Stop
    BY <2>1, <2>2, <2>3, <2>8, <1>0 DEF Modes, Stop
  <2> QED  BY <1>4, <2>5, <2>6, <2>7, <2>8
<1>5. ASSUME Crash \/ Restore PROVE Modes'
  <2>1. JobRows' = {} /\ worker' = Idle  BY <1>5, NoJobs DEF Crash, Restore
  <2>2. CASE Crash
    <3>1. \A d \in Call : Todo(d)' = {}  BY <2>2, SoundNone DEF Crash, Todo
    <3> QED  BY <3>1, <2>1, <2>2, <1>0, WorkerStates DEF Modes, Crash
  <2>3. CASE Restore
    BY <2>1, <2>3, WorkerStates DEF Modes, Restore
  <2> QED  BY <1>5, <2>2, <2>3
<1> QED  BY <1>1, <1>2, <1>3, <1>4, <1>5 DEF Next

LEMMA BaseNext ==
  ASSUME Base, Next
  PROVE  Base'
  BY TypeNext, ShapeNext, ModesNext DEF Base

LEMMA BaseInit ==
  ASSUME Init
  PROVE  Base
<1>1. TypeOK
  <2>1. MemTyped /\ DiskTyped
    <3>1. at \in [Token -> 0..Ended]
      <4>1. First \in [Token -> Wait] /\ Wait \subseteq 0..Ended  BY Names
      <4> QED  BY <4>1 DEF Init
    <3> QED  BY <3>1 DEF Init, MemTyped, DiskTyped
  <2>2. WorkTyped
    <3>1. Idle \in [job : Job \cup {NoJob, Shutdown}, attempt : 0..(MaxRetries - 1), found : BOOLEAN]
      BY RetryAssumption DEF Idle
    <3>2. <<>> \in Seq(Job \cup {Shutdown})  BY EmptySeq
    <3> QED  BY <3>1, <3>2 DEF Init, WorkTyped
  <2>3. ModeTyped /\ PastTyped  BY BoundsAssumption DEF Init, ModeTyped, PastTyped
  <2>4. CallTyped  BY RetryAssumption DEF Init, CallTyped
  <2> QED  BY <2>1, <2>2, <2>3, <2>4, TypeParts
<1>2. \A c \in Call : Sound(ops[c]) /\ Todo(c) = {}  BY SoundNone DEF Init, Todo
<1>3. Jobs = {}
  <2>1. Idle.job = NoJob  BY DEF Idle
  <2> QED  BY <2>1, SoundNone DEF Init, Jobs, Working
<1>4. \A e \in Entry : KeptFit(e)  BY DEF Init, KeptFit
<1>5. Shape  BY <1>2, <1>3, <1>4 DEF Shape, Alone, Mentions
<1>6. Modes
  <2>1. Idle # Exited
    <3>1. Idle.job = NoJob /\ Exited.job = Shutdown  BY DEF Idle, Exited
    <3> QED  BY <3>1, LoopAssumption
  <2> QED  BY <2>1 DEF Init, Modes
<1> QED  BY <1>1, <1>5, <1>6 DEF Base

----------------------------------------------------------------------------
(***************************************************************************)
(* What a step of a call does: to its program, the maps, the rows, the     *)
(* jobs and the instances.                                                 *)
(***************************************************************************)
\* An error ends the call, and what it has not done is not to be expected of it.
Broken(c, h) ==
  /\ Stops(c)
  /\ \/ /\ h.do \in {"take", "park", "end"}
        /\ \A r : Order("delete", r) \in Todo(c) => r \in stray'
        /\ h.do # "take" => InstOf[Subject(h)] \notin live
     \/ h.do = "fetch" /\ h.row \notin live /\ Todo(c) = {h, Order("write", h.row)}
     \/ h.do = "erase" /\ h.row \in stray' /\ EntriesOf(h.row) \subseteq stray'

ProgramStep(c, h) == Others(c) /\ (Todo(c)' = Todo(c) \/ Advances(c, h) \/ Broken(c, h))

MapStep(h) == \A e \in Entry :
  /\ e \in pending' => e \in pending \/ h = Order("insert", e)
  /\ e \in pending => \/ e \in pending' \/ h = Order("drop", e)
                      \/ h.do = "terminate" /\ e \in stray'
                      \/ h = Order("purge", InstOf[e[1]]) /\ (e \in rows => e \in stray')

RowStep(c, h) == \A e \in Entry :
  /\ e \in rows' => e \in rows \/ (h = Order("save", e) /\ e \in pending /\ e \in pending')
  /\ e \in rows => \/ e \in rows' \/ h \in {Order("delete", e), Order("forget", e)}
                   \/ h = Order("sweep", InstOf[e[1]]) /\ Advances(c, h)

JobStep(h) == /\ Jobs \subseteq Jobs'
              /\ \A j \in Jobs' \ Jobs : /\ h.do \in {"delete", "save", "write"}
                                         /\ j = Order(KindOf(h.do), h.row)
                                         /\ pending' = pending
                                         /\ h.do = "save" => h.row \in pending

\* A store call that was made has had its effect, or left a job, or is given up.
Done(c, h) == Advances(c, h) =>
  /\ h.do = "delete" => h.row \notin rows' \/ Order("delete", h.row) \in Jobs' \/ h.row \in stray'
  /\ h.do = "forget" => h.row \notin rows' \/ h.row \in stray'
  /\ h.do = "save" => h.row \notin pending \/ h.row \in rows' \/ Order("save", h.row) \in Jobs' \/ h.row \in stray'
  /\ h.do = "write" => Matches(h.row)' \/ Order("save", h.row) \in Jobs' \/ h.row \in stray'
  /\ h.do = "erase" => h.row \notin saved'
  /\ h.do = "purge" => pending' \cap EntriesOf(h.row) = {}
  /\ h.do = "drop" => h.row \notin pending'

HeapStep(c, h) ==
  /\ live' = live
  /\ \A i \in Instance :
       /\ i \in saved' => i \in saved \/ (h = Order("write", i) /\ (i \in live \/ i \in stray'))
       /\ Matches(i) => \/ Matches(i)' \/ h = Order("erase", i)
                        \/ /\ h.do \in {"take"} \cup MoveVerb /\ InstOf[Subject(h)] = i
                           /\ Advances(c, h)

CallEffect(c, h) ==
  /\ HeadIs(c, h)
  /\ ProgramStep(c, h) /\ MapStep(h) /\ RowStep(c, h) /\ JobStep(h) /\ Done(c, h) /\ HeapStep(c, h)

LEMMA InstanceWrite ==
  ASSUME Base, UNCHANGED memVars, NEW do \in {"save", "delete"}, NEW i \in Instance,
         Write(do, i) \/ WriteFails(do, i)
  PROVE  /\ \A j \in Instance : (j # i \/ do = "save") /\ Matches(j) => Matches(j)'
         /\ \A j \in Instance : j \in saved' => j \in saved \/ (j = i /\ do = "save")
         /\ Write(do, i) => IF do = "save" THEN Matches(i)' ELSE i \notin saved'
         /\ rows' = rows
<1>0. /\ at' = at /\ closed' = closed /\ savedAt \in [Token -> 0..Ended]  BY DEF memVars, Base, TypeOK
<1>1. CASE Write(do, i)
  <2>1. WriteInstance(do, i)  BY <1>1 DEF Write
  <2>2. /\ saved' = IF do = "save" THEN saved \cup {i} ELSE saved \ {i}
        /\ \A t \in Token : savedAt'[t] = IF do = "save" /\ InstOf[t] = i THEN at[t] ELSE savedAt[t]
        /\ savedClosed' = IF do = "save" THEN (savedClosed \ {i}) \cup (closed \cap {i}) ELSE savedClosed
        /\ rows' = rows
    BY <2>1 DEF WriteInstance
  <2>3. ASSUME NEW j \in Instance, j # i \/ do = "save", Matches(j) PROVE Matches(j)'
    BY <2>2, <2>3, <1>0 DEF Matches, TokensOf
  <2>4. do = "save" => Matches(i)'  BY <2>2, <1>0 DEF Matches, TokensOf
  <2> QED  BY <2>2, <2>3, <2>4
<1>2. CASE ~Write(do, i)
  <2>1. UNCHANGED diskVars  BY <1>2 DEF WriteFails
  <2> QED  BY <2>1, <1>0, <1>2 DEF Matches, diskVars
<1> QED  BY <1>1, <1>2

LEMMA MatchesKept ==
  ASSUME UNCHANGED <<saved, savedAt, savedClosed>>
  PROVE  \A i \in Instance : (\A t \in TokensOf(i) : at'[t] = at[t]) /\ (i \in closed' <=> i \in closed)
                               => (Matches(i)' <=> Matches(i))
  BY DEF Matches, TokensOf

LEMMA StoreEffect ==
  ASSUME Base, NEW c \in Call, CallStep(c), Store(c)
  PROVE  \E h : CallEffect(c, h)
<1>1. PICK h : /\ HeadIs(c, h) /\ h.do \in {"delete", "save", "write"} /\ h.do = Head(ops[c]).do
               /\ RowOf(c) = h.row /\ h.row \in Row /\ h = Order(h.do, h.row)
               /\ h.do \in {"delete", "save"} => h.row \in Entry /\ h.row[3] # "boundary" /\ KindOf(h.do) = h.do
               /\ h.do = "save" => h.row \in pending /\ h.row[3] \in Parts(h.row[2])
               /\ h.do = "write" => h.row \in Instance /\ KindOf(h.do) = "save"
  BY StoreKinds
<1>2. PICK do, r : do = KindOf(h.do) /\ r = h.row  OBVIOUS
<1>3. /\ UNCHANGED memVars
      /\ \/ /\ Write(do, r) /\ Advance(c) /\ stray' = stray \cup Astray(h.do, r) /\ UNCHANGED workVars
         \/ /\ WriteFails(do, r) /\ ops' = ops /\ stray' = stray \cup Astray(h.do, r) /\ UNCHANGED workVars
         \/ /\ WriteFails(do, r) /\ Advance(c) /\ queue' = Enqueue(Order(do, r)) /\ worker' = worker
            /\ stray' = stray \cup Astray(h.do, r) \cup (IF worker = Exited THEN {r} ELSE {})
  BY <1>1, <1>2 DEF Store
<1>4. do \in {"save", "delete"} /\ r \in Row /\ Order(do, r) \in Job
  BY <1>1, <1>2 DEF KindOf, Job, Order
<1>5. Write(do, r) \/ WriteFails(do, r)  BY <1>3
<1>6. h.do \in Verb  BY <1>1 DEF Verb, TokenVerb, EntryVerb, MakeVerb, ClearVerb, KeepVerb
<1>7. ProgramStep(c, h)
  <2>1. CASE Advance(c)  BY <2>1, <1>1, <1>6, Advancing DEF ProgramStep, Advances
  <2>2. CASE ops' = ops  BY <2>2, SameOps DEF ProgramStep, Others
  <2> QED  BY <2>1, <2>2, <1>3
<1>8. live' = live /\ pending' = pending  BY <1>3 DEF memVars
<1>9. MapStep(h)  BY <1>8 DEF MapStep
<1>10. RowStep(c, h)
  <2> SUFFICES ASSUME NEW e \in Entry
               PROVE /\ e \in rows' => e \in rows \/ (h = Order("save", e) /\ e \in pending /\ e \in pending')
                     /\ e \in rows => e \in rows' \/ h \in {Order("delete", e), Order("forget", e)}
    BY DEF RowStep
  <2>1. /\ e \in rows' => e \in rows \/ (e = r /\ do = "save")
        /\ e \in rows => e \in rows' \/ (e = r /\ do = "delete")
    BY <1>4, <1>5, WriteRows
  <2>2. e = r => h.do # "write" /\ do = h.do  BY <1>1, <1>2, Names
  <2> QED  BY <2>1, <2>2, <1>1, <1>2, <1>8
<1>11. JobStep(h) /\ (Advance(c) => \/ Write(do, r) \/ Order(do, r) \in Jobs' \/ r \in stray')
  <2>1. CASE UNCHANGED workVars
    <3>1. Jobs' = Jobs  BY <2>1, SameJobs DEF workVars
    <3>2. Advance(c) => Write(do, r) \/ r \in stray' \/ Order(do, r) \in Jobs'
      <4>1. CASE ops' # ops  BY <4>1, <2>1, <1>3, <1>4, Enqueuing DEF workVars
      <4>2. CASE ops' = ops
        <5>1. ASSUME Advance(c) PROVE FALSE
          <6>1. Advances(c, h)  BY <5>1, <1>1, <1>6, Advancing
          <6>2. Todo(c)' = Todo(c)  BY <4>2, SameOps
          <6> QED  BY <6>1, <6>2, <1>1 DEF Advances, HeadIs
        <5> QED  BY <5>1
      <4> QED  BY <4>1, <4>2
    <3> QED  BY <3>1, <3>2 DEF JobStep
  <2>2. CASE /\ queue' = Enqueue(Order(do, r)) /\ worker' = worker
             /\ stray' = stray \cup Astray(h.do, r) \cup (IF worker = Exited THEN {r} ELSE {})
    <3>1. Jobs' = IF worker = Exited THEN Jobs ELSE Jobs \cup {Order(do, r)}
      BY <2>2, <1>4, Enqueuing
    <3> QED  BY <3>1, <2>2, <1>1, <1>2, <1>8 DEF JobStep
  <2> QED  BY <2>1, <2>2, <1>3
<1>12. Done(c, h)
  <2> SUFFICES ASSUME Advances(c, h)
               PROVE /\ h.do = "delete" => r \notin rows' \/ Order("delete", r) \in Jobs' \/ r \in stray'
                     /\ h.do = "save" => r \in rows' \/ Order("save", r) \in Jobs' \/ r \in stray'
                     /\ h.do = "write" => Matches(r)' \/ Order("save", r) \in Jobs' \/ r \in stray'
    BY <1>1, <1>2 DEF Done
  <2>1. Advance(c)
    <3>1. ops' = ops => Todo(c)' = Todo(c)  BY SameOps
    <3> QED  BY <3>1, <1>1, <1>3 DEF Advances, HeadIs
  <2>2. Write(do, r) \/ Order(do, r) \in Jobs' \/ r \in stray'  BY <2>1, <1>11
  <2>3. Write(do, r) /\ r \in Entry => (r \in rows' <=> do = "save")  BY <1>4, WriteRows
  <2>4. Write(do, r) /\ r \in Instance /\ do = "save" => Matches(r)'  BY <1>3, <1>4, InstanceWrite
  <2> QED  BY <2>2, <2>3, <2>4, <1>1, <1>2
<1>13. HeapStep(c, h)
  <2>1. CASE r \in Instance
    <3>1. h.do = "write" /\ do = "save"  BY <2>1, <1>1, <1>2, Names
    <3>2. /\ \A j \in Instance : Matches(j) => Matches(j)'
          /\ \A j \in Instance : j \in saved' => j \in saved \/ j = r
      BY <2>1, <3>1, <1>3, <1>5, InstanceWrite
    <3>3. r \in live \/ r \in stray'  BY <3>1, <1>3 DEF Astray
    <3> QED  BY <3>1, <3>2, <3>3, <1>1, <1>2, <1>8 DEF HeapStep
  <2>2. CASE r \in Entry
    <3>1. UNCHANGED <<saved, savedAt, savedClosed>>  BY <2>2, <1>4, <1>5, WriteRows
    <3>2. at' = at /\ closed' = closed  BY <1>3 DEF memVars
    <3>3. \A i \in Instance : Matches(i)' <=> Matches(i)  BY <3>1, <3>2, MatchesKept
    <3> QED  BY <3>1, <3>3, <1>8 DEF HeapStep
  <2> QED  BY <2>1, <2>2, <1>4 DEF Row
<1> QED  BY <1>1, <1>7, <1>9, <1>10, <1>11, <1>12, <1>13 DEF CallEffect

\* The token and the instance a step of a token is about.
LEMMA Subjects ==
  ASSUME NEW h, Fit(h)
  PROVE  /\ h.do \in EntryVerb => h.row \in Entry /\ Subject(h) = h.row[1] /\ Subject(h) \in Token
         /\ h.do \in {"end", "terminate"} => h.row \in Token /\ Subject(h) = h.row
         /\ h.do \in TokenVerb => Subject(h) \in Token /\ InstOf[Subject(h)] \in Instance
         /\ h = Order(h.do, h.row) /\ h.do \in Verb
<1>1. h.do \in EntryVerb => h.row \in Entry /\ h.row \notin Token /\ h.row[1] \in Token
  BY Names, Entries DEF Fit
<1>2. h.do \in {"end", "terminate"} => h.row \in Token  BY DEF Fit
<1>3. h = Order(h.do, h.row) /\ h.do \in Verb  BY Orders
<1>4. h.do \in TokenVerb => h.do \in EntryVerb \/ h.do \in {"end", "terminate"}  BY DEF TokenVerb
<1>5. h.do \in TokenVerb => Subject(h) \in Token  BY <1>1, <1>2, <1>4 DEF Subject
<1>6. h.do \in TokenVerb => InstOf[Subject(h)] \in Instance  BY <1>5, Names
<1> QED  BY <1>1, <1>2, <1>3, <1>5, <1>6 DEF Subject

\* Nothing but the memory changes.
LEMMA MemoryOnly ==
  ASSUME Base, NEW h, UNCHANGED diskVars, UNCHANGED workVars, live' = live,
         NEW c \in Call, NEW i \in Instance, \A t \in Token : InstOf[t] # i => at'[t] = at[t],
         \A j \in Instance : j # i => (j \in closed' <=> j \in closed)
  PROVE  /\ RowStep(c, h) /\ JobStep(h)
         /\ (h.do \in {"take"} \cup MoveVerb /\ InstOf[Subject(h)] = i /\ Advances(c, h)) => HeapStep(c, h)
<1>1. rows' = rows /\ UNCHANGED <<saved, savedAt, savedClosed>>  BY DEF diskVars
<1>2. RowStep(c, h)  BY <1>1 DEF RowStep
<1>3. Jobs' = Jobs  BY SameJobs DEF workVars
<1>4. JobStep(h)  BY <1>3 DEF JobStep
<1>5. \A j \in Instance : j # i => (Matches(j)' <=> Matches(j))
  BY <1>1, MatchesKept DEF TokensOf
<1> QED  BY <1>1, <1>2, <1>4, <1>5 DEF HeapStep

LEMMA SameHeap ==
  ASSUME UNCHANGED <<live, at, closed>>, UNCHANGED <<saved, savedAt, savedClosed>>, NEW c, NEW h
  PROVE  HeapStep(c, h)
<1>1. \A i \in Instance : Matches(i)' <=> Matches(i)  BY MatchesKept
<1> QED  BY <1>1 DEF HeapStep

LEMMA AbortEffect ==
  ASSUME Base, NEW c \in Call, NEW h, HeadIs(c, h), h.do \in {"take", "park", "end"}, Abort(c),
         UNCHANGED diskVars, UNCHANGED workVars,
         h.do # "take" => InstOf[Subject(h)] \notin live
  PROVE  CallEffect(c, h)
<1>1. UNCHANGED memVars  BY DEF Abort
<1>2. Stops(c) /\ \A r : r \in stray' <=> r \in stray \/ Order("delete", r) \in Todo(c)  BY Aborting
<1>3. ProgramStep(c, h)  BY <1>2 DEF ProgramStep, Broken, Stops
<1>4. live' = live /\ at' = at /\ closed' = closed /\ pending' = pending  BY <1>1 DEF memVars
<1>5. MapStep(h)  BY <1>4 DEF MapStep
<1>6. rows' = rows /\ UNCHANGED <<saved, savedAt, savedClosed>>  BY DEF diskVars
<1>7. RowStep(c, h)  BY <1>6 DEF RowStep
<1>8. Jobs' = Jobs  BY SameJobs DEF workVars
<1>9. JobStep(h)  BY <1>8 DEF JobStep
<1>10. HeapStep(c, h)  BY <1>4, <1>6, SameHeap
<1>11. Done(c, h)  BY DEF Done
<1> QED  BY <1>3, <1>5, <1>7, <1>9, <1>10, <1>11 DEF CallEffect

LEMMA TokenEffect ==
  ASSUME Base, NEW c \in Call, CallStep(c), TakeToken(c) \/ ParkToken(c) \/ EndToken(c)
  PROVE  \E h : CallEffect(c, h)
<1>1. PICK h : HeadIs(c, h) /\ h.do \in {"take", "park", "end"} /\ RowOf(c) = h.row
  BY HeadOf DEF TakeToken, ParkToken, EndToken
<1>2. Fit(h)  BY <1>1 DEF HeadIs
<1>3. h.do \in TokenVerb  BY <1>1 DEF TokenVerb, EntryVerb, MakeVerb
<1>4. PICK t \in Token : t = Subject(h) /\ InstOf[t] \in Instance  BY <1>2, <1>3, Subjects
<1>5. h.do \in {"take", "park"} => t = h.row[1]  BY <1>2, <1>4, Subjects DEF EntryVerb, MakeVerb
<1>6. h.do = "end" => t = h.row  BY <1>2, <1>4, Subjects
<1>7. UNCHANGED diskVars /\ UNCHANGED workVars  BY DEF TakeToken, ParkToken, EndToken
<1>8. \A do : Head1(c, do) => h.do = do  BY <1>1 DEF HeadIs
<1>9. CASE Abort(c)
  <2>1. h.do # "take" => InstOf[t] \notin live
    <3>1. Advance(c) => Advances(c, h)  BY <1>1, <1>2, Subjects, Advancing
    <3>2. Stops(c) /\ h \in Todo(c)  BY <1>1, <1>9, Aborting DEF HeadIs
    <3>3. ParkToken(c) \/ EndToken(c) => InstOf[t] \notin live \/ Advance(c)
      BY <1>1, <1>5, <1>6, <1>8 DEF ParkToken, EndToken
    <3>4. Advance(c) => \E y \in Todo(c) : y # h
      <4>1. TokenStep(h, Todo(c) \ {h})  BY <1>1, <1>3 DEF HeadIs, Before
      <4> QED  BY <4>1 DEF TokenStep
    <3>5. ~Advance(c)  BY <3>1, <3>2, <3>4 DEF Advances, Stops
    <3> QED  BY <3>3, <3>5, <1>8 DEF TakeToken
  <2> QED  BY <2>1, <1>1, <1>4, <1>7, <1>9, AbortEffect
<1>10. CASE ~Abort(c)
  <2>1. /\ Advance(c) /\ live' = live /\ pending' = pending
        /\ \E n : at' = [at EXCEPT ![t] = n]
        /\ closed' = closed \/ closed' = closed \ {InstOf[t]} \/ closed' = closed \cup {InstOf[t]}
    <3>1. CASE TakeToken(c)  BY <3>1, <1>1, <1>5, <1>8, <1>10 DEF TakeToken
    <3>2. CASE ParkToken(c)  BY <3>2, <1>1, <1>5, <1>8, <1>10 DEF ParkToken
    <3>3. CASE EndToken(c)  BY <3>3, <1>1, <1>6, <1>8, <1>10 DEF EndToken
    <3> QED  BY <3>1, <3>2, <3>3
  <2>2. Advances(c, h)  BY <2>1, <1>1, <1>2, Subjects, Advancing
  <2>3. ProgramStep(c, h)  BY <2>2 DEF ProgramStep, Advances
  <2>4. MapStep(h)  BY <2>1 DEF MapStep
  <2>5. at \in [Token -> 0..Ended]  BY DEF Base, TypeOK
  <2>6. \A u \in Token : InstOf[u] # InstOf[t] => at'[u] = at[u]  BY <2>1, <2>5
  <2>7. \A j \in Instance : j # InstOf[t] => (j \in closed' <=> j \in closed)  BY <2>1
  <2>8. h.do \in {"take"} \cup MoveVerb  BY <1>1 DEF MoveVerb
  <2>9. RowStep(c, h) /\ JobStep(h) /\ HeapStep(c, h)
    BY <2>1, <2>2, <2>6, <2>7, <2>8, <1>4, <1>7, MemoryOnly
  <2>10. Done(c, h)  BY <1>1 DEF Done
  <2> QED  BY <2>3, <2>4, <2>9, <2>10, <1>1 DEF CallEffect
<1> QED  BY <1>9, <1>10

LEMMA TerminateEffect ==
  ASSUME Base, NEW c \in Call, CallStep(c), Terminate(c)
  PROVE  \E h : CallEffect(c, h)
<1>1. PICK h : HeadIs(c, h) /\ h.do = "terminate" /\ RowOf(c) = h.row  BY HeadOf DEF Terminate
<1>2. Fit(h)  BY <1>1 DEF HeadIs
<1>3. PICK t \in Token : t = h.row /\ t = Subject(h) /\ InstOf[t] \in Instance
  BY <1>1, <1>2, Subjects DEF TokenVerb
<1>4. /\ UNCHANGED diskVars /\ UNCHANGED workVars /\ live' = live /\ Advance(c)
      /\ pending' = pending \ EntriesOf(InstOf[t])
      /\ stray' = stray \cup (pending \cap EntriesOf(InstOf[t]))
      /\ at' = [at EXCEPT ![t] = Ended] /\ closed' = closed \cup {InstOf[t]}
  BY <1>1, <1>3 DEF Terminate
<1>5. Advances(c, h)  BY <1>1, <1>2, <1>4, Subjects, Advancing
<1>6. ProgramStep(c, h)  BY <1>5 DEF ProgramStep, Advances
<1>7. MapStep(h)  BY <1>1, <1>4 DEF MapStep
<1>8. at \in [Token -> 0..Ended]  BY DEF Base, TypeOK
<1>9. \A u \in Token : InstOf[u] # InstOf[t] => at'[u] = at[u]  BY <1>4, <1>8
<1>10. \A j \in Instance : j # InstOf[t] => (j \in closed' <=> j \in closed)  BY <1>4
<1>11. RowStep(c, h) /\ JobStep(h) /\ HeapStep(c, h)
  BY <1>1, <1>3, <1>4, <1>5, <1>9, <1>10, MemoryOnly DEF MoveVerb
<1>12. Done(c, h)  BY <1>1 DEF Done
<1> QED  BY <1>1, <1>6, <1>7, <1>11, <1>12 DEF CallEffect

LEMMA EditEffect ==
  ASSUME Base, NEW c \in Call, CallStep(c), EditPending(c) \/ SkipSave(c) \/ PurgeEntries(c)
  PROVE  \E h : CallEffect(c, h)
<1>1. PICK h : /\ HeadIs(c, h) /\ RowOf(c) = h.row /\ h = Order(h.do, h.row)
               /\ h.do \in {"insert", "drop", "save", "fetch", "purge"}
  BY HeadOf DEF EditPending, SkipSave, PurgeEntries
<1>2. \A do : Head1(c, do) <=> h.do = do  BY <1>1 DEF HeadIs
<1>3. /\ UNCHANGED diskVars /\ UNCHANGED workVars /\ live' = live /\ at' = at /\ closed' = closed
  BY DEF EditPending, SkipSave, PurgeEntries, memVars
<1>4. rows' = rows /\ UNCHANGED <<saved, savedAt, savedClosed>>  BY <1>3 DEF diskVars
<1>5. RowStep(c, h)  BY <1>4 DEF RowStep
<1>6. Jobs' = Jobs  BY <1>3, SameJobs DEF workVars
<1>7. JobStep(h)  BY <1>6 DEF JobStep
<1>8. HeapStep(c, h)  BY <1>3, <1>4, SameHeap
<1>9. h.do \in Verb /\ Fit(h)  BY <1>1, Orders DEF HeadIs
<1>10. Advance(c) => ProgramStep(c, h)  BY <1>1, <1>9, Advancing DEF ProgramStep, Advances
<1>11. CASE EditPending(c)
  <2>2. h.do \in {"insert", "drop"} /\ Advance(c)  BY <1>11, <1>2 DEF EditPending
  <2>3. MapStep(h)
    <3> SUFFICES ASSUME NEW e \in Entry
                 PROVE /\ e \in pending' => e \in pending \/ h = Order("insert", e)
                       /\ e \in pending => e \in pending' \/ h = Order("drop", e)
      BY DEF MapStep
    <3>1. CASE h.do = "insert"
      <4>1. pending' = pending \cup {h.row}  BY <3>1, <1>11, <1>1, <1>2 DEF EditPending
      <4> QED  BY <4>1, <3>1, <1>1
    <3>2. CASE h.do = "drop"
      <4>1. pending' = pending \ {h.row}  BY <3>2, <1>11, <1>1, <1>2 DEF EditPending
      <4> QED  BY <4>1, <3>2, <1>1
    <3> QED  BY <3>1, <3>2, <2>2
  <2>4. Done(c, h)
    <3>1. h.do = "drop" => h.row \notin pending'  BY <1>11, <1>1, <1>2 DEF EditPending
    <3> QED  BY <2>2, <3>1 DEF Done
  <2> QED  BY <2>2, <2>3, <2>4, <1>1, <1>5, <1>7, <1>8, <1>10 DEF CallEffect
<1>12. CASE SkipSave(c)
  <2>1. pending' = pending  BY <1>12 DEF SkipSave, memVars
  <2>2. MapStep(h)  BY <2>1 DEF MapStep
  <2>3. h.do \in {"save", "fetch"} /\ (h.do = "save" => h.row \notin pending)
    BY <1>12, <1>1, <1>2 DEF SkipSave
  <2>4. Done(c, h)  BY <2>3 DEF Done
  <2>5. ProgramStep(c, h)
    <3>1. CASE Advance(c)  BY <3>1, <1>10
    <3>2. CASE ~Advance(c)
      <4>1. h.do = "fetch" /\ h.row \notin live /\ ops' = [ops EXCEPT ![c] = Tail(Tail(@))]
        BY <3>2, <1>12, <1>1, <1>2 DEF SkipSave
      <4>2. Stops(c) /\ Todo(c) = {h, Order("write", h.row)}  BY <4>1, <1>1, Skipping
      <4> QED  BY <4>1, <4>2 DEF ProgramStep, Broken, Stops
    <3> QED  BY <3>1, <3>2
  <2> QED  BY <2>2, <2>4, <2>5, <1>1, <1>5, <1>7, <1>8 DEF CallEffect
<1>13. CASE PurgeEntries(c)
  <2>1. h.do = "purge" /\ Advance(c)  BY <1>13, <1>2 DEF PurgeEntries
  <2>2. pending' = pending \ EntriesOf(h.row) /\ stray' = stray \cup (pending \cap rows \cap EntriesOf(h.row))
    BY <1>13, <1>1 DEF PurgeEntries
  <2>3. MapStep(h)  BY <2>1, <2>2, <1>1 DEF MapStep, EntriesOf
  <2>4. Done(c, h)  BY <2>1, <2>2 DEF Done
  <2> QED  BY <2>1, <2>3, <2>4, <1>1, <1>5, <1>7, <1>8, <1>10 DEF CallEffect
<1> QED  BY <1>11, <1>12, <1>13

LEMMA ForgetEffect ==
  ASSUME Base, NEW c \in Call, CallStep(c), Forget(c) \/ SweepRows(c)
  PROVE  \E h : CallEffect(c, h)
<1>1. PICK h : /\ HeadIs(c, h) /\ RowOf(c) = h.row /\ h = Order(h.do, h.row)
               /\ h.do \in {"forget", "sweep"}
  BY HeadOf DEF Forget, SweepRows
<1>2. \A do : Head1(c, do) <=> h.do = do  BY <1>1 DEF HeadIs
<1>3. h.do \in Verb /\ Fit(h)  BY <1>1, Orders DEF HeadIs
<1>4. UNCHANGED memVars /\ UNCHANGED workVars /\ Advance(c)  BY DEF Forget, SweepRows
<1>5. live' = live /\ at' = at /\ closed' = closed /\ pending' = pending  BY <1>4 DEF memVars
<1>6. Advances(c, h) /\ ProgramStep(c, h)
  BY <1>1, <1>3, <1>4, Advancing DEF ProgramStep, Advances
<1>7. MapStep(h)  BY <1>5 DEF MapStep
<1>8. Jobs' = Jobs  BY <1>4, SameJobs DEF workVars
<1>9. JobStep(h)  BY <1>8 DEF JobStep
<1>10. CASE Forget(c)
  <2>1. h.do = "forget"  BY <1>10, <1>2 DEF Forget
  <2>2. h.row \in Entry /\ h.row \in Row  BY <2>1, <1>3, Subjects DEF EntryVerb, ClearVerb, Row
  <2>3. \/ Write("delete", h.row) /\ stray' = stray
        \/ WriteFails("delete", h.row) /\ stray' = stray \cup {h.row}
    BY <1>10, <1>1 DEF Forget
  <2>4. /\ \A e \in Entry : (e \in rows' => e \in rows) /\ (e \in rows => e \in rows' \/ e = h.row)
        /\ Write("delete", h.row) => h.row \notin rows'
        /\ UNCHANGED <<saved, savedAt, savedClosed>>
    BY <2>2, <2>3, WriteRows
  <2>5. RowStep(c, h)  BY <2>1, <2>4, <1>1 DEF RowStep
  <2>6. Done(c, h)  BY <2>1, <2>3, <2>4 DEF Done
  <2>7. HeapStep(c, h)  BY <2>4, <1>5, SameHeap
  <2> QED  BY <2>5, <2>6, <2>7, <1>1, <1>6, <1>7, <1>9 DEF CallEffect
<1>11. CASE SweepRows(c)
  <2>1. h.do = "sweep"  BY <1>11, <1>2 DEF SweepRows
  <2>2. /\ rows' \subseteq rows /\ rows \ rows' \subseteq EntriesOf(h.row)
        /\ UNCHANGED <<saved, savedAt, savedClosed>>
    BY <1>11, <1>1 DEF SweepRows
  <2>3. RowStep(c, h)  BY <2>1, <2>2, <1>1, <1>6 DEF RowStep, EntriesOf
  <2>4. Done(c, h)  BY <2>1 DEF Done
  <2>5. HeapStep(c, h)  BY <2>2, <1>5, SameHeap
  <2> QED  BY <2>3, <2>4, <2>5, <1>1, <1>6, <1>7, <1>9 DEF CallEffect
<1> QED  BY <1>10, <1>11

LEMMA EraseEffect ==
  ASSUME Base, NEW c \in Call, CallStep(c), EraseInstance(c)
  PROVE  \E h : CallEffect(c, h)
<1>1. PICK h : HeadIs(c, h) /\ RowOf(c) = h.row /\ h = Order(h.do, h.row) /\ h.do = "erase"
  BY HeadOf DEF EraseInstance
<1>2. h.do \in Verb /\ Fit(h) /\ h.row \in Instance /\ h.row \in Row
  BY <1>1, Orders DEF HeadIs, Fit, WipeVerb, Row
<1>3. UNCHANGED memVars /\ UNCHANGED workVars  BY DEF EraseInstance
<1>4. live' = live /\ at' = at /\ closed' = closed /\ pending' = pending  BY <1>3 DEF memVars
<1>5. \/ Write("delete", h.row) /\ Advance(c)
      \/ /\ WriteFails("delete", h.row) /\ ops' = [ops EXCEPT ![c] = <<>>]
         /\ stray' = stray \cup {h.row} \cup EntriesOf(h.row)
  BY <1>1 DEF EraseInstance
<1>6. /\ \A j \in Instance : j # h.row /\ Matches(j) => Matches(j)'
      /\ \A j \in Instance : j \in saved' => j \in saved
      /\ Write("delete", h.row) => h.row \notin saved'
      /\ rows' = rows
  BY <1>2, <1>3, <1>5, InstanceWrite
<1>7. ProgramStep(c, h)
  <2>1. CASE Advance(c)  BY <2>1, <1>1, <1>2, Advancing DEF ProgramStep, Advances
  <2>2. CASE ops' = [ops EXCEPT ![c] = <<>>] /\ stray' = stray \cup {h.row} \cup EntriesOf(h.row)
    BY <2>2, <1>1, Emptying DEF ProgramStep, Broken, Stops
  <2> QED  BY <2>1, <2>2, <1>5
<1>8. MapStep(h) /\ RowStep(c, h)  BY <1>4, <1>6 DEF MapStep, RowStep
<1>9. Jobs' = Jobs  BY <1>3, SameJobs DEF workVars
<1>10. JobStep(h)  BY <1>9 DEF JobStep
<1>11. HeapStep(c, h)  BY <1>1, <1>4, <1>6 DEF HeapStep
<1>12. Advances(c, h) => Write("delete", h.row)
  <2>1. Before(h, Todo(c) \ {h})  BY <1>1 DEF HeadIs
  <2>2. Todo(c) \ {h} = {Order("purge", h.row)}  BY <2>1, <1>1 DEF Before, InstanceStep
  <2>3. ops' = [ops EXCEPT ![c] = <<>>] => Stops(c)  BY Emptying
  <2>4. ~(Advances(c, h) /\ Stops(c))  BY <2>2 DEF Advances, Stops
  <2> QED  BY <2>3, <2>4, <1>5
<1>13. Done(c, h)  BY <1>1, <1>6, <1>12 DEF Done
<1> QED  BY <1>1, <1>7, <1>8, <1>10, <1>11, <1>13 DEF CallEffect

LEMMA CallEffects ==
  ASSUME Base, NEW c \in Call, CallStep(c)
  PROVE  \E h : CallEffect(c, h)
  BY TokenEffect, TerminateEffect, EditEffect, StoreEffect, ForgetEffect, EraseEffect DEF CallStep

----------------------------------------------------------------------------
(***************************************************************************)
(* The store follows: the steps of the calls.                              *)
(***************************************************************************)
\* What the steps that remain can be, given the one a call takes now.
LEMMA Following ==
  ASSUME Base, NEW c \in Call, NEW h, HeadIs(c, h)
  PROVE  /\ h \in Todo(c) /\ Fit(h) /\ h = Order(h.do, h.row) /\ h.do \in Verb
         /\ h.do \in {"take"} \cup MoveVerb =>
              /\ Order("write", InstOf[Subject(h)]) \in Todo(c) \ {h}
              /\ \A x \in Todo(c) \ {h} : x.do \notin {"take", "forget"}
              /\ \A e : Order("save", e) \in Todo(c) => Order("insert", e) \in Todo(c)
         /\ h.do \in MoveVerb => \A x \in Todo(c) \ {h} : x.do \notin ClearVerb
         /\ h.do \in TokenVerb =>
              \A x \in Todo(c) \ {h} : /\ x.do \notin WipeVerb
                                       /\ x.do \in KeepVerb => x.row = InstOf[Subject(h)]
         /\ h.do \in {"write", "purge"} => Todo(c) = {h}
         /\ h.do = "fetch" => Todo(c) = {h, Order("write", h.row)}
         /\ h.do = "erase" => Todo(c) = {h, Order("purge", h.row)}
         /\ h.do = "sweep" => Todo(c) = {h, Order("erase", h.row), Order("purge", h.row)}
         /\ h.do \in {"delete", "forget"} => Order("drop", h.row) \notin Todo(c)
         /\ h.do = "drop" /\ h.row[3] # "boundary" =>
              Order("delete", h.row) \in Todo(c) \ {h} \/ Order("forget", h.row) \in Todo(c) \ {h}
         /\ h.do = "insert" /\ h.row[3] # "boundary" => Order("save", h.row) \in Todo(c) \ {h}
<1>0. PICK later : later = Todo(c) \ {h}  OBVIOUS
<1>1. h \in Todo(c) /\ Fit(h) /\ Before(h, later) /\ Todo(c) = {h} \cup later  BY <1>0 DEF HeadIs
<1>2. h = Order(h.do, h.row) /\ h.do \in Verb  BY <1>1, Orders
<1>3. \A e : Order("save", e) \in Todo(c) => h.do = "save" \/ (Order("save", e) \in later)
  BY <1>1, Orders
<1>4. h.do = "take" =>
        /\ \A x \in later : x.do \notin {"take", "forget"}
        /\ \A e : Order("save", e) \in later => Order("insert", e) \in later
  BY <1>1, Orders DEF Before, TakeStep
<1>5. h.do \in MoveVerb =>
        /\ \A x \in later : x.do \notin {"take", "forget"} /\ x.do \notin ClearVerb
        /\ \A e : Order("save", e) \in later => Order("insert", e) \in later
  <2>1. h.do \in MoveVerb => \A x \in later : x.do \in KeepVerb \cup {"insert", "save"}
    BY <1>1 DEF Before, MoveStep
  <2>2. h.do \in MoveVerb => \A e : Order("save", e) \in later => Order("insert", e) \in later
    BY <1>1, Orders DEF Before, MoveStep
  <2> QED  BY <2>1, <2>2 DEF KeepVerb, ClearVerb
<1>6. h.do \in TokenVerb =>
        /\ Order("write", InstOf[Subject(h)]) \in later
        /\ \A x \in later : /\ x.do \notin WipeVerb
                            /\ x.do \in KeepVerb => x.row = InstOf[Subject(h)]
  BY <1>1 DEF Before, TokenStep, TokenVerb, EntryVerb, MakeVerb, ClearVerb, KeepVerb, WipeVerb
<1>7. /\ h.do \in {"write", "purge"} => later = {}
      /\ h.do = "fetch" => later = {Order("write", h.row)}
      /\ h.do = "erase" => later = {Order("purge", h.row)}
      /\ h.do = "sweep" => later = {Order("erase", h.row), Order("purge", h.row)}
  BY <1>1 DEF Before, InstanceStep
<1>8. h.do \in {"delete", "forget"} => Order("drop", h.row) \notin Todo(c)
  <2>1. h.do \in {"delete", "forget"} => Order("drop", h.row) \notin later
    BY <1>1 DEF Before, ClearStep, ClearVerb
  <2> QED  BY <2>1, <1>1, Orders
<1>9. /\ h.do = "drop" /\ h.row[3] # "boundary" => Order("delete", h.row) \in later \/ Order("forget", h.row) \in later
      /\ h.do = "insert" /\ h.row[3] # "boundary" => Order("save", h.row) \in later
  BY <1>1 DEF Before, ClearStep, ClearVerb, MakeStep, MakeVerb
<1>10. "take" \in TokenVerb /\ MoveVerb \subseteq TokenVerb /\ "save" \notin MoveVerb
  BY DEF TokenVerb, EntryVerb, MakeVerb, MoveVerb
<1>11. h.do \in {"take"} \cup MoveVerb =>
         /\ Order("write", InstOf[Subject(h)]) \in later
         /\ \A x \in later : x.do \notin {"take", "forget"}
         /\ \A e : Order("save", e) \in Todo(c) => Order("insert", e) \in Todo(c)
  BY <1>1, <1>3, <1>4, <1>5, <1>6, <1>10
<1> QED  BY <1>0, <1>1, <1>2, <1>5, <1>6, <1>7, <1>8, <1>9, <1>11

\* What a call no longer has to do it has done, but for an error.
LEMMA Lost ==
  ASSUME Base, NEW c \in Call, NEW h, CallEffect(c, h), NEW d \in Call, NEW x \in Todo(d), x \notin Todo(d)'
  PROVE  d = c /\ ((x = h /\ Advances(c, h)) \/ Broken(c, h))
  BY DEF CallEffect, ProgramStep, Advances, Others

\* An insert always succeeds.
LEMMA Inserting ==
  ASSUME Base, NEW c \in Call, CallStep(c), NEW h, HeadIs(c, h), h.do = "insert"
  PROVE  Advances(c, h)
<1>1. \A do : Head1(c, do) <=> h.do = do  BY DEF HeadIs
<1>2. EditPending(c)
  BY <1>1 DEF CallStep, TakeToken, ParkToken, EndToken, Terminate, SkipSave, Store, Storing,
              Forget, SweepRows, EraseInstance, PurgeEntries
<1> QED  BY <1>2, Following, Advancing DEF EditPending

LEMMA CallInstances ==
  ASSUME Base, NEW c \in Call, CallStep(c), NEW h, CallEffect(c, h), NEW i \in Instance \ stray', Deleting, InstanceRow(i)
  PROVE  InstanceRow(i)'
<1>0. /\ HeadIs(c, h) /\ \A d \in Call : Todo(d)' \subseteq Todo(d)
      /\ stray \subseteq stray' /\ live' = live /\ Jobs \subseteq Jobs'
  BY CallOps, CallJobs DEF CallEffect, HeapStep, JobStep
<1>1. ASSUME i \in live PROVE Matches(i)' \/ WriteDue(i)' \/ Order("save", i) \in Jobs'
  <2>1. CASE Matches(i) /\ ~Matches(i)'
    <3>1. h # Order("erase", i)
      <4>1. h \in Todo(c)  BY <1>0 DEF HeadIs
      <4> QED  BY <4>1, <1>1 DEF Deleting, Wiped, Due, WipeVerb
    <3>2. /\ h.do \in {"take"} \cup MoveVerb /\ InstOf[Subject(h)] = i /\ Advances(c, h)
      BY <2>1, <3>1 DEF CallEffect, HeapStep
    <3>3. /\ Order("write", i) \in Todo(c) \ {h}
          /\ \A x \in Todo(c) \ {h} : x.do \notin {"take", "forget"}
      BY <3>2, <1>0, Following
    <3> QED  BY <3>2, <3>3 DEF WriteDue, Advances
  <2>2. CASE WriteDue(i)
    <3>1. PICK d \in Call : Order("write", i) \in Todo(d) /\ \A x \in Todo(d) : x.do # "take"
      BY <2>2 DEF WriteDue
    <3>2. CASE Order("write", i) \in Todo(d)'  BY <3>1, <3>2, <1>0 DEF WriteDue
    <3>3. CASE Order("write", i) \notin Todo(d)'
      <4>1. d = c /\ ((h = Order("write", i) /\ Advances(c, h)) \/ Broken(c, h))  BY <3>1, <3>3, Lost
      <4>2. CASE h = Order("write", i) /\ Advances(c, h)
        BY <4>2, <1>0, Orders DEF CallEffect, Done
      <4>3. CASE Broken(c, h)
        <5>1. h \in Todo(c) /\ h.do # "take"  BY <3>1, <4>1, <1>0 DEF HeadIs
        <5>2. CASE h.do \in {"park", "end"}
          <6>1. InstOf[Subject(h)] \notin live  BY <4>3, <5>2 DEF Broken
          <6>2. Order("write", i) \in Todo(c) \ {h}  BY <3>1, <4>1, <5>2, Orders
          <6>3. i = InstOf[Subject(h)]
            BY <6>2, <5>2, <1>0, Following, Orders DEF TokenVerb, EntryVerb, MakeVerb, KeepVerb
          <6> QED  BY <6>1, <6>3, <1>1
        <5>3. CASE h.do = "fetch"
          <6>1. h.row \notin live /\ Todo(c) = {h, Order("write", h.row)}  BY <4>3, <5>3 DEF Broken
          <6>2. i = h.row  BY <6>1, <3>1, <4>1, <5>3, Orders
          <6> QED  BY <6>1, <6>2, <1>1
        <5>4. CASE h.do = "erase"
          <6>1. Todo(c) = {h, Order("purge", h.row)}  BY <5>4, <1>0, Following
          <6> QED  BY <6>1, <3>1, <4>1, <5>4, Orders
        <5> QED  BY <4>3, <5>1, <5>2, <5>3, <5>4 DEF Broken
      <4> QED  BY <4>1, <4>2, <4>3
    <3> QED  BY <3>2, <3>3
  <2> QED  BY <2>1, <2>2, <1>0, <1>1 DEF InstanceRow
<1>2. ASSUME i \notin live PROVE i \notin saved' \/ Due("erase", i)'
  <2>1. CASE i \notin saved  BY <2>1, <1>2 DEF CallEffect, HeapStep
  <2>2. CASE Due("erase", i)
    <3>1. PICK d \in Call : Order("erase", i) \in Todo(d)  BY <2>2 DEF Due
    <3>2. CASE Order("erase", i) \in Todo(d)'  BY <3>2 DEF Due
    <3>3. CASE Order("erase", i) \notin Todo(d)'
      <4>1. d = c /\ ((h = Order("erase", i) /\ Advances(c, h)) \/ Broken(c, h))  BY <3>1, <3>3, Lost
      <4>2. CASE h = Order("erase", i) /\ Advances(c, h)
        BY <4>2, Orders DEF CallEffect, Done
      <4>3. CASE Broken(c, h)
        <5>1. CASE h.do \in {"take", "park", "end"}
          <6>1. Order("erase", i) \in Todo(c) \ {h}  BY <3>1, <4>1, <5>1, Orders
          <6> QED  BY <6>1, <5>1, <1>0, Following, Orders DEF TokenVerb, EntryVerb, MakeVerb, WipeVerb
        <5>2. CASE h.do = "fetch"
          BY <5>2, <3>1, <4>1, <1>0, Following, Orders
        <5>3. CASE h.do = "erase"
          <6>1. Todo(c) = {h, Order("purge", h.row)}  BY <5>3, <1>0, Following
          <6>2. h = Order("erase", i)  BY <6>1, <3>1, <4>1, Orders
          <6> QED  BY <6>2, <4>3, <5>3, Orders DEF Broken
        <5> QED  BY <4>3, <5>1, <5>2, <5>3 DEF Broken
      <4> QED  BY <4>1, <4>2, <4>3
    <3> QED  BY <3>2, <3>3
  <2> QED  BY <2>1, <2>2, <1>2 DEF InstanceRow
<1> QED  BY <1>0, <1>1, <1>2 DEF InstanceRow

\* An error ends no call that is to save an entry in its map, or delete a row for good.
LEMMA BrokenEnds ==
  ASSUME Base, NEW c \in Call, NEW h, HeadIs(c, h), Broken(c, h), NEW e \in Entry
  PROVE  /\ Order("save", e) \in Todo(c) => Order("insert", e) \in Todo(c)
         /\ Order("delete", e) \in Todo(c) => e \in stray'
         /\ Order("forget", e) \notin Todo(c)
         /\ \A i : Order("sweep", i) \notin Todo(c)
         /\ \A i : Order("erase", i) \in Todo(c) \/ Order("purge", i) \in Todo(c) => EntriesOf(i) \subseteq stray'
<1>1. CASE h.do \in {"take", "park", "end"}
  <2>1. h.do \in {"take"} \cup MoveVerb /\ h.do \in TokenVerb
    BY <1>1 DEF MoveVerb, TokenVerb, EntryVerb, MakeVerb
  <2>2. \A x \in Todo(c) : x.do # "forget" /\ x.do \notin WipeVerb
    BY <1>1, <2>1, Following DEF WipeVerb
  <2>3. \A r : Order("delete", r) \in Todo(c) => r \in stray'  BY <1>1 DEF Broken
  <2>4. Order("save", e) \in Todo(c) => Order("insert", e) \in Todo(c)  BY <2>1, Following
  <2> QED  BY <2>2, <2>3, <2>4, Orders DEF WipeVerb
<1>2. CASE h.do = "fetch"
  <2>1. Todo(c) = {h, Order("write", h.row)}  BY <1>2, Following
  <2> QED  BY <1>2, <2>1, Orders
<1>3. CASE h.do = "erase"
  <2>1. Todo(c) = {h, Order("purge", h.row)} /\ h = Order("erase", h.row)  BY <1>3, Following
  <2>2. EntriesOf(h.row) \subseteq stray'  BY <1>3 DEF Broken
  <2>3. \A x \in Todo(c) : x.do \in {"erase", "purge"} /\ x.row = h.row  BY <2>1, Orders
  <2> QED  BY <2>2, <2>3, Orders
<1> QED  BY <1>1, <1>2, <1>3 DEF Broken

LEMMA CallEntries ==
  ASSUME Base, NEW c \in Call, CallStep(c), NEW h, CallEffect(c, h),
         NEW e \in Entry, e \notin stray', e[3] # "boundary", ClearedEntry(e), EntryRow(e)
  PROVE  EntryRow(e)'
<1>0. /\ HeadIs(c, h) /\ \A d \in Call : Todo(d)' \subseteq Todo(d)
      /\ stray \subseteq stray' /\ Jobs \subseteq Jobs'
  BY CallOps, CallJobs DEF CallEffect, JobStep
<1>m. /\ e \in pending' => e \in pending \/ h = Order("insert", e)
      /\ e \in pending => \/ e \in pending' \/ h = Order("drop", e)
                          \/ h = Order("purge", InstOf[e[1]]) /\ e \notin rows
  BY <1>0 DEF CallEffect, MapStep
<1>r. /\ e \in rows' => e \in rows \/ (e \in pending /\ e \in pending')
      /\ e \in rows => \/ e \in rows' \/ h \in {Order("delete", e), Order("forget", e)}
                       \/ h = Order("sweep", InstOf[e[1]]) /\ Advances(c, h)
  BY DEF CallEffect, RowStep
<1>i. e \in EntriesOf(InstOf[e[1]])  BY DEF EntriesOf
<1>1. ASSUME e \in pending, e \in pending'
      PROVE  e \in rows' \/ SaveDue(e)' \/ Order("save", e) \in Jobs' \/ Wiped(InstOf[e[1]])'
  <2>1. CASE e \in rows /\ e \notin rows'
    <3>1. h \notin {Order("delete", e), Order("forget", e)}
      <4>1. Order("delete", e) \in Todo(c) \/ Order("forget", e) \in Todo(c) => Order("drop", e) \in Todo(c)
        BY <1>1 DEF ClearedEntry
      <4>2. h \in Todo(c) /\ (h.do \in {"delete", "forget"} => Order("drop", h.row) \notin Todo(c))
        BY <1>0, Following
      <4> QED  BY <4>1, <4>2, Orders
    <3>2. h = Order("sweep", InstOf[e[1]]) /\ Advances(c, h)  BY <2>1, <3>1, <1>r
    <3>3. Todo(c) = {h, Order("erase", h.row), Order("purge", h.row)}  BY <3>2, <1>0, Following, Orders
    <3>4. Order("purge", InstOf[e[1]]) \in Todo(c)'  BY <3>2, <3>3, Orders DEF Advances
    <3> QED  BY <3>4 DEF Wiped, Due, WipeVerb
  <2>2. CASE SaveDue(e)
    <3>1. PICK d \in Call : Order("save", e) \in Todo(d) /\ Order("insert", e) \notin Todo(d)
      BY <2>2 DEF SaveDue
    <3>2. CASE Order("save", e) \in Todo(d)'  BY <3>1, <3>2, <1>0 DEF SaveDue
    <3>3. CASE Order("save", e) \notin Todo(d)'
      <4>1. d = c /\ ((h = Order("save", e) /\ Advances(c, h)) \/ Broken(c, h))  BY <3>1, <3>3, Lost
      <4>2. ~Broken(c, h)  BY <3>1, <4>1, <1>0, BrokenEnds
      <4>3. e \in rows' \/ Order("save", e) \in Jobs' \/ e \in stray'
        BY <4>1, <4>2, <1>1, Orders DEF CallEffect, Done
      <4> QED  BY <4>3
    <3> QED  BY <3>2, <3>3
  <2>3. CASE Wiped(InstOf[e[1]])
    <3>1. PICK do \in WipeVerb, d \in Call : Order(do, InstOf[e[1]]) \in Todo(d)  BY <2>3 DEF Wiped, Due
    <3>2. CASE Order(do, InstOf[e[1]]) \in Todo(d)'  BY <3>2 DEF Wiped, Due
    <3>3. CASE Order(do, InstOf[e[1]]) \notin Todo(d)'
      <4>1. d = c /\ ((h = Order(do, InstOf[e[1]]) /\ Advances(c, h)) \/ Broken(c, h))
        BY <3>1, <3>3, Lost
      <4>2. ~Broken(c, h)  BY <3>1, <4>1, <1>0, <1>i, BrokenEnds DEF WipeVerb
      <4>3. h.do = do /\ h.row = InstOf[e[1]]  BY <4>1, <4>2, Orders
      <4>4. do # "purge"  BY <4>1, <4>2, <4>3, <1>1, <1>i DEF CallEffect, Done
      <4>5. Order("purge", InstOf[e[1]]) \in Todo(c) \ {h}
        <5>1. \/ Todo(c) = {h, Order("purge", h.row)}
              \/ Todo(c) = {h, Order("erase", h.row), Order("purge", h.row)}
          BY <4>3, <4>4, <1>0, Following DEF WipeVerb
        <5> QED  BY <5>1, <4>3, <4>4, Orders
      <4>6. Order("purge", InstOf[e[1]]) \in Todo(c)'  BY <4>1, <4>2, <4>5 DEF Advances
      <4> QED  BY <4>6 DEF Wiped, Due, WipeVerb
    <3> QED  BY <3>2, <3>3
  <2> QED  BY <2>1, <2>2, <2>3, <1>0, <1>1 DEF EntryRow
<1>2. ASSUME e \notin pending, e \in pending' PROVE SaveDue(e)'
  <2>1. h = Order("insert", e)  BY <1>2, <1>m
  <2>2. Order("save", e) \in Todo(c) \ {h}  BY <2>1, <1>0, Following, Orders
  <2>3. Todo(c)' = Todo(c) \ {h}
    BY <2>1, <1>0, Inserting, Orders DEF Advances
  <2>4. Order("save", e) \in Todo(c)' /\ Order("insert", e) \notin Todo(c)'  BY <2>1, <2>2, <2>3
  <2> QED  BY <2>4 DEF SaveDue
<1>3. ASSUME e \notin pending', e \in rows' PROVE DeleteDue(e)' \/ Order("delete", e) \in Jobs'
  <2>0. e \in rows  BY <1>3, <1>r
  <2>1. CASE e \notin pending
    <3>1. CASE Order("delete", e) \in Jobs  BY <3>1, <1>0
    <3>2. CASE DeleteDue(e)
      <4>1. PICK do \in {"delete", "forget"}, d \in Call : Order(do, e) \in Todo(d)
        BY <3>2 DEF DeleteDue, Due
      <4>2. CASE Order(do, e) \in Todo(d)'  BY <4>2 DEF DeleteDue, Due
      <4>3. CASE Order(do, e) \notin Todo(d)'
        <5>1. d = c /\ ((h = Order(do, e) /\ Advances(c, h)) \/ Broken(c, h))  BY <4>1, <4>3, Lost
        <5>2. ~Broken(c, h)  BY <4>1, <5>1, <1>0, BrokenEnds
        <5>3. h.do = do /\ h.row = e /\ Advances(c, h)  BY <5>1, <5>2, Orders
        <5> QED  BY <5>3, <1>3 DEF CallEffect, Done
      <4> QED  BY <4>2, <4>3
    <3> QED  BY <3>1, <3>2, <2>0, <2>1 DEF EntryRow
  <2>2. CASE e \in pending
    <3>1. h = Order("drop", e)  BY <2>0, <2>2, <1>3, <1>m
    <3>2. Order("delete", e) \in Todo(c) \ {h} \/ Order("forget", e) \in Todo(c) \ {h}
      BY <3>1, <1>0, Following, Orders
    <3>3. ~Broken(c, h)  BY <3>1, Orders DEF Broken
    <3>4. Todo(c) \ {h} \subseteq Todo(c)'
      BY <3>3 DEF CallEffect, ProgramStep, Advances
    <3> QED  BY <3>2, <3>4 DEF DeleteDue, Due
  <2> QED  BY <2>1, <2>2
<1> QED  BY <1>1, <1>2, <1>3 DEF EntryRow

LEMMA CallCleared ==
  ASSUME Base, NEW c \in Call, CallStep(c), NEW h, CallEffect(c, h),
         NEW e \in Entry, \A d \in Call : FreshEntry(d, e), ClearedEntry(e)
  PROVE  ClearedEntry(e)'
<1>0. HeadIs(c, h) /\ h \in Todo(c) /\ \A d \in Call : Todo(d)' \subseteq Todo(d)
  BY CallOps DEF CallEffect, HeadIs
<1>m. e \in pending' => e \in pending \/ h = Order("insert", e)
  BY DEF CallEffect, MapStep
<1>1. ASSUME Order("delete", e) \in Jobs' PROVE e \notin pending'
  <2>1. CASE Order("delete", e) \in Jobs
    <3>1. e \notin pending /\ e \in JobRows
      BY <2>1, RowsOfJobs, Orders DEF ClearedEntry
    <3> QED  BY <3>1, <1>0, <1>m DEF FreshEntry
  <2>2. CASE Order("delete", e) \notin Jobs
    <3>1. /\ Order("delete", e) = Order(KindOf(h.do), h.row) /\ pending' = pending
          /\ h.do \in {"delete", "save", "write"}
      BY <1>1, <2>2 DEF CallEffect, JobStep
    <3>2. h.row = e /\ h.do = "delete"  BY <3>1, Orders DEF KindOf
    <3>3. Order("drop", e) \notin Todo(c) /\ h = Order("delete", e)  BY <3>2, <1>0, Following
    <3> QED  BY <3>1, <3>3, <1>0 DEF ClearedEntry
  <2> QED  BY <2>1, <2>2
<1>2. ASSUME NEW d \in Call, Order("delete", e) \in Todo(d)' \/ Order("forget", e) \in Todo(d)', e \in pending'
      PROVE  Order("drop", e) \in Todo(d)'
  <2>1. Order("delete", e) \in Todo(d) \/ Order("forget", e) \in Todo(d)  BY <1>0, <1>2
  <2>2. CASE e \in pending
    <3>1. Order("drop", e) \in Todo(d)  BY <2>1, <2>2 DEF ClearedEntry
    <3>2. CASE Order("drop", e) \notin Todo(d)'
      <4>1. d = c /\ ((h = Order("drop", e) /\ Advances(c, h)) \/ Broken(c, h))  BY <3>1, <3>2, Lost
      <4>2. ~Broken(c, h)  BY <4>1, <1>2 DEF Broken, Stops
      <4> QED  BY <4>1, <4>2, <1>2, Orders DEF CallEffect, Done
    <3> QED  BY <3>2
  <2>3. CASE e \notin pending
    <3>1. h = Order("insert", e)  BY <2>3, <1>2, <1>m
    <3>2. \A x \in Todo(d) : x.row = e => x.do \in MakeVerb  BY <3>1, <1>0 DEF FreshEntry
    <3> QED  BY <3>2, <2>1, Orders DEF MakeVerb
  <2> QED  BY <2>2, <2>3
<1> QED  BY <1>1, <1>2 DEF ClearedEntry

LEMMA CallFresh ==
  ASSUME Base, NEW c \in Call, CallStep(c), NEW h, CallEffect(c, h),
         NEW e \in Entry, NEW d \in Call, FreshEntry(d, e)
  PROVE  FreshEntry(d, e)'
<1>0. HeadIs(c, h) /\ h \in Todo(c) /\ h = Order(h.do, h.row) /\ \A b \in Call : Todo(b)' \subseteq Todo(b)
  BY CallOps, Following DEF CallEffect
<1> SUFFICES ASSUME Order("insert", e) \in Todo(d)'
             PROVE  /\ e \notin pending' \cup rows' \cup JobRows'
                    /\ \A b \in Call : \A x \in Todo(b)' : x.row = e => b = d /\ x.do \in MakeVerb
  BY DEF FreshEntry
<1>1. /\ e \notin pending /\ e \notin rows /\ e \notin JobRows
      /\ \A b \in Call : \A x \in Todo(b) : x.row = e => b = d /\ x.do \in MakeVerb
  BY <1>0 DEF FreshEntry
<1>2. e \notin pending'
  <2>1. ASSUME h = Order("insert", e) PROVE FALSE
    <3>1. c = d  BY <2>1, <1>0, <1>1, Orders
    <3>2. h \notin Todo(c)'  BY <2>1, <1>0, Inserting, Orders DEF Advances
    <3> QED  BY <2>1, <3>1, <3>2
  <2> QED  BY <2>1, <1>1 DEF CallEffect, MapStep
<1>3. e \notin rows'  BY <1>1 DEF CallEffect, RowStep
<1>4. e \notin JobRows'
  <2> SUFFICES ASSUME NEW j \in Jobs', j.row = e PROVE FALSE  BY RowsOfJobs
  <2>1. j \notin Jobs  BY <1>1, RowsOfJobs
  <2>2. /\ j = Order(KindOf(h.do), h.row) /\ h.do \in {"delete", "save", "write"}
        /\ h.do = "save" => h.row \in pending
    BY <2>1 DEF CallEffect, JobStep
  <2>3. h.row = e  BY <2>2, Orders
  <2> QED  BY <2>2, <2>3, <1>0, <1>1 DEF MakeVerb
<1> QED  BY <1>0, <1>1, <1>2, <1>3, <1>4

LEMMA StoredCalls ==
  ASSUME Base, Stored, NEW c \in Call, CallStep(c)
  PROVE  Stored'
<1>1. PICK h : CallEffect(c, h)  BY CallEffects
<1>2. /\ running' = running /\ stray \subseteq stray' /\ \A d \in Call : Todo(d)' \subseteq Todo(d)
      /\ live' = live
  BY <1>1, CallJobs, CallOps DEF CallEffect, HeapStep
<1>3. running # "crashed"  BY <1>1 DEF CallEffect, HeadIs, Base, Modes
<1>4. Deleting /\ Deleting'  BY <1>2 DEF Stored, Deleting, Wiped, Due
<1>5. InstanceRows'
  <2> SUFFICES ASSUME NEW i \in Instance \ stray' PROVE InstanceRow(i)'  BY DEF InstanceRows
  <2>1. InstanceRow(i)  BY <1>2, <1>3 DEF Stored, InstanceRows, Known
  <2> QED  BY <2>1, <1>1, <1>4, CallInstances
<1>6. EntryRows'
  <2> SUFFICES ASSUME NEW e \in Entry \ stray', e[3] # "boundary" PROVE EntryRow(e)'  BY DEF EntryRows
  <2>1. EntryRow(e) /\ ClearedEntry(e)  BY <1>2, <1>3 DEF Stored, EntryRows, Cleared
  <2> QED  BY <2>1, <1>1, CallEntries
<1>7. Cleared'  BY <1>1, CallCleared DEF Stored, Cleared, Fresh
<1>8. Fresh'  BY <1>1, CallFresh DEF Stored, Fresh
<1> QED  BY <1>4, <1>5, <1>6, <1>7, <1>8 DEF Stored

----------------------------------------------------------------------------
(***************************************************************************)
(* The store follows: calls that begin, the worker, shutdown and restart.  *)
(***************************************************************************)
\* What a call that begins leaves alone.
LEMMA BeginFrame ==
  ASSUME Base, NEW c \in Call, NEW p, Begin(c, p), Sound(p)
  PROVE  /\ Starts(c, Range(p)) /\ Jobs' = Jobs /\ JobRows' = JobRows /\ rows' = rows
         /\ saved' = saved /\ savedAt' = savedAt /\ savedClosed' = savedClosed
         /\ stray' = stray /\ exposed' = exposed /\ running' = running
         /\ \A i : WriteDue(i) => WriteDue(i)'
         /\ \A e : SaveDue(e) => SaveDue(e)'
         /\ \A do, r : Due(do, r) => Due(do, r)'
<1>1. UNCHANGED diskVars /\ UNCHANGED workVars /\ UNCHANGED modeVars /\ UNCHANGED ghostVars  BY DEF Begin
<1>2. Jobs' = Jobs  BY <1>1, SameJobs DEF workVars
<1>3. Starts(c, Range(p))  BY Starting
<1>4. \A d \in Call : Todo(d) = {} \/ Todo(d)' = Todo(d)  BY <1>3 DEF Starts, Others
<1>5. ASSUME NEW i, WriteDue(i) PROVE WriteDue(i)'
  <2>1. PICK d \in Call : Order("write", i) \in Todo(d) /\ \A x \in Todo(d) : x.do # "take"
    BY <1>5 DEF WriteDue
  <2>2. Todo(d)' = Todo(d)  BY <2>1, <1>4
  <2> QED  BY <2>1, <2>2 DEF WriteDue
<1>6. ASSUME NEW e, SaveDue(e) PROVE SaveDue(e)'
  <2>1. PICK d \in Call : Order("save", e) \in Todo(d) /\ Order("insert", e) \notin Todo(d)
    BY <1>6 DEF SaveDue
  <2>2. Todo(d)' = Todo(d)  BY <2>1, <1>4
  <2> QED  BY <2>1, <2>2 DEF SaveDue
<1>7. \A do, r : Due(do, r) => Due(do, r)'  BY <1>4 DEF Due
<1> QED  BY <1>1, <1>2, <1>3, <1>5, <1>6, <1>7, RowsOfJobs DEF diskVars, modeVars, ghostVars

LEMMA StoredComplete ==
  ASSUME Base, Stored, NEW c \in Call, NEW e \in Entry, Complete(c, e)
  PROVE  Stored'
<1>1. PICK k \in Copy : /\ New(e[1], e[2] + 1, k) /\ Begin(c, Program(e, k))
                        /\ Sound(Program(e, k)) /\ Leading(e, k, Range(Program(e, k)))
                        /\ Leaves(e, Range(Program(e, k)))
  BY CompleteBegins
<1>2. PICK S : S = Range(Program(e, k))  OBVIOUS
<1>3. Leading(e, k, S) /\ Leaves(e, S) /\ \A x \in S : Fit(x)  BY <1>1, <1>2, SoundFit
<1>4. /\ Starts(c, S) /\ Jobs' = Jobs /\ JobRows' = JobRows /\ rows' = rows
      /\ saved' = saved /\ savedAt' = savedAt /\ savedClosed' = savedClosed
      /\ stray' = stray /\ exposed' = exposed /\ running' = running
  BY <1>1, <1>2, BeginFrame
<1>5. /\ e \in pending /\ ~Handled(e[1]) /\ live' = live /\ at' = at /\ closed' = closed
      /\ pending' = pending \ {e}
  BY DEF Complete
<1>6. Todo(c) = {} /\ Todo(c)' = S /\ \A d \in Call : d # c => Todo(d)' = Todo(d)
  BY <1>4 DEF Starts, Others
<1>7. /\ \A i : WriteDue(i) => WriteDue(i)'
      /\ \A f : SaveDue(f) => SaveDue(f)'
      /\ \A do, r : Due(do, r) => Due(do, r)'
  BY <1>1, BeginFrame
<1>8. \A x \in S : x.do \notin WipeVerb
  BY <1>3 DEF Leading, WipeVerb, KeepVerb, MakeVerb, ClearVerb
<1>9. Deleting'
  <2>1. \A i \in Instance : Wiped(i)' => Wiped(i)  BY <1>6, <1>8, Orders DEF Wiped, Due
  <2> QED  BY <2>1, <1>5 DEF Stored, Deleting
<1>10. InstanceRows'
  <2> SUFFICES ASSUME NEW i \in Instance \ stray, Known(i) PROVE InstanceRow(i)'
    BY <1>4 DEF InstanceRows, Known
  <2>1. InstanceRow(i)  BY DEF Stored, InstanceRows
  <2>2. Matches(i) => Matches(i)'  BY <1>4, <1>5 DEF Matches
  <2>3. (WriteDue(i) => WriteDue(i)') /\ (Due("erase", i) => Due("erase", i)')  BY <1>7
  <2> QED  BY <2>1, <2>2, <2>3, <1>4, <1>5 DEF InstanceRow
<1>11. EntryRows'
  <2> SUFFICES ASSUME NEW f \in Entry \ stray, f[3] # "boundary", running # "crashed" \/ f[1] \notin exposed
               PROVE  EntryRow(f)'
    BY <1>4 DEF EntryRows
  <2>1. EntryRow(f)  BY DEF Stored, EntryRows
  <2>2. SaveDue(f) => SaveDue(f)'  BY <1>7
  <2>3. Wiped(InstOf[f[1]]) => Wiped(InstOf[f[1]])'  BY <1>7 DEF Wiped
  <2>4. DeleteDue(f) => DeleteDue(f)'  BY <1>7 DEF DeleteDue
  <2>5. f = e => DeleteDue(f)'
    <3>1. KeptFit(e)  BY DEF Base, Shape
    <3>2. SameWait(e, e) /\ e[3] \in Parts(e[2])  BY <3>1, <1>5 DEF SameWait, KeptFit
    <3>3. f = e => Order("delete", f) \in S \/ Order("forget", f) \in S
      BY <3>2, <1>3 DEF Leaves
    <3> QED  BY <3>3, <1>6 DEF DeleteDue, Due
  <2> QED  BY <2>1, <2>2, <2>3, <2>4, <2>5, <1>4, <1>5 DEF EntryRow
<1>12. Cleared'
  <2> SUFFICES ASSUME NEW f \in Entry PROVE ClearedEntry(f)'  BY DEF Cleared
  <2>1. ClearedEntry(f)  BY DEF Stored, Cleared
  <2>2. ASSUME NEW d \in Call, Order("delete", f) \in Todo(d)' \/ Order("forget", f) \in Todo(d)', f \in pending'
        PROVE  Order("drop", f) \in Todo(d)'
    <3>1. CASE d = c  BY <3>1, <2>2, <1>3, <1>5, <1>6 DEF Leaves
    <3>2. CASE d # c  BY <3>2, <2>1, <2>2, <1>5, <1>6 DEF ClearedEntry
    <3> QED  BY <3>1, <3>2
  <2> QED  BY <2>1, <2>2, <1>4, <1>5 DEF ClearedEntry
<1>13. Fresh'
  <2> SUFFICES ASSUME NEW d \in Call, NEW f \in Entry, Order("insert", f) \in Todo(d)'
               PROVE  /\ f \notin pending' \cup rows' \cup JobRows'
                      /\ \A b \in Call : \A x \in Todo(b)' : x.row = f => b = d /\ x.do \in MakeVerb
    BY DEF Fresh, FreshEntry
  <2>1. CASE d # c
    <3>1. Order("insert", f) \in Todo(d)  BY <2>1, <1>6
    <3>2. /\ f \notin pending \cup rows \cup JobRows
          /\ \A b \in Call : \A x \in Todo(b) : x.row = f => b = d /\ x.do \in MakeVerb
      BY <3>1 DEF Stored, Fresh, FreshEntry
    <3>3. f[1] # e[1]
      BY <3>1, <1>5, Orders DEF Handled, Todo
    <3>4. \A x \in S : x.row # f
      <4>1. \A x \in S : x.row = f => f[1] = e[1]
        BY <1>3, Names, Entries DEF Leading, SameWait
      <4> QED  BY <3>3, <4>1
    <3> QED  BY <3>2, <3>4, <1>4, <1>5, <1>6
  <2>2. CASE d = c
    <3>1. Order("insert", f) \in S  BY <2>2, <1>6
    <3>2. f[1] = e[1] /\ f[2] = e[2] + 1 /\ f[4] = k
      BY <3>1, <1>3, Orders DEF Leading, KeepVerb, ClearVerb
    <3>3. f = <<e[1], e[2] + 1, f[3], k>> /\ f[3] \in Part  BY <3>2, Entries
    <3>4. ~Used(f)  BY <3>3, <1>1 DEF New
    <3>5. /\ f \notin pending \cup rows \cup JobRows
          /\ \A b \in Call : \A x \in Todo(b) : x.row # f
      BY <3>4 DEF Used, Todo
    <3>6. e[2] \in Nat
      <4>1. e[2] \in 1..Len(Route) /\ Len(Route) \in Nat  BY Names, Entries
      <4> QED  BY <4>1
    <3>7. ASSUME NEW x \in S, x.row = f PROVE x.do \in MakeVerb
      <4>1. f[2] # e[2]  BY <3>2, <3>6
      <4>2. e[1] \in Token /\ f # InstOf[e[1]] /\ f # e[1]  BY Names, Entries
      <4> QED  BY <3>7, <4>1, <4>2, <1>3 DEF Leading, SameWait
    <3> QED  BY <2>2, <3>5, <3>7, <1>4, <1>5, <1>6
  <2> QED  BY <2>1, <2>2
<1> QED  BY <1>9, <1>10, <1>11, <1>12, <1>13 DEF Stored

LEMMA StoredDelete ==
  ASSUME Base, Stored, NEW c \in Call, NEW i \in Instance, DeleteInstance(c, i)
  PROVE  Stored'
<1>1. Begin(c, DeleteProgram(i)) /\ Sound(DeleteProgram(i))  BY DeleteSound DEF DeleteInstance
<1>2. PICK S : S = {Order("sweep", i), Order("erase", i), Order("purge", i)}  OBVIOUS
<1>3. Range(DeleteProgram(i)) = S  BY <1>2, DeleteSound
<1>4. /\ Starts(c, S) /\ Jobs' = Jobs /\ JobRows' = JobRows /\ rows' = rows
      /\ saved' = saved /\ savedAt' = savedAt /\ savedClosed' = savedClosed
      /\ stray' = stray /\ exposed' = exposed /\ running' = running
  BY <1>1, <1>3, BeginFrame
<1>5. live' = live \ {i} /\ at' = at /\ closed' = closed /\ pending' = pending
  BY DEF DeleteInstance
<1>6. Todo(c) = {} /\ Todo(c)' = S /\ \A d \in Call : d # c => Todo(d)' = Todo(d)
  BY <1>4 DEF Starts, Others
<1>7. /\ \A j : WriteDue(j) => WriteDue(j)'
      /\ \A f : SaveDue(f) => SaveDue(f)'
      /\ \A do, r : Due(do, r) => Due(do, r)'
  BY <1>1, BeginFrame
<1>8. \A x \in S : x.do \in WipeVerb /\ x.row = i  BY <1>2, Orders DEF WipeVerb
<1>9. Deleting'
  <2>1. \A j \in Instance : Wiped(j)' => Wiped(j) \/ j = i  BY <1>6, <1>8, Orders DEF Wiped, Due
  <2> QED  BY <2>1, <1>5 DEF Stored, Deleting
<1>10. InstanceRows'
  <2> SUFFICES ASSUME NEW j \in Instance \ stray, Known(j) PROVE InstanceRow(j)'
    BY <1>4 DEF InstanceRows, Known
  <2>1. InstanceRow(j)  BY DEF Stored, InstanceRows
  <2>2. Matches(j) => Matches(j)'  BY <1>4, <1>5 DEF Matches
  <2>3. (WriteDue(j) => WriteDue(j)') /\ (Due("erase", j) => Due("erase", j)')  BY <1>7
  <2>5. Due("erase", i)'  BY <1>2, <1>6 DEF Due
  <2> QED  BY <2>1, <2>2, <2>3, <2>5, <1>4, <1>5 DEF InstanceRow
<1>11. EntryRows'
  <2> SUFFICES ASSUME NEW f \in Entry \ stray, f[3] # "boundary", running # "crashed" \/ f[1] \notin exposed
               PROVE  EntryRow(f)'
    BY <1>4 DEF EntryRows
  <2>1. EntryRow(f)  BY DEF Stored, EntryRows
  <2>2. SaveDue(f) => SaveDue(f)'  BY <1>7
  <2>3. Wiped(InstOf[f[1]]) => Wiped(InstOf[f[1]])'  BY <1>7 DEF Wiped
  <2>4. DeleteDue(f) => DeleteDue(f)'  BY <1>7 DEF DeleteDue
  <2> QED  BY <2>1, <2>2, <2>3, <2>4, <1>4, <1>5 DEF EntryRow
<1>12. Cleared'
  <2> SUFFICES ASSUME NEW f \in Entry PROVE ClearedEntry(f)'  BY DEF Cleared
  <2>1. ClearedEntry(f)  BY DEF Stored, Cleared
  <2>2. \A do \in {"delete", "forget"} : Order(do, f) \notin S  BY <1>8, Orders DEF WipeVerb
  <2> QED  BY <2>1, <2>2, <1>4, <1>5, <1>6 DEF ClearedEntry
<1>13. Fresh'
  <2> SUFFICES ASSUME NEW d \in Call, NEW f \in Entry PROVE FreshEntry(d, f)'  BY DEF Fresh
  <2>1. FreshEntry(d, f)  BY DEF Stored, Fresh
  <2>2. Order("insert", f) \notin S  BY <1>8, Orders DEF WipeVerb
  <2>3. \A x \in S : x.row # f  BY <1>8, Names
  <2> QED  BY <2>1, <2>2, <2>3, <1>4, <1>5, <1>6 DEF FreshEntry
<1> QED  BY <1>9, <1>10, <1>11, <1>12, <1>13 DEF Stored

\* What a step of the worker does: an attempt at its job is made, retried or given up.
LEMMA WorkerEffects ==
  ASSUME Base, WorkerStep
  PROVE  /\ UNCHANGED memVars /\ exposed' = exposed /\ running' = running
         /\ stray \subseteq stray' /\ Jobs' \subseteq Jobs
         /\ \A c \in Call : Todo(c)' = Todo(c)
         /\ \A e \in Entry : e \notin stray' =>
              /\ e \in rows' => e \in rows \/ e \in pending
              /\ e \in rows => e \in rows' \/ Order("delete", e) \in Jobs
              /\ Order("save", e) \in Jobs => Order("save", e) \in Jobs' \/ e \notin pending \/ e \in rows'
              /\ Order("delete", e) \in Jobs => Order("delete", e) \in Jobs' \/ e \notin rows'
         /\ \A i \in Instance : i \notin stray' =>
              /\ Matches(i) => Matches(i)'
              /\ i \in saved' => i \in saved \/ i \in live
              /\ Order("save", i) \in Jobs => Order("save", i) \in Jobs' \/ i \notin live \/ Matches(i)'
<1>1. /\ UNCHANGED memVars /\ exposed' = exposed /\ UNCHANGED modeVars
  BY DEF WorkerStep, Receive, SkipJob, FindInstance, ExecuteJob, ghostVars
<1>2. live' = live /\ at' = at /\ closed' = closed /\ pending' = pending /\ running' = running
  BY <1>1 DEF memVars, modeVars
<1>3. /\ ops' = ops /\ stray \subseteq stray' /\ Jobs' \subseteq Jobs  BY WorkerJobs
<1>4. \A c \in Call : Todo(c)' = Todo(c)  BY <1>3, SameOps
<1>5. CASE Receive \/ SkipJob \/ FindInstance
  <2>1. UNCHANGED diskVars  BY <1>5 DEF Receive, SkipJob, FindInstance
  <2>2. rows' = rows /\ saved' = saved /\ UNCHANGED <<saved, savedAt, savedClosed>>  BY <2>1 DEF diskVars
  <2>3. \A i \in Instance : Matches(i)' <=> Matches(i)  BY <2>2, <1>2, MatchesKept
  <2>4. ASSUME NEW j \in Jobs \ Jobs' PROVE j.do = "save" /\ j.row \notin live /\ j.row \notin pending
    <3>1. CASE Receive  BY <3>1, <2>4, Receiving
    <3>2. CASE FindInstance  BY <3>2, <2>4, Keeping DEF FindInstance
    <3>3. CASE SkipJob
      <4>1. j = worker.job  BY <3>3, <2>4, Finishing DEF SkipJob
      <4> QED  BY <4>1, <3>3 DEF SkipJob, Gone
    <3> QED  BY <1>5, <3>1, <3>2, <3>3
  <2>5. \A r : Order("delete", r) \in Jobs => Order("delete", r) \in Jobs'  BY <2>4, Orders
  <2>6. \A r : Order("save", r) \in Jobs => Order("save", r) \in Jobs' \/ (r \notin live /\ r \notin pending)
    BY <2>4, Orders
  <2> QED  BY <2>2, <2>3, <2>5, <2>6, <1>1, <1>2, <1>3, <1>4
<1>6. CASE ExecuteJob
  <2>1. PICK do, r : do = worker.job.do /\ r = worker.job.row  OBVIOUS
  <2>2. /\ worker.job = Order(do, r) /\ worker.job \in Jobs /\ do \in {"save", "delete"} /\ r \in Row
        /\ r \in Instance => do = "save"
        /\ r \in Entry => r[3] # "boundary" /\ (do = "save" => r \in pending)
        /\ Write(do, r) \/ WriteFails(do, r)
    <3>1. worker.job \in Job  BY <1>6, WorkerStates DEF ExecuteJob
    <3>2. worker.job = Order(do, r)  BY <2>1, <3>1, Orders
    <3> QED  BY <2>1, <3>2, <1>6, WorkerJobs, Names DEF JobFit
  <2>3. /\ Write(do, r) \/ Jobs' = Jobs \/ r \in stray'
        /\ r \in Instance => r \in live \/ r \in stray'
        /\ Jobs' = Jobs \/ Jobs = Jobs' \cup {worker.job}
    <3>1. /\ \/ Write(do, r) /\ worker' = Idle
             \/ worker' = [worker EXCEPT !.attempt = @ + 1, !.found = FALSE]
             \/ worker' = Idle /\ r \in stray'
          /\ queue' = queue /\ Working
      BY <2>1, <1>6 DEF ExecuteJob
    <3>2. worker \in [job : Job \cup {NoJob, Shutdown}, attempt : 0..(MaxRetries - 1), found : BOOLEAN]
      BY TypeParts DEF Base, WorkTyped
    <3>3. [worker EXCEPT !.attempt = @ + 1, !.found = FALSE].job = worker.job  BY <3>2
    <3>4. worker'.job = worker.job => Jobs' = Jobs  BY <3>1, Keeping
    <3>5. worker' = Idle => Jobs = Jobs' \cup {worker.job}  BY <3>1, Finishing
    <3>6. r \in Instance => r \in live \/ r \in stray'
      BY <2>1, <2>2, <1>6 DEF ExecuteJob
    <3> QED  BY <3>1, <3>3, <3>4, <3>5, <3>6
  <2>4. CASE r \in Entry
    <3>1. /\ \A e \in Entry : /\ e \in rows' => e \in rows \/ (e = r /\ do = "save")
                              /\ e \in rows => e \in rows' \/ (e = r /\ do = "delete")
          /\ Write(do, r) => (r \in rows' <=> do = "save")
          /\ UNCHANGED <<saved, savedAt, savedClosed>>
      BY <2>2, <2>4, WriteRows
    <3>2. \A i \in Instance : Matches(i)' <=> Matches(i)  BY <3>1, <1>2, MatchesKept
    <3>3. ASSUME NEW e \in Entry, e \notin stray'
          PROVE  /\ e \in rows' => e \in rows \/ e \in pending
                 /\ e \in rows => e \in rows' \/ Order("delete", e) \in Jobs
                 /\ Order("save", e) \in Jobs => Order("save", e) \in Jobs' \/ e \notin pending \/ e \in rows'
                 /\ Order("delete", e) \in Jobs => Order("delete", e) \in Jobs' \/ e \notin rows'
      <4>1. CASE e = r
        <5>1. Jobs' = Jobs \/ Write(do, r)  BY <4>1, <3>3, <2>3
        <5>2. \A v : v # do => (Order(v, e) \in Jobs => Order(v, e) \in Jobs')  BY <2>2, <2>3, Orders
        <5> QED  BY <4>1, <5>1, <5>2, <3>1, <2>2, <2>4
      <4>2. CASE e # r
        <5>1. \A v : Order(v, e) \in Jobs => Order(v, e) \in Jobs'  BY <4>2, <2>2, <2>3, Orders
        <5> QED  BY <4>2, <5>1, <3>1
      <4> QED  BY <4>1, <4>2
    <3>4. \A i \in Instance : Order("save", i) \in Jobs => Order("save", i) \in Jobs'
      BY <2>2, <2>3, <2>4, Orders, Names
    <3> QED  BY <3>1, <3>2, <3>3, <3>4, <1>1, <1>2, <1>3, <1>4
  <2>5. CASE r \in Instance
    <3>1. do = "save"  BY <2>2, <2>5
    <3>2. /\ \A j \in Instance : Matches(j) => Matches(j)'
          /\ \A j \in Instance : j \in saved' => j \in saved \/ j = r
          /\ Write(do, r) => Matches(r)'
          /\ rows' = rows
      BY <2>2, <2>5, <3>1, <1>1, InstanceWrite
    <3>3. \A e \in Entry : \A v : Order(v, e) \in Jobs => Order(v, e) \in Jobs'
      BY <2>2, <2>3, <2>5, Orders, Names
    <3>4. ASSUME NEW i \in Instance, i \notin stray'
          PROVE  /\ i \in saved' => i \in saved \/ i \in live
                 /\ Order("save", i) \in Jobs => Order("save", i) \in Jobs' \/ i \notin live \/ Matches(i)'
      <4>1. CASE i = r  BY <4>1, <3>2, <3>4, <2>2, <2>3, <2>5
      <4>2. CASE i # r
        <5>1. Order("save", i) \in Jobs => Order("save", i) \in Jobs'  BY <4>2, <2>2, <2>3, Orders
        <5> QED  BY <4>2, <5>1, <3>2
      <4> QED  BY <4>1, <4>2
    <3> QED  BY <3>2, <3>3, <3>4, <1>1, <1>2, <1>3, <1>4
  <2> QED  BY <2>2, <2>4, <2>5 DEF Row
<1> QED  BY <1>5, <1>6 DEF WorkerStep

\* What is due stays due while no call takes a step.
LEMMA SameDue ==
  ASSUME \A c \in Call : Todo(c)' = Todo(c)
  PROVE  /\ \A i : WriteDue(i)' <=> WriteDue(i)
         /\ \A e : (SaveDue(e)' <=> SaveDue(e)) /\ (DeleteDue(e)' <=> DeleteDue(e))
         /\ \A i : (Wiped(i)' <=> Wiped(i)) /\ (Due("erase", i)' <=> Due("erase", i))
  BY DEF WriteDue, SaveDue, DeleteDue, Wiped, Due

LEMMA StoredWorker ==
  ASSUME Base, Stored, WorkerStep
  PROVE  Stored'
<1>1. /\ live' = live /\ pending' = pending /\ exposed' = exposed /\ running' = running
      /\ stray \subseteq stray' /\ Jobs' \subseteq Jobs /\ \A c \in Call : Todo(c)' = Todo(c)
  BY WorkerEffects DEF memVars
<1>2. Deleting'  BY <1>1, SameDue DEF Stored, Deleting
<1>3. InstanceRows'
  <2> SUFFICES ASSUME NEW i \in Instance, i \notin stray', Known(i) PROVE InstanceRow(i)'
    BY <1>1 DEF InstanceRows, Known
  <2>1. InstanceRow(i)  BY <1>1 DEF Stored, InstanceRows
  <2>2. /\ Matches(i) => Matches(i)'
        /\ i \in saved' => i \in saved \/ i \in live
        /\ Order("save", i) \in Jobs => Order("save", i) \in Jobs' \/ i \notin live \/ Matches(i)'
    BY WorkerEffects
  <2>3. (WriteDue(i) => WriteDue(i)') /\ (Due("erase", i) => Due("erase", i)')  BY <1>1, SameDue
  <2> QED  BY <2>1, <2>2, <2>3, <1>1 DEF InstanceRow
<1>4. EntryRows'
  <2> SUFFICES ASSUME NEW e \in Entry, e \notin stray', e[3] # "boundary", running # "crashed" \/ e[1] \notin exposed
               PROVE  EntryRow(e)'
    BY <1>1 DEF EntryRows
  <2>1. EntryRow(e) /\ ClearedEntry(e)  BY <1>1 DEF Stored, EntryRows, Cleared
  <2>2. /\ e \in rows' => e \in rows \/ e \in pending
        /\ e \in rows => e \in rows' \/ Order("delete", e) \in Jobs
        /\ Order("save", e) \in Jobs => Order("save", e) \in Jobs' \/ e \notin pending \/ e \in rows'
        /\ Order("delete", e) \in Jobs => Order("delete", e) \in Jobs' \/ e \notin rows'
    BY WorkerEffects
  <2>3. /\ SaveDue(e) => SaveDue(e)'
        /\ DeleteDue(e) => DeleteDue(e)'
        /\ Wiped(InstOf[e[1]]) => Wiped(InstOf[e[1]])'
    BY <1>1, SameDue
  <2> QED  BY <2>1, <2>2, <2>3, <1>1 DEF EntryRow, ClearedEntry
<1>5. Cleared'  BY <1>1 DEF Stored, Cleared, ClearedEntry
<1>6. Fresh'
  <2> SUFFICES ASSUME NEW c \in Call, NEW e \in Entry, Order("insert", e) \in Todo(c)'
               PROVE  /\ e \notin pending' \cup rows' \cup JobRows'
                      /\ \A d \in Call : \A x \in Todo(d)' : x.row = e => d = c /\ x.do \in MakeVerb
    BY DEF Fresh, FreshEntry
  <2>1. /\ e \notin pending \cup rows \cup JobRows
        /\ \A d \in Call : \A x \in Todo(d) : x.row = e => d = c /\ x.do \in MakeVerb
    BY <1>1 DEF Stored, Fresh, FreshEntry
  <2>2. e \notin JobRows'  BY <2>1, <1>1, RowsOfJobs
  <2>3. e \notin rows'
    <3>1. CASE e \notin stray'  BY <3>1, <2>1, WorkerEffects
    <3>2. CASE ~ExecuteJob  BY <3>2, <2>1, WorkerJobs
    <3>3. CASE ExecuteJob
      BY <3>3, <2>1, WorkerJobs, WriteRows
    <3> QED  BY <3>1, <3>2, <3>3
  <2> QED  BY <2>1, <2>2, <2>3, <1>1
<1> QED  BY <1>2, <1>3, <1>4, <1>5, <1>6 DEF Stored

LEMMA StoredMode ==
  ASSUME Base, Stored, Signal \/ EndSweep \/ FlushQueue \/ Stop
  PROVE  Stored'
<1>1. /\ UNCHANGED memVars /\ UNCHANGED diskVars /\ UNCHANGED callVars /\ UNCHANGED ghostVars
  BY DEF Signal, EndSweep, FlushQueue, Stop
<1>2. /\ live' = live /\ at' = at /\ closed' = closed /\ pending' = pending /\ rows' = rows
      /\ saved' = saved /\ savedAt' = savedAt /\ savedClosed' = savedClosed
      /\ ops' = ops /\ stray' = stray /\ exposed' = exposed
  BY <1>1 DEF memVars, diskVars, callVars, ghostVars
<1>3. \A c \in Call : Todo(c)' = Todo(c)  BY <1>2, SameOps
<1>4. Jobs' = Jobs
  <2>1. CASE FlushQueue  BY <2>1, Flushing
  <2>2. CASE ~FlushQueue  BY <2>2, SameJobs DEF Signal, EndSweep, Stop, workVars
  <2> QED  BY <2>1, <2>2
<1>5. running # "crashed"
  <2>1. EndSweep => sweeping  BY DEF EndSweep
  <2>2. Signal \/ FlushQueue \/ Stop => running # "crashed"  BY DEF Signal, FlushQueue, Stop
  <2> QED  BY <2>1, <2>2 DEF Base, Modes
<1>6. JobRows' = JobRows  BY <1>4, RowsOfJobs
<1>7. Deleting'  BY <1>2, <1>3, SameDue DEF Stored, Deleting
<1>8. InstanceRows'
  <2> SUFFICES ASSUME NEW i \in Instance \ stray PROVE InstanceRow(i)'  BY <1>2 DEF InstanceRows
  <2>1. InstanceRow(i)  BY <1>5 DEF Stored, InstanceRows, Known
  <2>2. Matches(i)' <=> Matches(i)  BY <1>2 DEF Matches
  <2> QED  BY <2>1, <2>2, <1>2, <1>3, <1>4, SameDue DEF InstanceRow
<1>9. EntryRows'
  <2> SUFFICES ASSUME NEW e \in Entry \ stray, e[3] # "boundary" PROVE EntryRow(e)'  BY <1>2 DEF EntryRows
  <2>1. EntryRow(e)  BY <1>5 DEF Stored, EntryRows
  <2> QED  BY <2>1, <1>2, <1>3, <1>4, SameDue DEF EntryRow
<1>10. Cleared'  BY <1>2, <1>3, <1>4 DEF Stored, Cleared, ClearedEntry
<1>11. Fresh'  BY <1>2, <1>3, <1>6 DEF Stored, Fresh, FreshEntry
<1> QED  BY <1>7, <1>8, <1>9, <1>10, <1>11 DEF Stored

\* After a crash or a restart nothing is due.
LEMMA NothingDue ==
  ASSUME Base, Crash \/ Restore
  PROVE  /\ \A c \in Call : Todo(c)' = {}
         /\ Jobs' = {} /\ JobRows' = {}
         /\ Deleting' /\ Cleared' /\ Fresh'
<1>1. Jobs' = {} /\ JobRows' = {}  BY NoJobs DEF Crash, Restore
<1>2. \A c \in Call : Todo(c)' = {}
  <2>1. CASE Crash  BY <2>1, SoundNone DEF Crash, Todo
  <2>2. CASE Restore
    <3>1. ops' = ops /\ running \in {"down", "crashed"}  BY <2>2 DEF Restore, callVars
    <3>2. \A c \in Call : Todo(c)' = Todo(c)  BY <3>1, SameOps
    <3> QED  BY <3>1, <3>2 DEF Base, Modes
  <2> QED  BY <2>1, <2>2
<1>3. Deleting'  BY <1>2 DEF Deleting, Wiped, Due
<1>4. Cleared'  BY <1>1, <1>2 DEF Cleared, ClearedEntry
<1>5. Fresh'  BY <1>2 DEF Fresh, FreshEntry
<1> QED  BY <1>1, <1>2, <1>3, <1>4, <1>5

\* The tokens a crash does not expose have nothing due.
LEMMA Unexposed ==
  ASSUME Base, Crash, NEW t \in Token, t \notin exposed'
  PROVE  /\ t \notin exposed
         /\ \A c \in Call : \A x \in Todo(c) : x.row # InstOf[t] /\ ~(x.row \in Entry /\ InstOf[x.row[1]] = InstOf[t])
         /\ \A c \in Call : \A x \in Todo(c) : ~(x.do \in TokenVerb /\ InstOf[Subject(x)] = InstOf[t])
         /\ InstOf[t] \notin JobRows
         /\ \A e \in Entry : InstOf[e[1]] = InstOf[t] => e \notin JobRows
<1>1. t \notin exposed /\ ~Doing(InstOf[t]) /\ \A r \in JobRows : InstanceOf(r) # InstOf[t]
  BY DEF Crash
<1>2. \A c \in Call : \A x \in Todo(c) : InstanceOf(x.row) # InstOf[t]  BY <1>1 DEF Doing, Todo
<1>3. /\ InstanceOf(InstOf[t]) = InstOf[t]
      /\ \A e \in Entry : InstanceOf(e) = InstOf[e[1]]
      /\ \A u \in Token : InstanceOf(u) = InstOf[u]
  BY Names DEF InstanceOf
<1>4. ASSUME NEW c \in Call, NEW x \in Todo(c), x.do \in TokenVerb PROVE InstOf[Subject(x)] = InstanceOf(x.row)
  <2>1. Fit(x)  BY <1>4, TodoFit
  <2>2. x.row \in Entry \/ x.row \in Token  BY <2>1, <1>4 DEF Fit, TokenVerb
  <2> QED  BY <2>2, <1>3, Names DEF Subject
<1> QED  BY <1>1, <1>2, <1>3, <1>4

LEMMA StoredCrash ==
  ASSUME Base, Stored, Crash
  PROVE  Stored'
<1>1. /\ live' = live /\ at' = at /\ closed' = closed /\ pending' = pending /\ rows' = rows
      /\ saved' = saved /\ savedAt' = savedAt /\ savedClosed' = savedClosed
      /\ running' = "crashed" /\ running # "crashed" /\ stray \subseteq stray'
  BY DEF Crash, memVars, diskVars
<1>2. InstanceRows'
  <2> SUFFICES ASSUME NEW i \in Instance \ stray', Known(i)' PROVE InstanceRow(i)'  BY DEF InstanceRows
  <2>1. PICK t \in TokensOf(i) : t \notin exposed'  BY <1>1 DEF Known
  <2>2. InstanceRow(i)  BY <1>1 DEF Stored, InstanceRows, Known
  <2>3. t \in Token /\ InstOf[t] = i  BY <2>1 DEF TokensOf
  <2>4. i \notin JobRows /\ \A c \in Call : \A x \in Todo(c) : x.row # i  BY <2>1, <2>3, Unexposed
  <2>5. ~WriteDue(i) /\ Order("save", i) \notin Jobs /\ ~Due("erase", i)
    BY <2>4, RowsOfJobs, Orders DEF WriteDue, Due
  <2>6. Matches(i)' <=> Matches(i)  BY <1>1 DEF Matches
  <2> QED  BY <2>2, <2>5, <2>6, <1>1 DEF InstanceRow
<1>3. EntryRows'
  <2> SUFFICES ASSUME NEW e \in Entry \ stray', e[3] # "boundary", e[1] \notin exposed' PROVE EntryRow(e)'
    BY <1>1 DEF EntryRows
  <2>1. EntryRow(e)  BY <1>1 DEF Stored, EntryRows
  <2>2. e[1] \in Token  BY Entries
  <2>3. /\ e \notin JobRows
        /\ \A c \in Call : \A x \in Todo(c) : x.row # e /\ x.row # InstOf[e[1]]
    BY <2>2, Unexposed
  <2>4. /\ ~SaveDue(e) /\ ~DeleteDue(e) /\ ~Wiped(InstOf[e[1]])
        /\ \A do : Order(do, e) \notin Jobs
    BY <2>3, RowsOfJobs, Orders DEF SaveDue, DeleteDue, Wiped, Due
  <2> QED  BY <2>1, <2>4, <1>1 DEF EntryRow
<1> QED  BY <1>2, <1>3, NothingDue DEF Stored

LEMMA StoredRestore ==
  ASSUME Base, Stored, Restore
  PROVE  Stored'
<1>1. saved' = saved /\ savedAt' = savedAt /\ savedClosed' = savedClosed /\ rows' = rows
  BY DEF Restore, diskVars
<1>2. /\ at' = savedAt /\ closed' = savedClosed
      /\ live' = saved \/ (live' = {} /\ saved \subseteq stray')
      /\ pending' = rows \/ (pending' = {} /\ rows \subseteq stray')
  BY DEF Restore, LoadRows
<1>3. \A i \in saved : Matches(i)'  BY <1>1, <1>2 DEF Matches
<1>4. InstanceRows'
  <2> SUFFICES ASSUME NEW i \in Instance \ stray' PROVE InstanceRow(i)'  BY DEF InstanceRows
  <2> QED  BY <1>1, <1>2, <1>3 DEF InstanceRow
<1>5. EntryRows'
  <2> SUFFICES ASSUME NEW e \in Entry \ stray' PROVE EntryRow(e)'  BY DEF EntryRows
  <2> QED  BY <1>1, <1>2 DEF EntryRow
<1> QED  BY <1>4, <1>5, NothingDue DEF Stored

LEMMA StoredInit ==
  ASSUME Init
  PROVE  Stored
<1>1. \A c \in Call : Todo(c) = {}  BY SoundNone DEF Init, Todo
<1>2. Jobs = {}
  <2>1. Idle.job = NoJob  BY DEF Idle
  <2> QED  BY <2>1, SoundNone DEF Init, Jobs, Working
<1>3. InstanceRows  BY DEF Init, InstanceRows, InstanceRow, Matches
<1>4. EntryRows  BY DEF Init, EntryRows, EntryRow
<1>5. Deleting /\ Cleared /\ Fresh
  BY <1>1, <1>2 DEF Deleting, Wiped, Due, Cleared, ClearedEntry, Fresh, FreshEntry
<1> QED  BY <1>3, <1>4, <1>5 DEF Stored

LEMMA StoredNext ==
  ASSUME Base, Stored, Next
  PROVE  Stored'
  BY StoredCalls, StoredComplete, StoredDelete, StoredWorker, StoredMode, StoredCrash, StoredRestore DEF Next

LEMMA StoredSame ==
  ASSUME Base, Stored, UNCHANGED vars
  PROVE  Base' /\ Stored'
<1>1. /\ UNCHANGED memVars /\ UNCHANGED diskVars /\ UNCHANGED callVars /\ UNCHANGED workVars
      /\ UNCHANGED modeVars /\ UNCHANGED ghostVars /\ failures' = failures
  BY DEF vars
<1>2. /\ live' = live /\ at' = at /\ closed' = closed /\ pending' = pending /\ rows' = rows
      /\ saved' = saved /\ savedAt' = savedAt /\ savedClosed' = savedClosed
      /\ ops' = ops /\ stray' = stray /\ exposed' = exposed
      /\ running' = running /\ sweeping' = sweeping /\ worker' = worker
  BY <1>1 DEF memVars, diskVars, callVars, workVars, modeVars, ghostVars
<1>3. TypeOK'  BY <1>1, TypeParts, Frames DEF Base
<1>4. Jobs' = Jobs /\ JobRows' = JobRows  BY <1>1, SameJobs, RowsOfJobs DEF workVars
<1>5. OpsKept /\ (\A t \in Token : Alone(t)') /\ \A c \in Call : Todo(c)' = Todo(c)
  BY <1>2, SameAlone, SameOps
<1>6. Shape'  BY <1>2, <1>4, <1>5 DEF Base, Shape, OpsKept, KeptFit, JobFit
<1>7. Modes'  BY <1>2, <1>4, <1>5, LoopAssumption DEF Base, Modes
<1>8. \A i : (Matches(i)' <=> Matches(i)) /\ (Known(i)' <=> Known(i))  BY <1>2 DEF Matches, Known
<1>9. /\ \A i : WriteDue(i)' <=> WriteDue(i)
      /\ \A e : (SaveDue(e)' <=> SaveDue(e)) /\ (DeleteDue(e)' <=> DeleteDue(e))
      /\ \A i : (Wiped(i)' <=> Wiped(i)) /\ (Due("erase", i)' <=> Due("erase", i))
  BY <1>5, SameDue
<1>10. InstanceRows' /\ Deleting'
  BY <1>2, <1>4, <1>8, <1>9 DEF Stored, InstanceRows, InstanceRow, Deleting
<1>11. EntryRows'  BY <1>2, <1>4, <1>9 DEF Stored, EntryRows, EntryRow
<1>12. Cleared' /\ Fresh'
  BY <1>2, <1>4, <1>5 DEF Stored, Cleared, ClearedEntry, Fresh, FreshEntry
<1> QED  BY <1>3, <1>6, <1>7, <1>10, <1>11, <1>12 DEF Base, Stored

\* What the invariant says of a row nobody is working on.
LEMMA StoredFollows ==
  ASSUME Base, Stored
  PROVE  StoreFollowsMemory
<1> SUFFICES ASSUME running # "crashed", NEW r \in Row \ stray, ~Busy(r)
             PROVE  IF r \in Instance
                    THEN /\ r \in live <=> r \in saved
                         /\ r \in live => /\ \A t \in TokensOf(r) : savedAt[t] = at[t]
                                          /\ r \in closed <=> r \in savedClosed
                    ELSE r[3] # "boundary" => (r \in pending <=> r \in rows)
  BY DEF StoreFollowsMemory
<1>1. /\ r \notin JobRows
      /\ \A c \in Call : \A x \in Todo(c) : x.row # r /\ ~(x.do \in WipeVerb /\ x.row = InstanceOf(r))
  BY DEF Busy, Todo, WipeVerb
<1>2. \A do : Order(do, r) \notin Jobs /\ ~Due(do, r)  BY <1>1, RowsOfJobs, Orders DEF Due
<1>3. CASE r \in Instance
  <2>1. InstanceRow(r)  BY <1>3 DEF Stored, InstanceRows, Known
  <2>2. ~WriteDue(r)  BY <1>1, Orders DEF WriteDue
  <2> QED  BY <2>1, <2>2, <1>2, <1>3 DEF InstanceRow, Matches
<1>4. CASE r \notin Instance
  <2>1. r \in Entry /\ r \notin Token  BY <1>4, Names DEF Row
  <2>2. r[3] # "boundary" => EntryRow(r)  BY <2>1 DEF Stored, EntryRows
  <2>3. InstanceOf(r) = InstOf[r[1]]  BY <1>4, <2>1 DEF InstanceOf
  <2>4. ~SaveDue(r) /\ ~DeleteDue(r) /\ ~Wiped(InstOf[r[1]])
    BY <1>1, <2>3, Orders DEF SaveDue, DeleteDue, Wiped, Due
  <2> QED  BY <2>2, <2>4, <1>2, <1>4 DEF EntryRow
<1> QED  BY <1>3, <1>4

----------------------------------------------------------------------------
(***************************************************************************)
(* The waits.  An entry is kept as long as it is in its map, or in the     *)
(* store with nothing that will delete it.                                 *)
(***************************************************************************)
RowKept(e) == e \in rows /\ e \notin stray /\ Order("delete", e) \notin Jobs
Kept(e)    == e \in pending \/ RowKept(e)
Present(e) == Kept(e) \/ Due("insert", e)
Of(t)      == {e \in Entry : e[1] = t}

\* A call that is about to move the token, or to park it at the wait of entry e; one
\* that is about to clear e.
Moving(c, t)   == \E x \in Todo(c) : x.do \in MoveVerb /\ Subject(x) = t
Arriving(c, e) == \E p \in Entry : Order("park", p) \in Todo(c) /\ SameWait(e, p)
Leaving(c, e)  == /\ e \in pending => Order("drop", e) \in Todo(c)
                  /\ RowKept(e) => Order("delete", e) \in Todo(c) \/ Order("forget", e) \in Todo(c)

\* The place of the token may still be written.
Active(i) == i \in live \/ WriteDue(i) \/ (Working /\ worker.job.row = i /\ worker.found)

\* The entries of a token belong to its wait or to the next one; to one wait only while
\* no call moves it, and all that is left goes before it moves.
NotBefore(t) == \A e \in Of(t) : Present(e) => at[t] <= e[2]
OneWait(t) == (\A c \in Call : ~Moving(c, t)) =>
                \A e, f \in Of(t) : Present(e) /\ Present(f) => SameWait(e, f)
Moved(t) == \A c \in Call : Moving(c, t) => \A e \in Of(t) : Kept(e) => Leaving(c, e) \/ Arriving(c, e)
Taken(t) == \A c \in Call : \A f \in Of(t) : Order("take", f) \in Todo(c) =>
              \A e \in Of(t) : Kept(e) => SameWait(e, f)
Visit(t) == NotBefore(t) /\ OneWait(t) /\ Moved(t) /\ Taken(t)
Visits   == \A t \in Token \ exposed : Active(InstOf[t]) => Visit(t)

\* So the place that is stored is not beyond what is stored of the waits.
Behind == \A t \in Token \ exposed : InstOf[t] \in saved => \A e \in Of(t) : Present(e) => savedAt[t] <= e[2]

\* A token that waits has an entry, will have it, or will be moved.
Awaited(t) == \/ \E e \in Of(t) : e[2] = at[t] /\ e[3] # "boundary" /\ (e \in pending \/ Due("insert", e))
              \/ \E c \in Call : Moving(c, t)
Waiting == \A t \in Token \ exposed : InstOf[t] \in live /\ at[t] \in Wait => Awaited(t)

Waits == Visits /\ Behind /\ Waiting

----------------------------------------------------------------------------
(***************************************************************************)
(* The waits: the steps of the calls.                                      *)
(***************************************************************************)
\* Each step of a program fits those that follow it.
LEMMA Within ==
  ASSUME NEW s, Sound(s), NEW x \in Range(s)
  PROVE  \E later \in SUBSET Range(s) : Before(x, later)
<1>1. s \in Seq(Step) /\ \A j \in 1..Len(s) : Before(s[j], After(s, j))  BY DEF Sound
<1>2. Range(s) = {s[j] : j \in 1..Len(s)} /\ Len(s) \in Nat  BY <1>1, Elements, LenProperties
<1>3. PICK j \in 1..Len(s) : x = s[j]  BY <1>2
<1>4. After(s, j) \subseteq Range(s)
  <2> SUFFICES ASSUME NEW k \in (j + 1)..Len(s) PROVE s[k] \in Range(s)  BY DEF After
  <2>1. k \in 1..Len(s)  BY <1>2
  <2> QED  BY <2>1, <1>2
<1> QED  BY <1>1, <1>3, <1>4

\* Who drops an entry deletes its row.
LEMMA Clearing ==
  ASSUME Base, NEW c \in Call, NEW e \in Entry, Order("drop", e) \in Todo(c), e[3] # "boundary"
  PROVE  Order("delete", e) \in Todo(c) \/ Order("forget", e) \in Todo(c)
<1>1. PICK later \in SUBSET Todo(c) : Before(Order("drop", e), later)
  BY Within DEF Base, Shape, Todo
<1>2. Order("drop", e).do = "drop" /\ Order("drop", e).row = e  BY Orders
<1>3. ClearStep(Order("drop", e), later)  BY <1>1, <1>2 DEF Before, ClearVerb
<1> QED  BY <1>2, <1>3 DEF ClearStep

\* The calls that have a token in hand are one.
LEMMA OneHand ==
  ASSUME Base, NEW t \in Token, NEW c \in Call, NEW d \in Call, NEW x \in Todo(c), NEW y \in Todo(d),
         x.do \in TokenVerb, Subject(x) = t, y.do \in TokenVerb, Subject(y) = t
  PROVE  c = d
<1>1. Mentions(c, t) /\ Mentions(d, t)  BY DEF Mentions
<1> QED  BY <1>1 DEF Base, Shape, Alone

LEMMA EntrySteps ==
  ASSUME NEW e \in Entry, NEW do \in EntryVerb
  PROVE  /\ Order(do, e).do = do /\ Order(do, e).row = e /\ Order(do, e).do \in TokenVerb
         /\ Subject(Order(do, e)) = e[1] /\ e[1] \in Token
<1>1. e \notin Token /\ e[1] \in Token  BY Names, Entries
<1> QED  BY <1>1, Orders DEF Subject, TokenVerb

LEMMA Verbs ==
  /\ {"take", "park", "insert", "save", "drop", "delete", "forget"} \subseteq EntryVerb
  /\ EntryVerb \subseteq TokenVerb /\ MoveVerb \subseteq TokenVerb /\ MakeVerb \subseteq EntryVerb
  /\ \A v \in MoveVerb : v \in {"park", "end", "terminate"}
  /\ \A v \in MakeVerb : v \in {"park", "insert", "save"}
  /\ \A v \in ClearVerb : v \in {"drop", "delete", "forget"}
  /\ \A v \in KeepVerb : v \in {"fetch", "write"} /\ v \notin TokenVerb
  BY DEF EntryVerb, TokenVerb, MoveVerb, MakeVerb, ClearVerb, KeepVerb

\* The action is that of the step at the head of the program.
LEMMA Acting ==
  ASSUME Base, NEW c \in Call, CallStep(c), NEW h, HeadIs(c, h)
  PROVE  /\ h.do = "take" => TakeToken(c)
         /\ h.do = "park" => ParkToken(c)
         /\ h.do = "end" => EndToken(c)
         /\ h.do = "terminate" => Terminate(c)
         /\ h.do = "insert" => EditPending(c)
         /\ h.do = "write" => Store(c)
         /\ h.do \notin {"take", "park", "end", "terminate"} => at' = at
         /\ h.do \notin {"write", "erase", "save", "delete", "forget"} => savedAt' = savedAt /\ saved' = saved
<1>1. \A do : Head1(c, do) <=> h.do = do  BY DEF HeadIs
<1>2. /\ h.do = "take" => TakeToken(c)
      /\ h.do = "park" => ParkToken(c)
      /\ h.do = "end" => EndToken(c)
      /\ h.do = "terminate" => Terminate(c)
      /\ h.do = "insert" => EditPending(c)
      /\ h.do = "write" => Store(c)
  BY <1>1 DEF CallStep, TakeToken, ParkToken, EditPending, EndToken, Terminate, SkipSave, Store, Storing,
              Forget, SweepRows, EraseInstance, PurgeEntries
<1>3. ASSUME h.do \notin {"take", "park", "end", "terminate"} PROVE at' = at
  <2>1. ~TakeToken(c) /\ ~ParkToken(c) /\ ~EndToken(c) /\ ~Terminate(c)
    BY <1>1, <1>3 DEF TakeToken, ParkToken, EndToken, Terminate
  <2> QED  BY <2>1 DEF CallStep, EditPending, SkipSave, Store, Forget, SweepRows, EraseInstance, PurgeEntries, memVars
<1>4. ASSUME h.do \notin {"write", "erase", "save", "delete", "forget"} PROVE savedAt' = savedAt /\ saved' = saved
  <2>1. ~Store(c) /\ ~Forget(c) /\ ~EraseInstance(c)
    BY <1>1, <1>4 DEF Store, Storing, Forget, EraseInstance
  <2> QED  BY <2>1 DEF CallStep, TakeToken, ParkToken, EndToken, Terminate, EditPending, SkipSave, SweepRows,
                       PurgeEntries, diskVars
<1> QED  BY <1>2, <1>3, <1>4

\* Where a step of a call leaves a token.
LEMMA TokenMoves ==
  ASSUME Base, NEW c \in Call, CallStep(c), NEW h, CallEffect(c, h), NEW t \in Token
  PROVE  /\ at'[t] = at[t] \/ (h.do \in {"take"} \cup MoveVerb /\ Subject(h) = t /\ Advances(c, h))
         /\ h.do \in {"take", "park", "end"} /\ Subject(h) = t /\ Advances(c, h) =>
              /\ InstOf[t] \in live
              /\ h.do = "take" => at'[t] = Nowhere
              /\ h.do = "park" => at'[t] = h.row[2]
              /\ h.do = "end" => at'[t] = Ended
         /\ h.do = "take" /\ Subject(h) = t /\ Broken(c, h) => InstOf[t] \notin live \/ at[t] \notin Wait
         /\ h.do = "terminate" /\ t \notin exposed' =>
              InstOf[Subject(h)] # InstOf[t] /\ \A f \in Of(t) : f \in pending => f \in pending'
<1>1. HeadIs(c, h) /\ h \in Todo(c) /\ Fit(h) /\ h.do \in Verb /\ RowOf(c) = h.row /\ at \in [Token -> 0..Ended]
  BY Orders DEF CallEffect, HeadIs, Base, TypeOK
<1>2. CASE h.do \notin {"take", "park", "end", "terminate"}
  BY <1>1, <1>2, Acting
<1>3. CASE h.do = "terminate"
  <2>1. h.row \in Token /\ Subject(h) = h.row  BY <1>1, <1>3, Subjects
  <2>2. Terminate(c)  BY <1>1, <1>3, Acting
  <2>3. /\ at' = [at EXCEPT ![h.row] = Ended] /\ Advance(c)
        /\ exposed' = exposed \cup TokensOf(InstOf[h.row])
        /\ pending' = pending \ EntriesOf(InstOf[h.row])
    BY <2>1, <2>2, <1>1 DEF Terminate
  <2>4. Advances(c, h)  BY <2>3, <1>1, Advancing
  <2>5. t \notin exposed' => InstOf[h.row] # InstOf[t]  BY <2>3 DEF TokensOf
  <2>6. at'[t] = at[t] \/ t = h.row  BY <2>1, <2>3, <1>1
  <2>7. InstOf[h.row] # InstOf[t] => \A f \in Of(t) : f \in pending => f \in pending'
    BY <2>3 DEF Of, EntriesOf
  <2> QED  BY <2>1, <2>4, <2>5, <2>6, <2>7, <1>3 DEF MoveVerb
<1>4. CASE h.do \in {"take", "park", "end"}
  <2>1. /\ h.do \in TokenVerb /\ Subject(h) \in Token /\ InstOf[Subject(h)] \in Instance
        /\ h.do \in {"take", "park"} => Subject(h) = h.row[1]
        /\ h.do = "end" => Subject(h) = h.row
    <3>1. h.do \in TokenVerb /\ (h.do \in {"take", "park"} => h.do \in EntryVerb)  BY <1>4, Verbs DEF MoveVerb
    <3> QED  BY <3>1, <1>1, Subjects
  <2>2. PICK n : n = IF h.do = "take" THEN Nowhere ELSE IF h.do = "park" THEN h.row[2] ELSE Ended  OBVIOUS
  <2>3. \/ /\ Advance(c) /\ at' = [at EXCEPT ![Subject(h)] = n] /\ InstOf[Subject(h)] \in live
        \/ /\ Abort(c) /\ (h.do = "take" => InstOf[Subject(h)] \notin live \/ at[Subject(h)] \notin Wait)
    <3>1. CASE h.do = "take"
      <4>1. TakeToken(c)  BY <1>1, <3>1, Acting
      <4> QED  BY <4>1, <3>1, <2>1, <2>2, <1>1 DEF TakeToken
    <3>2. CASE h.do = "park"
      <4>1. ParkToken(c)  BY <1>1, <3>2, Acting
      <4> QED  BY <4>1, <3>2, <2>1, <2>2, <1>1 DEF ParkToken
    <3>3. CASE h.do = "end"
      <4>1. EndToken(c)  BY <1>1, <3>3, Acting
      <4> QED  BY <4>1, <3>3, <2>1, <2>2, <1>1 DEF EndToken
    <3> QED  BY <3>1, <3>2, <3>3, <1>4
  <2>4. \E y \in Todo(c) \ {h} : y = Order("write", InstOf[Subject(h)])
    BY <1>1, <1>4, Following DEF MoveVerb
  <2>5. CASE Advance(c) /\ at' = [at EXCEPT ![Subject(h)] = n] /\ InstOf[Subject(h)] \in live
    <3>1. Advances(c, h)  BY <2>5, <1>1, Advancing
    <3>2. ~Broken(c, h)  BY <3>1, <2>4 DEF Advances, Broken, Stops
    <3>3. at'[t] = IF Subject(h) = t THEN n ELSE at[t]  BY <2>5, <1>1
    <3> QED  BY <3>1, <3>2, <3>3, <2>2, <2>5, <1>4, Verbs DEF MoveVerb
  <2>6. CASE Abort(c) /\ (h.do = "take" => InstOf[Subject(h)] \notin live \/ at[Subject(h)] \notin Wait)
    <3>1. Stops(c)  BY <2>6, Aborting
    <3>2. ~Advances(c, h)  BY <3>1, <2>4 DEF Advances, Stops
    <3>3. at' = at  BY <2>6 DEF Abort, memVars
    <3> QED  BY <3>2, <3>3, <2>6, <1>4
  <2> QED  BY <2>3, <2>5, <2>6
<1> QED  BY <1>2, <1>3, <1>4

\* What a step of a call writes for a token.
LEMMA PlaceWritten ==
  ASSUME Base, NEW c \in Call, CallStep(c), NEW h, CallEffect(c, h), NEW t \in Token
  PROVE  InstOf[t] \in saved' => \/ InstOf[t] \in saved /\ savedAt'[t] = savedAt[t]
                                 \/ h = Order("write", InstOf[t]) /\ savedAt'[t] = at[t]
<1>1. /\ HeadIs(c, h) /\ h = Order(h.do, h.row) /\ Fit(h) /\ RowOf(c) = h.row
      /\ \A do : Head1(c, do) <=> h.do = do
  BY Orders DEF CallEffect, HeadIs
<1>2. CASE h.do \notin {"write", "erase", "save", "delete", "forget"}
  BY <1>1, <1>2, Acting
<1>3. ASSUME NEW do \in {"save", "delete"}, NEW r \in Instance, Write(do, r) \/ WriteFails(do, r),
             do = "save" => h.do = "write" /\ r = h.row
      PROVE  InstOf[t] \in saved' => \/ InstOf[t] \in saved /\ savedAt'[t] = savedAt[t]
                                     \/ h = Order("write", InstOf[t]) /\ savedAt'[t] = at[t]
  <2>1. CASE Write(do, r)
    <3>1. /\ saved' = IF do = "save" THEN saved \cup {r} ELSE saved \ {r}
          /\ savedAt'[t] = IF do = "save" /\ InstOf[t] = r THEN at[t] ELSE savedAt[t]
      BY <2>1, <1>3 DEF Write, WriteInstance
    <3> QED  BY <3>1, <1>1, <1>3
  <2>2. CASE ~Write(do, r)  BY <2>2, <1>3 DEF WriteFails, diskVars
  <2> QED  BY <2>1, <2>2
<1>4. CASE h.do = "write"
  <2>1. Store(c)  BY <1>1, <1>4, Acting
  <2>2. Write("save", h.row) \/ WriteFails("save", h.row)
    <3>1. KindOf(Head(ops[c]).do) = "save"  BY <1>1, <1>4 DEF HeadIs, KindOf
    <3> QED  BY <2>1, <3>1, <1>1 DEF Store
  <2>3. h.row \in Instance  BY <1>1, <1>4 DEF Fit, KeepVerb
  <2> QED  BY <2>2, <2>3, <1>3, <1>4
<1>5. CASE h.do = "erase"
  <2>1. h.row \in Instance  BY <1>1, <1>5 DEF Fit, WipeVerb
  <2>2. EraseInstance(c)
    BY <1>1, <1>5 DEF CallStep, TakeToken, ParkToken, EditPending, EndToken, Terminate, SkipSave, Store, Storing,
                      Forget, SweepRows, PurgeEntries
  <2>3. Write("delete", h.row) \/ WriteFails("delete", h.row)  BY <2>2, <1>1 DEF EraseInstance
  <2> QED  BY <2>1, <2>3, <1>3
<1>6. CASE h.do \in {"save", "delete", "forget"}
  <2>1. h.row \in Entry /\ h.row \in Row /\ KindOf("save") = "save" /\ KindOf("delete") = "delete"
    BY <1>1, <1>6, Verbs DEF Fit, Row, KindOf
  <2>2. CASE Store(c)
    <3>1. h.do = Head(ops[c]).do /\ h.do \in {"save", "delete"}  BY <2>2, <1>1, <1>6 DEF HeadIs, Store, Storing
    <3>2. Write(h.do, h.row) \/ WriteFails(h.do, h.row)  BY <3>1, <2>1, <2>2, <1>1 DEF Store
    <3> QED  BY <3>1, <3>2, <2>1, WriteRows
  <2>3. CASE Forget(c)
    <3>1. Write("delete", h.row) \/ WriteFails("delete", h.row)  BY <2>3, <1>1 DEF Forget
    <3> QED  BY <3>1, <2>1, WriteRows
  <2>4. CASE ~Store(c) /\ ~Forget(c)
    <3>1. UNCHANGED diskVars
      BY <2>4, <1>1, <1>6 DEF CallStep, TakeToken, ParkToken, EditPending, EndToken, Terminate, SkipSave,
                              SweepRows, EraseInstance, PurgeEntries
    <3> QED  BY <3>1 DEF diskVars
  <2> QED  BY <2>2, <2>3, <2>4
<1> QED  BY <1>2, <1>4, <1>5, <1>6

\* Nothing becomes active by a step of a call.
LEMMA ActiveCalls ==
  ASSUME Base, NEW c \in Call, CallStep(c), NEW h, CallEffect(c, h), NEW i \in Instance
  PROVE  Active(i)' => Active(i)
<1>1. /\ HeadIs(c, h) /\ live' = live /\ worker' = worker /\ \A d \in Call : Todo(d)' \subseteq Todo(d)
  BY CallJobs, CallOps DEF CallEffect, HeapStep
<1>2. ASSUME WriteDue(i)' PROVE WriteDue(i) \/ i \in live
  <2>1. PICK d \in Call : Order("write", i) \in Todo(d)' /\ \A x \in Todo(d)' : x.do # "take"
    BY <1>2 DEF WriteDue
  <2>2. Order("write", i) \in Todo(d)  BY <2>1, <1>1
  <2>3. CASE \A x \in Todo(d) : x.do # "take"  BY <2>2, <2>3 DEF WriteDue
  <2>4. ASSUME NEW x \in Todo(d), x.do = "take" PROVE i \in live
    <3>1. x \notin Todo(d)'  BY <2>1, <2>4
    <3>2. d = c /\ ((x = h /\ Advances(c, h)) \/ Broken(c, h))  BY <3>1, Lost
    <3>3. ~Broken(c, h)  BY <3>2, <2>1 DEF Broken, Stops
    <3>4. x = h /\ Advances(c, h) /\ h.do = "take"  BY <3>2, <3>3, <2>4
    <3>5. h.do \in TokenVerb /\ Fit(h)  BY <3>4, <1>1, Verbs DEF HeadIs
    <3>6. Subject(h) \in Token  BY <3>5, Subjects
    <3>7. InstOf[Subject(h)] \in live  BY <3>4, <3>6, TokenMoves
    <3>8. Order("write", i) \in Todo(c) \ {h}  BY <3>2, <3>4, <2>2, Orders
    <3>9. i = InstOf[Subject(h)]
      BY <3>5, <3>8, <1>1, Following, Orders DEF KeepVerb
    <3> QED  BY <3>7, <3>9
  <2> QED  BY <2>3, <2>4
<1> QED  BY <1>1, <1>2 DEF Active, Working

\* What a step of a call leaves of an entry was there, but for the one it inserts.
LEMMA KeptCalls ==
  ASSUME Base, NEW c \in Call, CallStep(c), NEW h, CallEffect(c, h), NEW f \in Entry
  PROVE  /\ f \in pending' => f \in pending \/ h = Order("insert", f)
         /\ RowKept(f)' => RowKept(f) \/ (h = Order("save", f) /\ f \in pending)
         /\ Kept(f)' => Kept(f) \/ h = Order("insert", f)
         /\ Present(f)' => Present(f)
         /\ h = Order("insert", f) => f \in pending'
<1>1. /\ HeadIs(c, h) /\ h \in Todo(c) /\ \A d \in Call : Todo(d)' \subseteq Todo(d)
      /\ stray \subseteq stray' /\ Jobs \subseteq Jobs'
  BY CallJobs, CallOps DEF CallEffect, HeadIs, JobStep
<1>2. f \in pending' => f \in pending \/ h = Order("insert", f)  BY DEF CallEffect, MapStep
<1>3. f \in rows' => f \in rows \/ (h = Order("save", f) /\ f \in pending)  BY DEF CallEffect, RowStep
<1>4. RowKept(f)' => RowKept(f) \/ (h = Order("save", f) /\ f \in pending)
  BY <1>1, <1>3 DEF RowKept
<1>5. Kept(f)' => Kept(f) \/ h = Order("insert", f)  BY <1>2, <1>4 DEF Kept
<1>6. Due("insert", f)' => Due("insert", f)  BY <1>1 DEF Due
<1>7. h = Order("insert", f) => Due("insert", f)  BY <1>1 DEF Due
<1>8. Present(f)' => Present(f)  BY <1>5, <1>6, <1>7 DEF Present
<1>9. ASSUME h = Order("insert", f) PROVE f \in pending'
  <2>1. h.do = "insert" /\ h.row = f  BY <1>9, Orders
  <2>2. EditPending(c)  BY <2>1, <1>1, Acting
  <2> QED  BY <2>1, <2>2, <1>1 DEF EditPending, HeadIs
<1> QED  BY <1>2, <1>4, <1>5, <1>8, <1>9

\* The steps that remain after one of a token are about that token.
LEMMA SameHand ==
  ASSUME Base, NEW c \in Call, NEW h, HeadIs(c, h), NEW x \in Todo(c), x.do \in TokenVerb
  PROVE  /\ h.do \in TokenVerb => Subject(x) = Subject(h)
         /\ h.do \notin {"fetch", "write"} \cup WipeVerb
<1>1. h \in Todo(c) /\ Fit(h) /\ Before(h, Todo(c) \ {h}) /\ h.do \in Verb  BY Orders DEF HeadIs
<1>2. ASSUME h.do \in TokenVerb PROVE Subject(x) = Subject(h)
  <2>1. TokenStep(h, Todo(c) \ {h})  BY <1>1, <1>2 DEF Before
  <2> QED  BY <2>1, Verbs DEF TokenStep
<1>3. ASSUME h.do \in {"fetch", "write"} \cup WipeVerb PROVE FALSE
  <2>1. \A y \in Todo(c) : y.do \in {"write", "fetch", "erase", "purge", "sweep"}
    BY <1>1, <1>3, Following, Orders DEF WipeVerb
  <2> QED  BY <2>1 DEF TokenVerb, EntryVerb, MakeVerb, ClearVerb
<1> QED  BY <1>2, <1>3

\* When a call moves a token, nothing is there but what belongs to the wait it is moved to.
LEMMA AtMove ==
  ASSUME Base, NEW c \in Call, NEW h, HeadIs(c, h), h.do \in {"park", "end"}, NEW t \in Token, Subject(h) = t,
         Moved(t), NEW f \in Of(t), Present(f)
  PROVE  h.do = "park" /\ SameWait(f, h.row)
<1>1. /\ h \in Todo(c) /\ Fit(h) /\ Before(h, Todo(c) \ {h}) /\ h.do \in MoveVerb /\ f \in Entry /\ f[1] = t
      /\ h.do \in TokenVerb
  BY Verbs DEF HeadIs, Of, MoveVerb
<1>2. MoveStep(h, Todo(c) \ {h})  BY <1>1 DEF Before
<1>3. Moving(c, t)  BY <1>1 DEF Moving
<1>4. CASE Kept(f)
  <2>1. Leaving(c, f) \/ Arriving(c, f)  BY <1>3, <1>4 DEF Moved
  <2>2. \A x \in Todo(c) : x.do \notin {"drop", "delete", "forget"}
    BY <1>2 DEF MoveStep, KeepVerb
  <2>3. ~Leaving(c, f)  BY <2>2, <1>4, Orders DEF Leaving, Kept
  <2>4. PICK p \in Entry : Order("park", p) \in Todo(c) /\ SameWait(f, p)  BY <2>1, <2>3 DEF Arriving
  <2>5. Order("park", p) = h  BY <2>4, <1>2, Orders DEF MoveStep, KeepVerb
  <2> QED  BY <2>4, <2>5, Orders
<1>5. CASE Due("insert", f)
  <2>1. PICK d \in Call : Order("insert", f) \in Todo(d)  BY <1>5 DEF Due
  <2>2. Order("insert", f).do \in TokenVerb /\ Subject(Order("insert", f)) = t /\ Order("insert", f).row = f
    BY <1>1, EntrySteps, Verbs
  <2>3. d = c  BY <2>1, <2>2, <1>1, OneHand
  <2>4. Order("insert", f) \in Todo(c) \ {h}  BY <2>1, <2>3, Orders
  <2>5. h.do = "park"  BY <2>4, <1>2, Orders DEF MoveStep, KeepVerb
  <2>6. MakeStep(h, Todo(c) \ {h})  BY <2>5, <1>1 DEF Before, MakeVerb
  <2>7. SameWait(h.row, f)  BY <2>4, <2>6, Orders DEF MakeStep, MakeVerb
  <2> QED  BY <2>5, <2>7 DEF SameWait
<1> QED  BY <1>4, <1>5 DEF Present

\* A call that is to clear an entry before it moves the token will still clear it.
LEMMA StillLeaving ==
  ASSUME Base, NEW c \in Call, CallStep(c), NEW h, CallEffect(c, h), NEW d \in Call, NEW t, Moving(d, t)',
         NEW f \in Entry, h # Order("insert", f), Leaving(d, f)
  PROVE  Leaving(d, f)'
<1>0. HeadIs(c, h) /\ ~(d = c /\ Broken(c, h))
  BY DEF CallEffect, Moving, Broken, Stops
<1>1. ASSUME f \in pending' PROVE Order("drop", f) \in Todo(d)'
  <2>1. f \in pending  BY <1>1, KeptCalls
  <2>2. Order("drop", f) \in Todo(d)  BY <2>1 DEF Leaving
  <2>3. CASE Order("drop", f) \notin Todo(d)'
    <3>1. h = Order("drop", f) /\ Advances(c, h)  BY <2>2, <2>3, <1>0, Lost
    <3> QED  BY <3>1, <1>1, Orders DEF CallEffect, Done
  <2> QED  BY <2>3
<1>2. ASSUME RowKept(f)' PROVE Order("delete", f) \in Todo(d)' \/ Order("forget", f) \in Todo(d)'
  <2>1. Order("delete", f) \in Todo(d) \/ Order("forget", f) \in Todo(d)
    <3>1. CASE RowKept(f)  BY <3>1 DEF Leaving
    <3>2. CASE h = Order("save", f) /\ f \in pending
      <4>1. f[3] # "boundary"  BY <3>2, <1>0, Orders DEF HeadIs, Fit
      <4>2. Order("drop", f) \in Todo(d)  BY <3>2 DEF Leaving
      <4> QED  BY <4>1, <4>2, Clearing
    <3> QED  BY <3>1, <3>2, <1>2, KeptCalls
  <2>2. ASSUME NEW do \in {"delete", "forget"}, Order(do, f) \in Todo(d), Order(do, f) \notin Todo(d)' PROVE FALSE
    <3>1. h = Order(do, f) /\ Advances(c, h)  BY <2>2, <1>0, Lost
    <3>2. f \notin rows' \/ Order("delete", f) \in Jobs' \/ f \in stray'
      BY <3>1, <2>2, Orders DEF CallEffect, Done
    <3> QED  BY <3>2, <1>2 DEF RowKept
  <2> QED  BY <2>1, <2>2
<1> QED  BY <1>1, <1>2 DEF Leaving

LEMMA VisitCalls ==
  ASSUME Base, NEW c \in Call, CallStep(c), NEW h, CallEffect(c, h), NEW t \in Token, t \notin exposed', Visit(t)
  PROVE  Visit(t)'
<1>0. /\ HeadIs(c, h) /\ h \in Todo(c) /\ Fit(h) /\ Before(h, Todo(c) \ {h}) /\ h = Order(h.do, h.row)
      /\ \A d \in Call : Todo(d)' \subseteq Todo(d)
      /\ NotBefore(t) /\ OneWait(t) /\ Moved(t) /\ Taken(t)
  BY CallOps, Orders DEF CallEffect, HeadIs, Visit
<1>f. ASSUME NEW f \in Of(t)
      PROVE  /\ f \in Entry /\ f[1] = t /\ f[2] \in Wait
             /\ Present(f)' => Present(f)
             /\ Kept(f)' => Kept(f) \/ h = Order("insert", f)
             /\ \A do \in EntryVerb : /\ Order(do, f).do \in TokenVerb /\ Subject(Order(do, f)) = t
                                      /\ Order(do, f).row = f /\ Order(do, f).do = do
  BY EntrySteps, Entries, KeptCalls DEF Of
<1>n. /\ Len(Route) \in Nat /\ Wait = 1..Len(Route) /\ at[t] \in 0..Ended
  BY Names DEF Base, TypeOK
<1>m. ASSUME NEW d \in Call, Moving(d, t)'
      PROVE  Moving(d, t) /\ ~(d = c /\ Broken(c, h)) /\ \E x \in Todo(d)' : x.do \in MoveVerb /\ Subject(x) = t
  BY <1>m, <1>0 DEF Moving, Broken, Stops
\* The step that moves the token.
<1>1. ASSUME h.do \in {"park", "end"}, Subject(h) = t, NEW f \in Of(t), Present(f)
      PROVE  h.do = "park" /\ SameWait(f, h.row)
  BY <1>0, <1>1, AtMove
<1>2. NotBefore(t)'
  <2> SUFFICES ASSUME NEW f \in Of(t), Present(f)' PROVE at'[t] <= f[2]  BY DEF NotBefore, Of
  <2>1. Present(f) /\ f[2] \in Wait  BY <1>f
  <2>2. CASE at'[t] = at[t]  BY <2>1, <2>2, <1>0 DEF NotBefore
  <2>3. CASE at'[t] # at[t]
    <3>1. h.do \in {"take"} \cup MoveVerb /\ Subject(h) = t /\ Advances(c, h)  BY <2>3, TokenMoves
    <3>2. h.do # "terminate"  BY <3>1, TokenMoves
    <3>3. CASE h.do = "take"
      <4>1. at'[t] = 0  BY <3>1, <3>3, TokenMoves DEF Nowhere
      <4> QED  BY <4>1, <2>1, <1>n
    <3>4. CASE h.do \in {"park", "end"}
      <4>1. h.do = "park" /\ SameWait(f, h.row)  BY <3>1, <3>4, <2>1, <1>1
      <4>2. at'[t] = h.row[2]  BY <4>1, <3>1, TokenMoves
      <4> QED  BY <4>1, <4>2, <2>1, <1>n DEF SameWait
    <3> QED  BY <3>1, <3>2, <3>3, <3>4 DEF MoveVerb
  <2> QED  BY <2>2, <2>3
<1>3. OneWait(t)'
  <2> SUFFICES ASSUME \A d \in Call : ~Moving(d, t)', NEW e \in Of(t), NEW f \in Of(t), Present(e)', Present(f)'
               PROVE  SameWait(e, f)
    BY DEF OneWait, Of, SameWait
  <2>1. Present(e) /\ Present(f)  BY <1>f
  <2>2. CASE \A d \in Call : ~Moving(d, t)  BY <2>1, <2>2, <1>0 DEF OneWait
  <2>3. ASSUME NEW d \in Call, Moving(d, t) PROVE SameWait(e, f)
    <3>1. PICK x \in Todo(d) : x.do \in MoveVerb /\ Subject(x) = t  BY <2>3 DEF Moving
    <3>2. x \notin Todo(d)'  BY <3>1 DEF Moving
    <3>3. d = c /\ ((x = h /\ Advances(c, h)) \/ Broken(c, h))  BY <3>2, Lost
    <3>4. x.do \in TokenVerb /\ (h.do \in TokenVerb => Subject(h) = t) /\ h.do \notin {"fetch", "erase"}
      BY <3>1, <3>3, <1>0, SameHand, Verbs DEF WipeVerb
    <3>5. h.do \in MoveVerb \/ h.do = "take"
      BY <3>1, <3>3, <3>4 DEF Broken, MoveVerb
    <3>6. Subject(h) = t  BY <3>4, <3>5, Verbs
    <3>7. h.do # "terminate"  BY <3>6, TokenMoves
    <3>8. CASE h.do = "take"
      <4>1. Broken(c, h) /\ h.row \in Entry /\ h.row[1] = t
        <5>1. h.row \in Entry /\ h.row[1] = t  BY <3>6, <3>8, <1>0, Subjects, Verbs
        <5> QED  BY <5>1, <3>1, <3>3, <3>8 DEF MoveVerb
      <4>2. ASSUME NEW g \in Of(t), Present(g)' PROVE SameWait(g, h.row)
        <5>1. ~Due("insert", g)'
          <6> SUFFICES ASSUME NEW b \in Call, Order("insert", g) \in Todo(b)' PROVE FALSE  BY DEF Due
          <6>1. Order("insert", g) \in Todo(b) /\ b # c  BY <4>1, <1>0 DEF Broken, Stops
          <6>2. b = c  BY <6>1, <3>1, <3>3, <3>4, <1>f, OneHand, Verbs
          <6> QED  BY <6>1, <6>2
        <5>2. Kept(g)  BY <5>1, <4>2, <1>f, <3>8, Orders DEF Present
        <5>3. h.row \in Of(t) /\ Order("take", h.row) \in Todo(c)  BY <4>1, <3>8, <1>0 DEF Of
        <5> QED  BY <5>2, <5>3, <1>0 DEF Taken
      <4>3. SameWait(e, h.row) /\ SameWait(f, h.row)  BY <4>2
      <4> QED  BY <4>3 DEF SameWait
    <3>9. CASE h.do \in {"park", "end"}
      <4>1. SameWait(e, h.row) /\ SameWait(f, h.row)  BY <3>6, <3>9, <2>1, <1>1
      <4> QED  BY <4>1 DEF SameWait
    <3> QED  BY <3>5, <3>7, <3>8, <3>9 DEF MoveVerb
  <2> QED  BY <2>2, <2>3
<1>4. Moved(t)'
  <2> SUFFICES ASSUME NEW d \in Call, Moving(d, t)', NEW f \in Of(t), Kept(f)'
               PROVE  Leaving(d, f)' \/ Arriving(d, f)'
    BY DEF Moved, Of
  <2>0. PICK x \in Todo(d)' : x.do \in MoveVerb /\ Subject(x) = t  BY <1>m
  <2>1. Moving(d, t) /\ ~(d = c /\ Broken(c, h)) /\ x \in Todo(d) /\ x.do \in TokenVerb
    BY <2>0, <1>m, <1>0, Verbs
  <2>2. CASE h = Order("insert", f)
    <3>1. h.do = "insert" /\ h.row = f /\ h.do \in TokenVerb /\ Subject(h) = t
      BY <2>2, <1>f, Verbs
    <3>2. d = c  BY <2>0, <2>1, <3>1, <1>0, OneHand
    <3>3. Advances(c, h)  BY <3>1, <1>0, Inserting
    <3>4. MakeStep(h, Todo(c) \ {h})  BY <3>1, <1>0 DEF Before, MakeVerb
    <3>5. x \in Todo(c) \ {h}  BY <2>0, <3>2, <3>3 DEF Advances
    <3>6. x.do \in MakeVerb \cup KeepVerb /\ (x.do \in MakeVerb => SameWait(f, x.row))
      BY <3>1, <3>4, <3>5 DEF MakeStep
    <3>7. x.do = "park"  BY <3>6, <2>0, Verbs
    <3>8. Fit(x) /\ x = Order("park", x.row)  BY <3>2, <3>5, <3>7, TodoFit, Orders
    <3>9. x.row \in Entry  BY <3>7, <3>8, Verbs DEF Fit
    <3> QED  BY <3>6, <3>7, <3>8, <3>9, <2>0, Verbs DEF Arriving, MakeVerb
  <2>3. CASE h # Order("insert", f)
    <3>1. Leaving(d, f) \/ Arriving(d, f)  BY <2>1, <2>3, <1>0, <1>f DEF Moved
    <3>2. CASE Leaving(d, f)  BY <3>2, <2>3, <1>f, StillLeaving
    <3>3. CASE Arriving(d, f)
      <4>1. PICK p \in Entry : Order("park", p) \in Todo(d) /\ SameWait(f, p)  BY <3>3 DEF Arriving
      <4>2. CASE Order("park", p) \in Todo(d)'  BY <4>1, <4>2 DEF Arriving
      <4>3. CASE Order("park", p) \notin Todo(d)'
        <5>1. d = c /\ h = Order("park", p) /\ Advances(c, h)  BY <4>1, <4>3, <2>1, Lost
        <5>2. h.do = "park" /\ h.do \in MoveVerb  BY <5>1, Orders DEF MoveVerb
        <5>3. MoveStep(h, Todo(c) \ {h})  BY <5>2, <1>0 DEF Before
        <5>4. x \in Todo(c) \ {h}  BY <2>0, <5>1 DEF Advances
        <5>5. x.do \in {"fetch", "write", "insert", "save"}  BY <5>3, <5>4 DEF MoveStep, KeepVerb
        <5> QED  BY <5>5, <2>0, Verbs
      <4> QED  BY <4>2, <4>3
    <3> QED  BY <3>1, <3>2, <3>3
  <2> QED  BY <2>2, <2>3
<1>5. Taken(t)'
  <2> SUFFICES ASSUME NEW d \in Call, NEW g \in Of(t), Order("take", g) \in Todo(d)', NEW e \in Of(t), Kept(e)'
               PROVE  SameWait(e, g)
    BY DEF Taken, Of, SameWait
  <2>1. Order("take", g) \in Todo(d)  BY <1>0
  <2>2. CASE Kept(e)  BY <2>1, <2>2, <1>0 DEF Taken
  <2>3. CASE h = Order("insert", e)
    <3>1. h.do = "insert" /\ h.row = e /\ h.do \in TokenVerb /\ Subject(h) = t
      BY <2>3, <1>f, Verbs
    <3>2. d = c  BY <2>1, <3>1, <1>0, <1>f, OneHand, Verbs
    <3>3. Order("take", g) \in Todo(c) \ {h}  BY <2>1, <3>1, <3>2, Orders
    <3>4. MakeStep(h, Todo(c) \ {h})  BY <3>1, <1>0 DEF Before, MakeVerb
    <3>5. "take" \in MakeVerb \cup KeepVerb  BY <3>3, <3>4, Orders DEF MakeStep
    <3> QED  BY <3>5, Verbs
  <2> QED  BY <2>2, <2>3, <1>f
<1> QED  BY <1>2, <1>3, <1>4, <1>5 DEF Visit

\* What a call writes of a token is no further than what is there of its waits.
LEMMA BehindCalls ==
  ASSUME Base, Visits, Behind, NEW c \in Call, CallStep(c), NEW h, CallEffect(c, h)
  PROVE  Behind'
<1> SUFFICES ASSUME NEW t \in Token, t \notin exposed', InstOf[t] \in saved', NEW f \in Of(t), Present(f)'
             PROVE  savedAt'[t] <= f[2]
  BY DEF Behind, Of
<1>1. t \notin exposed /\ f \in Entry /\ InstOf[t] \in Instance  BY CallJobs, Names DEF Of
<1>2. Present(f)  BY <1>1, KeptCalls
<1>3. CASE InstOf[t] \in saved /\ savedAt'[t] = savedAt[t]  BY <1>1, <1>2, <1>3 DEF Behind
<1>4. CASE h = Order("write", InstOf[t]) /\ savedAt'[t] = at[t]
  <2>1. Todo(c) = {h}  BY <1>4, Following, Orders DEF CallEffect
  <2>2. WriteDue(InstOf[t])  BY <2>1, <1>4, Orders DEF WriteDue
  <2>3. NotBefore(t)  BY <2>2, <1>1 DEF Active, Visits, Visit
  <2> QED  BY <2>3, <1>2, <1>4 DEF NotBefore
<1> QED  BY <1>3, <1>4, PlaceWritten

\* An error that ends the call a token is in leaves it where it does not wait.
LEMMA HandAborts ==
  ASSUME Base, NEW c \in Call, CallStep(c), NEW h, CallEffect(c, h), Broken(c, h),
         NEW t \in Token, InstOf[t] \in live, NEW x \in Todo(c), x.do \in TokenVerb, Subject(x) = t
  PROVE  at'[t] \notin Wait
<1>1. HeadIs(c, h) /\ h.do \notin {"fetch", "write", "erase"} /\ (h.do \in TokenVerb => Subject(h) = t)
  BY SameHand DEF CallEffect, WipeVerb
<1>2. h.do \in {"take", "park", "end"}  BY <1>1 DEF Broken
<1>3. Subject(h) = t  BY <1>1, <1>2, Verbs DEF MoveVerb
<1>4. h.do = "take"  BY <1>2, <1>3 DEF Broken
<1>5. at[t] \notin Wait  BY <1>3, <1>4, TokenMoves
<1>6. Nowhere \notin Wait  BY Names DEF Nowhere
<1> QED  BY <1>3, <1>4, <1>5, <1>6, TokenMoves

\* A step of a call leaves a token that waits something to wait for.
LEMMA WaitingCalls ==
  ASSUME Base, Stored, Waiting, NEW c \in Call, CallStep(c), NEW h, CallEffect(c, h)
  PROVE  Waiting'
<1> SUFFICES ASSUME NEW t \in Token, t \notin exposed', InstOf[t] \in live', at'[t] \in Wait
             PROVE  Awaited(t)'
  BY DEF Waiting
<1>0. /\ t \notin exposed /\ live' = live /\ InstOf[t] \in live /\ InstOf[t] \in Instance
      /\ HeadIs(c, h) /\ h \in Todo(c) /\ Fit(h) /\ Before(h, Todo(c) \ {h}) /\ h = Order(h.do, h.row)
  BY CallJobs, Orders, Names DEF CallEffect, HeapStep, HeadIs
<1>1. ~(h.do = "take" /\ Subject(h) = t /\ Advances(c, h))
  <2>1. Nowhere \notin Wait  BY Names DEF Nowhere
  <2> QED  BY <2>1, TokenMoves
<1>2. ASSUME h.do \in MoveVerb, Subject(h) = t, Advances(c, h) PROVE Awaited(t)'
  <2>1. h.do # "end"  BY <1>2, TokenMoves, Names
  <2>2. h.do # "terminate"  BY <1>2, TokenMoves
  <2>3. h.do = "park"  BY <1>2, <2>1, <2>2 DEF MoveVerb
  <2>4. at'[t] = h.row[2]  BY <1>2, <2>3, TokenMoves
  <2>5. h.row \in Entry /\ h.row[1] = t /\ h.row[3] # "boundary"
    <3>1. h.row \in Entry /\ h.row[1] = t  BY <2>3, <1>0, <1>2, Subjects, Verbs
    <3> QED  BY <3>1, <2>3, <1>0 DEF Fit
  <2>6. Order("insert", h.row) \in Todo(c) \ {h}
    BY <2>3, <1>0, <1>2 DEF Before, MoveStep
  <2>7. Due("insert", h.row)'  BY <2>6, <1>2 DEF Due, Advances
  <2> QED  BY <2>4, <2>5, <2>7 DEF Awaited, Of
<1>3. ASSUME NEW d \in Call, NEW x \in Todo(d), x.do \in TokenVerb, Subject(x) = t, x \notin Todo(d)'
      PROVE  d = c /\ x = h /\ Advances(c, h)
  <2>1. d = c /\ ((x = h /\ Advances(c, h)) \/ Broken(c, h))  BY <1>3, Lost
  <2>2. ~Broken(c, h)  BY <2>1, <1>0, <1>3, HandAborts
  <2> QED  BY <2>1, <2>2
<1>4. CASE at'[t] # at[t]
  <2>1. h.do \in {"take"} \cup MoveVerb /\ Subject(h) = t /\ Advances(c, h)  BY <1>4, TokenMoves
  <2> QED  BY <2>1, <1>1, <1>2
<1>5. CASE at'[t] = at[t]
  <2>0. Awaited(t)  BY <1>5, <1>0 DEF Waiting
  <2>1. ASSUME NEW d \in Call, Moving(d, t) PROVE Awaited(t)'
    <3>1. PICK x \in Todo(d) : x.do \in MoveVerb /\ Subject(x) = t  BY <2>1 DEF Moving
    <3>2. CASE x \in Todo(d)'  BY <3>1, <3>2 DEF Awaited, Moving
    <3>3. CASE x \notin Todo(d)'
      <4>1. x = h /\ Advances(c, h)  BY <3>1, <3>3, <1>3, Verbs
      <4> QED  BY <4>1, <3>1, <1>2
    <3> QED  BY <3>2, <3>3
  <2>2. ASSUME NEW e \in Of(t), e[2] = at[t], e[3] # "boundary", e \in pending PROVE Awaited(t)'
    <3>0. e \in Entry /\ e[1] = t  BY <2>2 DEF Of
    <3>1. CASE e \in pending'  BY <3>1, <2>2, <1>5 DEF Awaited, Of
    <3>2. CASE e \notin pending'
      <4>1. h # Order("purge", InstOf[t])
        <5>1. h = Order("purge", InstOf[t]) => Wiped(InstOf[t])  BY <1>0 DEF Wiped, WipeVerb, Due
        <5> QED  BY <5>1, <1>0 DEF Stored, Deleting
      <4>2. h = Order("drop", e)
        <5>1. h.do # "terminate"  BY <3>2, <2>2, TokenMoves
        <5> QED  BY <5>1, <4>1, <3>0, <3>2, <2>2 DEF CallEffect, MapStep
      <4>3. /\ h.do = "drop" /\ h.row = e /\ h.do \in TokenVerb /\ Subject(h) = t /\ h.do \in ClearVerb
        BY <4>2, <3>0, EntrySteps, Verbs DEF ClearVerb
      <4>4. PICK y \in Todo(c) \ {h} : y.do \in MoveVerb
        BY <4>3, <1>0 DEF Before, ClearStep
      <4>5. y.do \in TokenVerb /\ Subject(y) = t  BY <4>3, <4>4, <1>0, SameHand, Verbs
      <4>6. y \in Todo(c)'  BY <4>4, <4>5, <1>3
      <4> QED  BY <4>4, <4>5, <4>6 DEF Awaited, Moving
    <3> QED  BY <3>1, <3>2
  <2>3. ASSUME NEW e \in Of(t), e[2] = at[t], e[3] # "boundary", Due("insert", e) PROVE Awaited(t)'
    <3>0. e \in Entry /\ e[1] = t  BY <2>3 DEF Of
    <3>1. PICK d \in Call : Order("insert", e) \in Todo(d)  BY <2>3 DEF Due
    <3>2. CASE Order("insert", e) \in Todo(d)'
      <4>1. Due("insert", e)'  BY <3>2 DEF Due
      <4> QED  BY <4>1, <2>3, <1>5 DEF Awaited, Of
    <3>3. CASE Order("insert", e) \notin Todo(d)'
      <4>1. Order("insert", e).do \in TokenVerb /\ Subject(Order("insert", e)) = t
        BY <3>0, EntrySteps, Verbs
      <4>2. h = Order("insert", e)  BY <4>1, <3>1, <3>3, <1>3
      <4>3. e \in pending'  BY <4>2, <3>0, KeptCalls
      <4> QED  BY <4>3, <2>3, <1>5 DEF Awaited, Of
    <3> QED  BY <3>2, <3>3
  <2> QED  BY <2>0, <2>1, <2>2, <2>3 DEF Awaited
<1> QED  BY <1>4, <1>5

----------------------------------------------------------------------------
(***************************************************************************)
(* The waits: calls that begin, the worker, shutdown and restart.          *)
(***************************************************************************)
\* A step that leaves a token where it is, the entries that are stored of it, and what
\* the calls are to do with it.
Quiet(t) ==
  /\ at'[t] = at[t]
  /\ \A f \in Of(t) : /\ f \in pending' => f \in pending
                      /\ f \in pending /\ f[3] # "boundary" => f \in pending'
                      /\ RowKept(f)' => RowKept(f) \/ (f \in pending /\ f[3] # "boundary")
  /\ \A d \in Call : \A x : x.do \in TokenVerb /\ Subject(x) = t => (x \in Todo(d)' <=> x \in Todo(d))

LEMMA QuietVisit ==
  ASSUME Base, NEW t \in Token, Quiet(t)
  PROVE  /\ Visit(t) => Visit(t)'
         /\ Awaited(t) => Awaited(t)'
         /\ \A f \in Of(t) : Present(f)' => Present(f)
<1>1. ASSUME NEW d \in Call, NEW e \in Entry, e[1] = t, NEW do \in EntryVerb
      PROVE  Order(do, e) \in Todo(d)' <=> Order(do, e) \in Todo(d)
  <2>1. Order(do, e).do \in TokenVerb /\ Subject(Order(do, e)) = t  BY <1>1, EntrySteps
  <2> QED  BY <2>1 DEF Quiet
<1>2. \A d \in Call : Moving(d, t)' <=> Moving(d, t)  BY Verbs DEF Moving, Quiet
<1>3. ASSUME NEW f \in Of(t)
      PROVE  /\ f \in Entry /\ f[1] = t /\ (f \in pending' => f \in pending)
             /\ f \in pending /\ f[3] # "boundary" => f \in pending'
             /\ Due("insert", f)' <=> Due("insert", f)
             /\ Kept(f)' => Kept(f)
             /\ \A d \in Call : Leaving(d, f) => Leaving(d, f)'
             /\ \A d \in Call : Arriving(d, f) => Arriving(d, f)'
  <2>1. /\ f \in Entry /\ f[1] = t /\ (f \in pending' => f \in pending)
        /\ f \in pending /\ f[3] # "boundary" => f \in pending'
        /\ RowKept(f)' => RowKept(f) \/ (f \in pending /\ f[3] # "boundary")
    BY DEF Of, Quiet
  <2>2. Due("insert", f)' <=> Due("insert", f)  BY <2>1, <1>1, Verbs DEF Due
  <2>3. Kept(f)' => Kept(f)  BY <2>1 DEF Kept
  <2>4. ASSUME NEW d \in Call, Leaving(d, f) PROVE Leaving(d, f)'
    <3>1. f \in pending' => Order("drop", f) \in Todo(d)'  BY <2>1, <2>4, <1>1, Verbs DEF Leaving
    <3>2. ASSUME RowKept(f)' PROVE Order("delete", f) \in Todo(d) \/ Order("forget", f) \in Todo(d)
      <4>1. CASE RowKept(f)  BY <4>1, <2>4 DEF Leaving
      <4>2. CASE f \in pending /\ f[3] # "boundary"
        <5>1. Order("drop", f) \in Todo(d)  BY <4>2, <2>4 DEF Leaving
        <5> QED  BY <5>1, <4>2, <2>1, Clearing
      <4> QED  BY <4>1, <4>2, <3>2, <2>1
    <3>3. RowKept(f)' => Order("delete", f) \in Todo(d)' \/ Order("forget", f) \in Todo(d)'
      BY <3>2, <2>1, <1>1, Verbs
    <3> QED  BY <3>1, <3>3 DEF Leaving
  <2>5. ASSUME NEW d \in Call, Arriving(d, f) PROVE Arriving(d, f)'
    <3>1. PICK p \in Entry : Order("park", p) \in Todo(d) /\ SameWait(f, p)  BY <2>5 DEF Arriving
    <3>2. p[1] = t  BY <3>1, <2>1 DEF SameWait
    <3>3. Order("park", p) \in Todo(d)'  BY <3>1, <3>2, <1>1, Verbs
    <3> QED  BY <3>1, <3>3 DEF Arriving
  <2> QED  BY <2>1, <2>2, <2>3, <2>4, <2>5
<1>4. \A f \in Of(t) : Present(f)' => Present(f)  BY <1>3 DEF Present
<1>5. Awaited(t) => Awaited(t)'  BY <1>2, <1>3 DEF Awaited, Of, Quiet
<1>6. ASSUME Visit(t) PROVE Visit(t)'
  <2>1. NotBefore(t)'  BY <1>4, <1>6 DEF Visit, NotBefore, Of, Quiet
  <2>2. OneWait(t)'
    <3> SUFFICES ASSUME \A d \in Call : ~Moving(d, t)', NEW e \in Of(t), NEW f \in Of(t), Present(e)', Present(f)'
                 PROVE  SameWait(e, f)
      BY DEF OneWait, Of, SameWait
    <3> QED  BY <1>2, <1>4, <1>6 DEF Visit, OneWait
  <2>3. Moved(t)'
    <3> SUFFICES ASSUME NEW d \in Call, Moving(d, t)', NEW f \in Of(t), Kept(f)'
                 PROVE  Leaving(d, f)' \/ Arriving(d, f)'
      BY DEF Moved, Of
    <3>1. Kept(f) /\ Moving(d, t)  BY <1>2, <1>3
    <3>2. Leaving(d, f) \/ Arriving(d, f)  BY <3>1, <1>6 DEF Visit, Moved
    <3> QED  BY <3>2, <1>3
  <2>4. Taken(t)'
    <3> SUFFICES ASSUME NEW d \in Call, NEW g \in Of(t), Order("take", g) \in Todo(d)', NEW e \in Of(t), Kept(e)'
                 PROVE  SameWait(e, g)
      BY DEF Taken, Of, SameWait
    <3>1. Order("take", g) \in Todo(d) /\ Kept(e)  BY <1>1, <1>3, Verbs
    <3> QED  BY <3>1, <1>6 DEF Visit, Taken
  <2> QED  BY <2>1, <2>2, <2>3, <2>4 DEF Visit
<1> QED  BY <1>4, <1>5, <1>6

\* A step that is quiet for all tokens of an instance that stays.
Steady(t) == Active(InstOf[t])' \/ InstOf[t] \in saved' =>
  /\ Quiet(t)
  /\ Active(InstOf[t])' => Active(InstOf[t])
  /\ InstOf[t] \in live' => InstOf[t] \in live
  /\ InstOf[t] \in saved' => \/ InstOf[t] \in saved /\ savedAt'[t] = savedAt[t]
                             \/ Active(InstOf[t]) /\ savedAt'[t] = at[t]

LEMMA QuietWaits ==
  ASSUME Base, Waits, exposed \subseteq exposed', \A t \in Token : t \notin exposed' => Steady(t)
  PROVE  Waits'
<1>1. ASSUME NEW t \in Token, t \notin exposed', Active(InstOf[t])' \/ InstOf[t] \in saved'
      PROVE  /\ t \notin exposed /\ at'[t] = at[t]
             /\ Visit(t) => Visit(t)'
             /\ Awaited(t) => Awaited(t)'
             /\ \A f \in Of(t) : Present(f)' => Present(f)
  <2>1. Quiet(t) /\ t \notin exposed  BY <1>1 DEF Steady
  <2> QED  BY <2>1, QuietVisit DEF Quiet
<1>3. Visits'
  <2> SUFFICES ASSUME NEW t \in Token, t \notin exposed', Active(InstOf[t])' PROVE Visit(t)'
    BY DEF Visits
  <2>1. Active(InstOf[t]) /\ t \notin exposed  BY <1>1 DEF Steady
  <2>2. Visit(t)  BY <2>1 DEF Waits, Visits
  <2> QED  BY <2>2, <1>1
<1>4. Waiting'
  <2> SUFFICES ASSUME NEW t \in Token, t \notin exposed', InstOf[t] \in live', at'[t] \in Wait PROVE Awaited(t)'
    BY DEF Waiting
  <2>1. Active(InstOf[t])'  BY DEF Active
  <2>2. InstOf[t] \in live /\ t \notin exposed /\ at'[t] = at[t]  BY <2>1, <1>1 DEF Steady
  <2>3. Awaited(t)  BY <2>2 DEF Waits, Waiting
  <2> QED  BY <2>1, <2>3, <1>1
<1>5. Behind'
  <2> SUFFICES ASSUME NEW t \in Token, t \notin exposed', InstOf[t] \in saved', NEW f \in Of(t), Present(f)'
               PROVE  savedAt'[t] <= f[2]
    BY DEF Behind, Of
  <2>1. Present(f) /\ t \notin exposed  BY <1>1
  <2>2. CASE InstOf[t] \in saved /\ savedAt'[t] = savedAt[t]  BY <2>1, <2>2 DEF Waits, Behind
  <2>3. CASE Active(InstOf[t]) /\ savedAt'[t] = at[t]
    <3>1. NotBefore(t)  BY <2>1, <2>3 DEF Waits, Visits, Visit
    <3> QED  BY <2>1, <2>3, <3>1 DEF NotBefore
  <2> QED  BY <2>2, <2>3 DEF Steady
<1> QED  BY <1>3, <1>4, <1>5 DEF Waits

LEMMA WaitsCalls ==
  ASSUME Base, Stored, Waits, NEW c \in Call, CallStep(c)
  PROVE  Waits'
<1>1. PICK h : CallEffect(c, h)  BY CallEffects
<1>2. Visits /\ Behind /\ Waiting  BY DEF Waits
<1>3. Visits'
  <2> SUFFICES ASSUME NEW t \in Token, t \notin exposed', Active(InstOf[t])' PROVE Visit(t)'
    BY DEF Visits
  <2>1. t \notin exposed /\ InstOf[t] \in Instance  BY CallJobs, Names
  <2>2. Active(InstOf[t])  BY <2>1, <1>1, ActiveCalls
  <2>3. Visit(t)  BY <2>1, <2>2, <1>2 DEF Visits
  <2> QED  BY <2>3, <1>1, VisitCalls
<1>4. Behind'  BY <1>1, <1>2, BehindCalls
<1>5. Waiting'  BY <1>1, <1>2, WaitingCalls
<1> QED  BY <1>3, <1>4, <1>5 DEF Waits

\* A call that ends a wait is to clear all of it, and to move the token.
LEMMA WaitsComplete ==
  ASSUME Base, Stored, Waits, NEW c \in Call, NEW e \in Entry, Complete(c, e)
  PROVE  Waits'
<1>1. PICK k \in Copy : /\ New(e[1], e[2] + 1, k) /\ Begin(c, Program(e, k))
                        /\ Sound(Program(e, k)) /\ Leading(e, k, Range(Program(e, k)))
                        /\ Leaves(e, Range(Program(e, k)))
  BY CompleteBegins
<1>2. PICK S : S = Range(Program(e, k))  OBVIOUS
<1>3. Leading(e, k, S) /\ Leaves(e, S)  BY <1>1, <1>2
<1>4. /\ Starts(c, S) /\ Jobs' = Jobs /\ rows' = rows /\ saved' = saved /\ savedAt' = savedAt
      /\ stray' = stray /\ exposed' = exposed
  BY <1>1, <1>2, BeginFrame
<1>5. /\ e \in pending /\ ~Handled(e[1]) /\ live' = live /\ at' = at
      /\ pending' = pending \ {e} /\ worker' = worker
  <2>1. worker' = worker  BY <1>1 DEF Begin, workVars
  <2> QED  BY <2>1 DEF Complete
<1>6. Todo(c) = {} /\ Todo(c)' = S /\ \A d \in Call : d # c => Todo(d)' = Todo(d)
  BY <1>4 DEF Starts, Others
<1>7. /\ e[1] \in Token /\ e[2] \in Int /\ InstOf[e[1]] \in Instance /\ e \in Of(e[1])
      /\ at[e[1]] \in Int /\ savedAt[e[1]] \in Int
  <2>1. Len(Route) \in Nat /\ e[2] \in 1..Len(Route) /\ e[1] \in Token  BY Names, Entries
  <2>2. at[e[1]] \in 0..Ended /\ savedAt[e[1]] \in 0..Ended  BY <2>1 DEF Base, TypeOK
  <2> QED  BY <2>1, <2>2, Names DEF Of
<1>8. \A y \in S : \/ y.do \in KeepVerb /\ y.row = InstOf[e[1]]
                   \/ y.do \in TokenVerb /\ Subject(y) = e[1]
  BY <1>3, LeadingTokens
<1>9. \A f \in Entry : RowKept(f)' <=> RowKept(f)  BY <1>4 DEF RowKept
<1>10. ASSUME NEW i \in Instance, Active(i)' PROVE Active(i)
  <2>1. WriteDue(i)' => WriteDue(i)
    <3> SUFFICES ASSUME NEW d \in Call, Order("write", i) \in Todo(d)', \A x \in Todo(d)' : x.do # "take"
                 PROVE  WriteDue(i)
      BY DEF WriteDue
    <3>1. Order("take", e) \in S /\ Order("take", e).do = "take"  BY <1>3, Orders DEF Leaves
    <3>2. d # c  BY <3>1, <1>6
    <3> QED  BY <3>2, <1>6 DEF WriteDue
  <2> QED  BY <2>1, <1>5, <1>10 DEF Active, Working
\* The other tokens.
<1>11. ASSUME NEW t \in Token, t # e[1] PROVE Quiet(t)
  <2>1. \A f \in Of(t) : f \in Entry /\ f # e  BY <1>11 DEF Of
  <2>2. \A x \in S : ~(x.do \in TokenVerb /\ Subject(x) = t)  BY <1>8, <1>11, Verbs
  <2>3. \A d \in Call : \A x : x.do \in TokenVerb /\ Subject(x) = t => (x \in Todo(d)' <=> x \in Todo(d))
    BY <2>2, <1>6
  <2> QED  BY <2>1, <2>3, <1>5, <1>9 DEF Quiet
\* The token itself: before ...
<1>12. \A d \in Call : \A x \in Todo(d) : ~(x.do \in TokenVerb /\ Subject(x) = e[1])
  BY <1>5, <1>7, MentionsHandled DEF Mentions
<1>13. \A d \in Call : d # c => \A x \in Todo(d)' : ~(x.do \in TokenVerb /\ Subject(x) = e[1])
  BY <1>6, <1>12
<1>14. Present(e)  BY <1>5 DEF Present, Kept
\* ... and after the call has begun.
<1>15. Moving(c, e[1])'
  <2>1. PICK y \in S : y.do \in MoveVerb  BY <1>3 DEF Leading
  <2>2. y.do \in TokenVerb /\ Subject(y) = e[1]  BY <2>1, <1>8, Verbs
  <2> QED  BY <2>1, <2>2, <1>6 DEF Moving
<1>16. ASSUME NEW f \in Of(e[1])
       PROVE  /\ f \in Entry /\ f[1] = e[1] /\ f[2] \in Int
              /\ Kept(f)' => Kept(f) /\ Present(f)
              /\ Due("insert", f)' => f[2] = e[2] + 1
  <2>1. f \in Entry /\ f[1] = e[1]  BY DEF Of
  <2>2. f[2] \in 1..Len(Route) /\ Len(Route) \in Nat  BY <2>1, Entries, Names
  <2>3. Kept(f)' => Kept(f) /\ Present(f)  BY <2>1, <1>5, <1>9 DEF Kept, Present
  <2>4. ASSUME Due("insert", f)' PROVE f[2] = e[2] + 1
    <3>1. PICK d \in Call : Order("insert", f) \in Todo(d)'  BY <2>4 DEF Due
    <3>2. Order("insert", f).do \in TokenVerb /\ Subject(Order("insert", f)) = e[1]
      BY <2>1, EntrySteps, Verbs
    <3>3. Order("insert", f) \in S  BY <3>1, <3>2, <1>6, <1>13
    <3> QED  BY <3>3, <1>3, Orders DEF Leading, KeepVerb, ClearVerb
  <2> QED  BY <2>1, <2>2, <2>3, <2>4
<1>17. ASSUME Visit(e[1]) PROVE Visit(e[1])'
  <2>0. \A d \in Call : ~Moving(d, e[1])  BY <1>12, Verbs DEF Moving
  <2>1. \A f \in Of(e[1]) : Present(f) => SameWait(f, e)
    BY <2>0, <1>7, <1>14, <1>17 DEF Visit, OneWait
  <2>2. NotBefore(e[1])'
    <3> SUFFICES ASSUME NEW f \in Of(e[1]), Present(f)' PROVE at[e[1]] <= f[2]
      BY <1>5 DEF NotBefore, Of
    <3>1. CASE Kept(f)'  BY <3>1, <1>16, <1>17 DEF Visit, NotBefore
    <3>2. CASE Due("insert", f)'
      <4>1. f[2] = e[2] + 1 /\ at[e[1]] <= e[2]
        BY <3>2, <1>7, <1>14, <1>16, <1>17 DEF Visit, NotBefore
      <4> QED  BY <4>1, <1>7
    <3> QED  BY <3>1, <3>2 DEF Present
  <2>3. OneWait(e[1])'  BY <1>15 DEF OneWait
  <2>4. Moved(e[1])'
    <3> SUFFICES ASSUME NEW d \in Call, Moving(d, e[1])', NEW f \in Of(e[1]), Kept(f)'
                 PROVE  Leaving(d, f)'
      BY DEF Moved, Of
    <3>1. d = c  BY <1>13, Verbs DEF Moving
    <3>2. SameWait(f, e) /\ f \in Entry  BY <2>1, <1>16
    <3>3. KeptFit(f)  BY <3>2 DEF Base, Shape
    <3>4. f \in pending \/ f \in rows  BY <1>16 DEF Kept, RowKept
    <3>5. f[3] \in Parts(f[2])  BY <3>3, <3>4 DEF KeptFit
    <3>6. /\ f = e \/ Order("drop", f) \in S
          /\ f[3] # "boundary" => Order("delete", f) \in S \/ Order("forget", f) \in S
      BY <3>2, <3>5, <1>3 DEF Leaves
    <3>7. RowKept(f)' => f[3] # "boundary"  BY <3>2, <3>3, <1>9 DEF RowKept, KeptFit
    <3> QED  BY <3>1, <3>6, <3>7, <1>5, <1>6 DEF Leaving
  <2>5. Taken(e[1])'
    <3> SUFFICES ASSUME NEW d \in Call, NEW g \in Of(e[1]), Order("take", g) \in Todo(d)', NEW f \in Of(e[1]), Kept(f)'
                 PROVE  SameWait(f, g)
      BY DEF Taken, Of, SameWait
    <3>1. Order("take", g).do \in TokenVerb /\ Subject(Order("take", g)) = e[1]
      BY <1>16, EntrySteps, Verbs
    <3>2. Order("take", g) \in S  BY <3>1, <1>6, <1>13
    <3>3. g = e  BY <3>2, <1>3, Orders DEF Leading, KeepVerb, ClearVerb, MakeVerb
    <3> QED  BY <3>3, <2>1, <1>16
  <2> QED  BY <2>2, <2>3, <2>4, <2>5 DEF Visit
<1>18. Visits'
  <2> SUFFICES ASSUME NEW t \in Token, t \notin exposed, Active(InstOf[t])' PROVE Visit(t)'
    BY <1>4 DEF Visits
  <2>1. Active(InstOf[t])  BY <1>10, Names
  <2>2. Visit(t)  BY <2>1 DEF Waits, Visits
  <2> QED  BY <2>2, <1>11, <1>17, QuietVisit
<1>19. Behind'
  <2> SUFFICES ASSUME NEW t \in Token, t \notin exposed, InstOf[t] \in saved, NEW f \in Of(t), Present(f)'
               PROVE  savedAt[t] <= f[2]
    BY <1>4 DEF Behind, Of
  <2>1. \A g \in Of(t) : Present(g) => savedAt[t] <= g[2]  BY DEF Waits, Behind
  <2>2. CASE t # e[1]
    <3>1. Present(f)  BY <2>2, <1>11, QuietVisit
    <3> QED  BY <3>1, <2>1
  <2>3. CASE t = e[1] /\ Kept(f)'  BY <2>1, <2>3, <1>16
  <2>4. CASE t = e[1] /\ Due("insert", f)'
    <3>1. f[2] = e[2] + 1 /\ savedAt[t] <= e[2]  BY <2>1, <2>4, <1>7, <1>14, <1>16
    <3> QED  BY <3>1, <2>4, <1>7
  <2> QED  BY <2>2, <2>3, <2>4 DEF Present
<1>20. Waiting'
  <2> SUFFICES ASSUME NEW t \in Token, t \notin exposed, InstOf[t] \in live, at[t] \in Wait PROVE Awaited(t)'
    BY <1>4, <1>5 DEF Waiting
  <2>1. CASE t = e[1]  BY <2>1, <1>15 DEF Awaited
  <2>2. CASE t # e[1]
    <3>1. Awaited(t)  BY DEF Waits, Waiting
    <3> QED  BY <3>1, <2>2, <1>11, QuietVisit
  <2> QED  BY <2>1, <2>2
<1> QED  BY <1>18, <1>19, <1>20 DEF Waits

LEMMA WaitsDelete ==
  ASSUME Base, Waits, NEW c \in Call, NEW i \in Instance, DeleteInstance(c, i)
  PROVE  Waits'
<1>1. Begin(c, DeleteProgram(i)) /\ Sound(DeleteProgram(i))  BY DeleteSound DEF DeleteInstance
<1>2. PICK S : S = {Order("sweep", i), Order("erase", i), Order("purge", i)}  OBVIOUS
<1>3. Range(DeleteProgram(i)) = S  BY <1>2, DeleteSound
<1>4. /\ Starts(c, S) /\ Jobs' = Jobs /\ rows' = rows /\ saved' = saved /\ savedAt' = savedAt
      /\ stray' = stray /\ exposed' = exposed /\ worker' = worker
  <2>1. worker' = worker  BY <1>1 DEF Begin, workVars
  <2> QED  BY <2>1, <1>1, <1>3, BeginFrame
<1>5. live' \subseteq live /\ at' = at /\ pending' = pending  BY DEF DeleteInstance
<1>6. Todo(c) = {} /\ Todo(c)' = S /\ \A d \in Call : d # c => Todo(d)' = Todo(d)
  BY <1>4 DEF Starts, Others
<1>7. \A x \in S : x.do \notin TokenVerb /\ x.do # "write"
  BY <1>2, Orders DEF TokenVerb, EntryVerb, MakeVerb, ClearVerb
<1>8. ASSUME NEW j \in Instance, Active(j)' PROVE Active(j)
  <2>1. WriteDue(j)' => WriteDue(j)
    <3> SUFFICES ASSUME NEW d \in Call, Order("write", j) \in Todo(d)', \A x \in Todo(d)' : x.do # "take"
                 PROVE  WriteDue(j)
      BY DEF WriteDue
    <3>1. d # c  BY <1>6, <1>7, Orders
    <3> QED  BY <3>1, <1>6 DEF WriteDue
  <2> QED  BY <2>1, <1>4, <1>5, <1>8 DEF Active, Working
<1>9. ASSUME NEW t \in Token PROVE Quiet(t)
  <2>1. \A f \in Entry : RowKept(f)' <=> RowKept(f)  BY <1>4 DEF RowKept
  <2>2. \A d \in Call : \A x : x.do \in TokenVerb /\ Subject(x) = t => (x \in Todo(d)' <=> x \in Todo(d))
    BY <1>6, <1>7
  <2> QED  BY <2>1, <2>2, <1>5 DEF Quiet, Of
<1>10. \A t \in Token : Steady(t)  BY <1>4, <1>5, <1>8, <1>9, Names DEF Steady
<1> QED  BY <1>4, <1>10, QuietWaits

LEMMA WaitsWorker ==
  ASSUME Base, Waits, WorkerStep
  PROVE  Waits'
<1>1. /\ live' = live /\ at' = at /\ pending' = pending /\ exposed' = exposed
      /\ stray \subseteq stray' /\ \A c \in Call : Todo(c)' = Todo(c)
  BY WorkerEffects DEF memVars
<1>2. worker \in [job : Job \cup {NoJob, Shutdown}, attempt : 0..(MaxRetries - 1), found : BOOLEAN]
  BY TypeParts DEF Base, WorkTyped
<1>3. Idle.job = NoJob /\ Exited.job = Shutdown /\ \A j : [Idle EXCEPT !.job = j].found = FALSE
  BY DEF Idle, Exited
\* The worker finds what is in the store.
<1>4. ASSUME NEW i \in Instance, Active(i)' PROVE Active(i)
  <2>1. WriteDue(i)' <=> WriteDue(i)  BY <1>1, SameDue
  <2>2. ASSUME Working', worker'.job.row = i, worker'.found PROVE i \in live
    <3>1. worker' # Idle /\ worker' # Exited  BY <2>2, <1>3 DEF Working
    <3>2. ~Receive  BY <3>1, <2>2, <1>3, Receiving
    <3>3. ~SkipJob  BY <3>1 DEF SkipJob
    <3>4. ~ExecuteJob
      <4>1. [worker EXCEPT !.attempt = @ + 1, !.found = FALSE].found = FALSE  BY <1>2
      <4> QED  BY <4>1, <3>1, <2>2 DEF ExecuteJob
    <3>5. FindInstance  BY <3>2, <3>3, <3>4 DEF WorkerStep
    <3>6. [worker EXCEPT !.found = TRUE].job = worker.job  BY <1>2
    <3> QED  BY <3>5, <3>6, <2>2 DEF FindInstance
  <2> QED  BY <2>1, <2>2, <1>1, <1>4 DEF Active
<1>5. ASSUME NEW t \in Token PROVE Quiet(t)
  <2>1. \A e \in Entry : KeptFit(e)'
    <3>1. Shape'  BY ShapeNext DEF Next
    <3> QED  BY <3>1 DEF Shape
  <2>2. ASSUME NEW f \in Entry, RowKept(f)' PROVE RowKept(f) \/ (f \in pending /\ f[3] # "boundary")
    <3>1. f \notin stray' /\ f \in rows' /\ Order("delete", f) \notin Jobs' /\ f \notin stray
      BY <2>2, <1>1 DEF RowKept
    <3>2. (f \in rows \/ f \in pending) /\ Order("delete", f) \notin Jobs  BY <3>1, WorkerEffects
    <3>3. f[3] # "boundary"  BY <3>1, <2>1 DEF KeptFit
    <3> QED  BY <3>1, <3>2, <3>3 DEF RowKept
  <2> QED  BY <2>2, <1>1 DEF Quiet, Of
\* It writes what it has found, as it is now.
<1>6. ASSUME NEW t \in Token, InstOf[t] \in saved'
      PROVE  \/ InstOf[t] \in saved /\ savedAt'[t] = savedAt[t]
             \/ Active(InstOf[t]) /\ savedAt'[t] = at[t]
  <2>1. CASE ~ExecuteJob  BY <2>1, <1>6 DEF WorkerStep, Receive, SkipJob, FindInstance, diskVars
  <2>2. CASE ExecuteJob
    <3>1. PICK do, r : do = worker.job.do /\ r = worker.job.row  OBVIOUS
    <3>2. /\ do \in {"save", "delete"} /\ r \in Row /\ JobFit(worker.job)
          /\ Write(do, r) \/ WriteFails(do, r)
      BY <2>2, <3>1, WorkerJobs
    <3>3. CASE r \in Entry  BY <3>2, <3>3, <1>6, WriteRows
    <3>4. CASE r \in Instance
      <4>1. do = "save"  BY <3>1, <3>2, <3>4 DEF JobFit
      <4>2. Working /\ worker.found  BY <2>2, <3>1, <3>4, <4>1 DEF ExecuteJob
      <4>3. Active(r)  BY <4>2, <3>1 DEF Active
      <4>4. CASE Write(do, r)
        <5>1. saved' = saved \cup {r} /\ savedAt'[t] = IF InstOf[t] = r THEN at[t] ELSE savedAt[t]
          BY <4>1, <4>4, <3>4 DEF Write, WriteInstance
        <5> QED  BY <5>1, <4>3, <1>6
      <4>5. CASE ~Write(do, r)  BY <4>5, <3>2, <1>6 DEF WriteFails, diskVars
      <4> QED  BY <4>4, <4>5
    <3> QED  BY <3>2, <3>3, <3>4 DEF Row
  <2> QED  BY <2>1, <2>2
<1>7. \A t \in Token : Steady(t)  BY <1>1, <1>4, <1>5, <1>6, Names DEF Steady
<1> QED  BY <1>1, <1>7, QuietWaits

LEMMA WaitsMode ==
  ASSUME Base, Waits, Signal \/ EndSweep \/ FlushQueue \/ Stop \/ UNCHANGED vars
  PROVE  Waits'
<1>1. /\ UNCHANGED memVars /\ UNCHANGED diskVars /\ UNCHANGED callVars /\ UNCHANGED ghostVars
      /\ worker' = worker
  BY DEF Signal, EndSweep, FlushQueue, Stop, vars, workVars
<1>2. /\ live' = live /\ at' = at /\ pending' = pending /\ rows' = rows
      /\ saved' = saved /\ savedAt' = savedAt
      /\ ops' = ops /\ stray' = stray /\ exposed' = exposed
  BY <1>1 DEF memVars, diskVars, callVars, ghostVars
<1>3. \A c \in Call : Todo(c)' = Todo(c)  BY <1>2, SameOps
<1>4. Jobs' = Jobs
  <2>1. CASE FlushQueue  BY <2>1, Flushing
  <2>2. CASE ~FlushQueue  BY <2>2, SameJobs DEF Signal, EndSweep, Stop, vars, workVars
  <2> QED  BY <2>1, <2>2
<1>5. ASSUME NEW t \in Token PROVE Steady(t)
  <2>1. Quiet(t)  BY <1>2, <1>3, <1>4 DEF Quiet, RowKept
  <2>2. Active(InstOf[t])' <=> Active(InstOf[t])
    <3>1. WriteDue(InstOf[t])' <=> WriteDue(InstOf[t])  BY <1>3, SameDue
    <3> QED  BY <3>1, <1>1, <1>2 DEF Active, Working
  <2> QED  BY <2>1, <2>2, <1>2 DEF Steady
<1> QED  BY <1>2, <1>5, QuietWaits

LEMMA WaitsCrash ==
  ASSUME Base, Waits, Crash
  PROVE  Waits'
<1>1. /\ live' = live /\ at' = at /\ pending' = pending /\ rows' = rows /\ saved' = saved /\ savedAt' = savedAt
      /\ stray' = stray \cup JobRows /\ exposed \subseteq exposed' /\ worker' = Idle
  BY DEF Crash, memVars, diskVars
<1>2. ~Working' /\ \A c \in Call : Todo(c)' = {}
  <2>1. Idle.job = NoJob  BY DEF Idle
  <2> QED  BY <2>1, <1>1, NothingDue DEF Working
<1>3. ASSUME NEW t \in Token, t \notin exposed' PROVE Steady(t)
  <2>1. \A d \in Call : \A x : x.do \in TokenVerb /\ Subject(x) = t => (x \in Todo(d)' <=> x \in Todo(d))
    BY <1>2, <1>3, Unexposed
  <2>2. \A f \in Entry : RowKept(f)' => RowKept(f)
    BY <1>1, RowsOfJobs, Orders DEF RowKept
  <2>3. Quiet(t)  BY <2>1, <2>2, <1>1 DEF Quiet, Of
  <2>4. Active(InstOf[t])' => InstOf[t] \in live  BY <1>1, <1>2 DEF Active, WriteDue
  <2> QED  BY <2>3, <2>4, <1>1 DEF Steady, Active
<1> QED  BY <1>1, <1>3, QuietWaits

\* What is restored of a token nothing was due for is what the memory held.
LEMMA WaitsRestore ==
  ASSUME Base, Stored, Waits, Restore
  PROVE  Waits'
<1>1. /\ running \in {"down", "crashed"} /\ rows' = rows /\ saved' = saved /\ savedAt' = savedAt
      /\ exposed \subseteq exposed' /\ worker' = Idle
  <2>1. exposed \subseteq exposed'  BY DEF Restore, Base, TypeOK
  <2> QED  BY <2>1 DEF Restore, diskVars
<1>2. ~Working' /\ \A c \in Call : Todo(c)' = {} /\ Todo(c) = {}
  <2>1. Idle.job = NoJob  BY DEF Idle
  <2>2. \A c \in Call : Todo(c) = {}  BY <1>1 DEF Base, Modes
  <2> QED  BY <2>1, <2>2, <1>1, NothingDue DEF Working
<1>3. /\ JobRows \subseteq stray
      /\ \A i : ~WriteDue(i) /\ ~Due("erase", i) /\ ~Wiped(i)
      /\ \A e : ~SaveDue(e) /\ ~DeleteDue(e)
  <2>1. JobRows \subseteq stray  BY <1>1 DEF Base, Modes
  <2> QED  BY <2>1, <1>2 DEF WriteDue, Wiped, SaveDue, DeleteDue, Due
<1>4. ASSUME NEW t \in Token, t \notin exposed', Active(InstOf[t])' \/ InstOf[t] \in saved'
      PROVE  /\ Quiet(t) /\ InstOf[t] \in live
             /\ InstOf[t] \in saved /\ savedAt'[t] = savedAt[t]
  <2>1. /\ live' = saved /\ at' = savedAt /\ pending' = rows /\ stray' = stray
        /\ t \notin exposed /\ ~Strayed(t)
    BY <1>4 DEF Restore, LoadRows
  <2>2. PICK i \in Instance : i = InstOf[t]  BY Names
  <2>3. i \in saved  BY <2>1, <2>2, <1>1, <1>2, <1>4 DEF Active, WriteDue
  <2>4. i \notin stray /\ \A f \in Of(t) : f \notin stray  BY <2>1, <2>2 DEF Strayed, Of
  <2>5. InstanceRow(i)  BY <2>1, <2>2, <2>4 DEF Stored, InstanceRows, Known, TokensOf
  <2>6. \A do, r : r \notin stray => Order(do, r) \notin Jobs  BY <1>3, RowsOfJobs, Orders
  <2>7. i \in live /\ Matches(i)  BY <2>3, <2>4, <2>5, <2>6, <1>3 DEF InstanceRow
  <2>8. at'[t] = at[t]  BY <2>1, <2>2, <2>7 DEF Matches, TokensOf
  <2>9. ASSUME NEW f \in Of(t)
        PROVE  /\ f \in pending' => f \in pending
               /\ f \in pending /\ f[3] # "boundary" => f \in pending'
               /\ RowKept(f)' => RowKept(f)
    <3>1. f \in Entry /\ f[1] = t /\ f \notin stray  BY <2>4 DEF Of
    <3>2. f \in rows => f[3] # "boundary"  BY <3>1 DEF Base, Shape, KeptFit
    <3>3. f[3] # "boundary" => EntryRow(f)  BY <3>1, <2>1 DEF Stored, EntryRows
    <3>4. f[3] # "boundary" => (f \in pending <=> f \in rows)
      BY <3>1, <3>3, <2>6, <1>3 DEF EntryRow
    <3>5. f \in rows => RowKept(f)  BY <3>1, <2>6 DEF RowKept
    <3>6. RowKept(f)' => f \in rows  BY <1>1 DEF RowKept
    <3> QED  BY <3>2, <3>4, <3>5, <3>6, <2>1
  <2>10. Quiet(t)  BY <2>8, <2>9, <1>2 DEF Quiet
  <2> QED  BY <2>2, <2>3, <2>7, <2>10, <1>1
<1>5. \A t \in Token : t \notin exposed' => Steady(t)  BY <1>4 DEF Steady, Active
<1> QED  BY <1>1, <1>5, QuietWaits

LEMMA WaitsInit ==
  ASSUME Init
  PROVE  Waits
<1>1. \A c \in Call : Todo(c) = {}  BY SoundNone DEF Init, Todo
<1>2. at = First /\ savedAt = First /\ rows \subseteq pending
  BY DEF Init
<1>3. \A e \in Entry : e \in pending <=> e[2] = First[e[1]] /\ e[4] = 0 /\ e[3] \in Parts(e[2])
  BY DEF Init
<1>4. ASSUME NEW t \in Token, NEW f \in Of(t), Present(f) PROVE f \in Entry /\ f[1] = t /\ f[2] = First[t] /\ f[4] = 0
  <2>1. f \in pending  BY <1>1, <1>2, <1>4 DEF Present, Kept, RowKept, Due
  <2> QED  BY <2>1, <1>3 DEF Of
<1>5. ASSUME NEW t \in Token PROVE Visit(t)
  <2>1. \A n \in Wait : n <= n
    <3>1. Wait = 1..Len(Route)  BY Names
    <3> QED  BY <3>1
  <2>2. NotBefore(t)  BY <2>1, <1>2, <1>4, Names DEF NotBefore
  <2>3. OneWait(t)  BY <1>4 DEF OneWait, SameWait
  <2>4. Moved(t) /\ Taken(t)  BY <1>1 DEF Moved, Taken, Moving
  <2> QED  BY <2>2, <2>3, <2>4 DEF Visit
<1>6. Behind  BY <1>2, <1>5 DEF Behind, Visit, NotBefore
<1>7. ASSUME NEW t \in Token PROVE Awaited(t)
  <2>1. PICK n \in Wait : n = First[t]  BY Names
  <2>2. PICK e : e = <<t, n, "main", 0>>  OBVIOUS
  <2>3. "main" \in Part /\ 0 \in Copy /\ "main" \in Parts(n)  BY BoundsAssumption DEF Part, Copy, Parts
  <2>4. e \in Entry /\ e[1] = t /\ e[2] = n /\ e[3] = "main" /\ e[4] = 0  BY <2>2, <2>3, Entries
  <2>5. e \in pending  BY <2>1, <2>3, <2>4, <1>3
  <2> QED  BY <2>1, <2>4, <2>5, <1>2 DEF Awaited, Of
<1> QED  BY <1>5, <1>6, <1>7 DEF Waits, Visits, Waiting

LEMMA WaitsNext ==
  ASSUME Base, Stored, Waits, [Next]_vars
  PROVE  Waits'
<1>1. CASE UNCHANGED vars  BY <1>1, WaitsMode
<1>2. CASE Next
  BY <1>2, WaitsCalls, WaitsComplete, WaitsDelete, WaitsWorker, WaitsMode, WaitsCrash, WaitsRestore DEF Next
<1> QED  BY <1>1, <1>2

\* What the invariant says of the waits that are over, and of a token no call moves.
LEMMA WaitsMean ==
  ASSUME Base, Waits
  PROVE  NoWorkRepeated /\ WaitsCanEnd
<1>1. NoWorkRepeated
  <2> SUFFICES ASSUME NEW e \in rows, InstOf[e[1]] \in saved, savedAt[e[1]] > e[2], e[1] \notin exposed,
                      e \notin stray \cup JobRows
               PROVE  FALSE
    BY DEF NoWorkRepeated
  <2>1. e \in Entry /\ e[1] \in Token /\ e[2] \in 1..Len(Route) /\ Len(Route) \in Nat
    BY Entries, Names DEF Base, TypeOK
  <2>2. savedAt[e[1]] \in 0..Ended /\ Ended = Len(Route) + 1  BY <2>1, Names DEF Base, TypeOK
  <2>3. Order("delete", e) \notin Jobs  BY RowsOfJobs, Orders
  <2>4. Present(e)  BY <2>3 DEF Present, Kept, RowKept
  <2>5. savedAt[e[1]] <= e[2]  BY <2>1, <2>4 DEF Waits, Behind, Of
  <2> QED  BY <2>1, <2>2, <2>5
<1>2. WaitsCanEnd
  <2> SUFFICES ASSUME NEW t \in Token, Settled(t)
               PROVE  \E e \in pending : e[1] = t /\ e[2] = at[t] /\ e[3] # "boundary"
    BY DEF WaitsCanEnd
  <2>1. Awaited(t)  BY DEF Waits, Waiting, Settled
  <2>2. \A c \in Call : ~Mentions(c, t)  BY MentionsHandled DEF Settled
  <2>3. \A c \in Call : ~Moving(c, t)  BY <2>2, Verbs DEF Moving, Mentions
  <2>4. ASSUME NEW e \in Of(t) PROVE e[1] = t /\ ~Due("insert", e)
    <3>1. e \in Entry /\ e[1] = t  BY DEF Of
    <3>2. Order("insert", e).do \in TokenVerb /\ Subject(Order("insert", e)) = t  BY <3>1, EntrySteps, Verbs
    <3> QED  BY <3>1, <3>2, <2>2 DEF Due, Mentions
  <2> QED  BY <2>1, <2>3, <2>4 DEF Awaited
<1> QED  BY <1>1, <1>2

----------------------------------------------------------------------------
\* The types of the model hold.
THEOREM PersistenceTyped == Spec => []TypeOK
<1>1. Init => Base /\ Stored  BY BaseInit, StoredInit
<1>2. Base /\ Stored /\ [Next]_vars => Base' /\ Stored'  BY BaseNext, StoredNext, StoredSame
<1>3. Base /\ Stored => TypeOK  BY DEF Base
<1> QED  BY <1>1, <1>2, <1>3, PTL DEF Spec

\* Whatever fails, is retried, or is cut short by a shutdown: a row nobody is working
\* on, and no retry is due for, says what the engine has in memory.
THEOREM TheStoreFollows == Spec => []StoreFollowsMemory
<1>1. Init => Base /\ Stored  BY BaseInit, StoredInit
<1>2. Base /\ Stored /\ [Next]_vars => Base' /\ Stored'  BY BaseNext, StoredNext, StoredSame
<1>3. Base /\ Stored => StoreFollowsMemory  BY StoredFollows
<1> QED  BY <1>1, <1>2, <1>3, PTL DEF Spec

\* Whenever the server dies, no wait is stored that its token, as stored, has left,
\* unless its delete was still to be retried: a restart does not repeat work.
THEOREM NoRepeatedWork == Spec => []NoWorkRepeated
<1>1. Init => Base /\ Stored /\ Waits  BY BaseInit, StoredInit, WaitsInit
<1>2. Base /\ Stored /\ Waits /\ [Next]_vars => Base' /\ Stored' /\ Waits'
  BY BaseNext, StoredNext, StoredSame, WaitsNext
<1>3. Base /\ Stored /\ Waits => NoWorkRepeated  BY WaitsMean
<1> QED  BY <1>1, <1>2, <1>3, PTL DEF Spec

\* A token that waits, and that no call works on, has an entry that can move it on; after
\* a restart too, if the crash did not catch it between two steps.
THEOREM TokensCanMoveOn == Spec => []WaitsCanEnd
<1>1. Init => Base /\ Stored /\ Waits  BY BaseInit, StoredInit, WaitsInit
<1>2. Base /\ Stored /\ Waits /\ [Next]_vars => Base' /\ Stored' /\ Waits'
  BY BaseNext, StoredNext, StoredSame, WaitsNext
<1>3. Base /\ Stored /\ Waits => WaitsCanEnd  BY WaitsMean
<1> QED  BY <1>1, <1>2, <1>3, PTL DEF Spec
=============================================================================
