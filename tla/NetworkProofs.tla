----------------------------- MODULE NetworkProofs -----------------------------
(***************************************************************************)
(* Theorems about Network and FirstBoot, for every host, whatever it       *)
(* changes to, every edit of the operator and every configuration that     *)
(* RouterOS comes with.                                                    *)
(*                                                                         *)
(* 1. What is installed has been acknowledged or seen (Reviewed).          *)
(* 2. The script as a set of commands (ScriptLists), what any part of it   *)
(*    has done to the configuration (Running), and what is there in the    *)
(*    end (Final, AskedKinds).                                             *)
(* 3. What the plan says of the addresses and routes that Detect saw       *)
(*    (Derived), and these of the host (Grounded).                         *)
(* 4. Detect makes progress (DetectRank).                                  *)
(***************************************************************************)
EXTENDS Network, SequenceTheorems, FiniteSetTheorems, TLAPS

-----------------------------------------------------------------------------
(* The review.                                                             *)

\* What relies on DHCP rests on an answer to this probe or on a lease.
Confirmed == plan.v4.mode = "dhcp" => answered \/ "lease4" \in files

\* Judge lets only a confirmed plan through to the review, and the review only an
\* unchanged one past the acknowledgement.
Reviewed ==
    /\ offered => answered
    /\ step = "review" => Confirmed
    /\ step \in {"prepare", "installed"} /\ ~acked => ~edited /\ Confirmed

(* The session begins before the review.                                   *)
LEMMA ReviewedInit == Init => Reviewed
BY DEF Init, Reviewed

(* Every step of Detect, the review and RouterOS keeps it.                 *)
LEMMA ReviewedNext == ASSUME Reviewed, [Next]_vars PROVE Reviewed'
<1> USE DEF reading, probing, grading, session, router
<1>1. CASE Detect /\ ~Judge
  <2>1. UNCHANGED <<offered, answered>>
    BY <1>1 DEF Detect, ReadRoutes4, ReadRoutes6, ReadRules, ReadLink, ReadUplinks, ReadAddresses, Assemble,
                ReadDNS, ProbeEnds, ProbeOver
  <2>2. step' \notin {"review", "prepare", "installed"}
    <3>1. CASE ReadRoutes4 \/ ReadRoutes6 \/ ReadRules \/ ReadLink
      BY <3>1 DEF ReadRoutes4, ReadRoutes6, ReadRules, ReadLink, Essential
    <3>2. CASE ReadUplinks \/ ReadAddresses \/ Assemble \/ ReadDNS \/ ProbeEnds
      BY <3>2 DEF ReadUplinks, ReadAddresses, Assemble, ReadDNS, ProbeEnds, ProbeOver, Essential
    <3> QED
      BY <1>1, <3>1, <3>2 DEF Detect
  <2> QED
    BY <2>1, <2>2 DEF Reviewed
<1>2. CASE Judge
  <2>1. step' = "review" => ~Unconfirmed
    BY <1>2 DEF Judge
  <2> QED
    BY <1>2, <2>1 DEF Judge, Unconfirmed, Reviewed, Confirmed
<1>3. CASE Receive
  <2>1. /\ offered' => answered'
        /\ step' \in {"probe", "judge"}
    BY <1>3 DEF Receive, IsOffer
  <2> QED
    BY <2>1 DEF Reviewed
<1>4. CASE ProbeClock \/ ProbeFails
  BY <1>4 DEF ProbeClock, ProbeFails, ProbeOver, Reviewed, Confirmed
<1>5. CASE Review
  <2>1. PICK p \in {plan} \cup Edits :
          /\ edited' = (p # plan /\ Submitted(p) # plan)
          /\ step' = "prepare" => plan' = Submitted(p) /\ Graded(p) = "verified"
          /\ step' \in {"prepare", "acknowledge", "refused"}
    BY <1>5 DEF Review
  <2>2. step' = "prepare" => plan' = plan /\ ~edited'
    BY <2>1 DEF Graded
  <2> QED
    BY <1>5, <2>1, <2>2 DEF Review, Reviewed, Confirmed
<1>6. CASE Acknowledge \/ Install
  BY <1>6 DEF Acknowledge, Install, Reviewed, Confirmed
<1>7. CASE HostChanges \/ Cancel \/ RouterOS \/ UNCHANGED vars
  BY <1>7 DEF HostChanges, Cancel, RouterOS, BeginScript, RunCommand, RunAgain, vars, Reviewed, Confirmed
<1> QED
  BY <1>1, <1>2, <1>3, <1>4, <1>5, <1>6, <1>7 DEF Next

(* What is installed without an acknowledgement is what Detect saw, and if *)
(* it relies on DHCP then a server has answered this installer's own probe *)
(* or there is a lease, whatever packets came and whatever has changed.    *)
THEOREM AcknowledgedOrSeen == Spec => []Acknowledged
<1>1. Reviewed => Acknowledged
  BY DEF Reviewed, Confirmed, Acknowledged
<1> QED
  BY ReviewedInit, ReviewedNext, <1>1, PTL DEF Spec

-----------------------------------------------------------------------------
(* The script as a set of commands, each of which it contains once unless   *)
(* the plan repeats an address.                                             *)

AddKinds == {"dhcp4", "address4", "host4", "recursive4", "default4",
             "dhcp6", "address6", "host6", "recursive6", "default6", "scoped6"}
Clears == {"dhcp4", "address4", "own4", "default4", "dhcp6", "address6", "own6", "default6"}
Ats     == {None} \cup Addresses4 \cup Addresses6 \cup Gateways4 \cup Gateways6
           \cup (SUBSET Servers) \cup {{"yes"}, {"no"}}
Command == [op: {"remove", "add", "set"}, kind: AddKinds \cup Clears \cup {"ra", "dns"}, at: Ats]

\* A list of commands, what is in it, and whether each is there just once.
Lists(s, commands, once) ==
    s \in Seq(Command) /\ (once => IsInjective(s)) /\ ToSet(s) = commands

\* No command at all.
LEMMA ListsNothing == ASSUME NEW once PROVE Lists(<<>>, {}, once)
BY DEF Lists, IsInjective, ToSet

\* One command.
LEMMA ListsOne == ASSUME NEW c \in Command, NEW once PROVE Lists(<<c>>, {c}, once)
BY DEF Lists, IsInjective, ToSet

\* Lists that share no command can be joined.
LEMMA ListsJoined ==
    ASSUME NEW s, NEW t, NEW A, NEW B, NEW once,
           Lists(s, A, once), Lists(t, B, once), A \cap B = {}
    PROVE  /\ Lists(s \o t, A \cup B, once)
           /\ Len(s \o t) = Len(s) + Len(t)
           /\ \A i \in 1 .. Len(s) : (s \o t)[i] = s[i]
<1> DEFINE st == s \o t
           m == Len(s)
           n == Len(t)
<1>1. s \in Seq(Command) /\ t \in Seq(Command)
  BY DEF Lists
<1>2. /\ m \in Nat /\ DOMAIN s = 1 .. m
      /\ n \in Nat /\ DOMAIN t = 1 .. n
  BY <1>1, LenProperties
<1>3. /\ st \in Seq(Command)
      /\ Len(st) = m + n
      /\ \A i \in 1 .. m + n : st[i] = IF i <= m THEN s[i] ELSE t[i - m]
  BY <1>1, ConcatProperties
<1>4. DOMAIN st = 1 .. m + n
  BY <1>3, LenProperties
<1>5. /\ \A i \in 1 .. m : i \in 1 .. m + n /\ st[i] = s[i]
      /\ \A j \in 1 .. n : m + j \in 1 .. m + n /\ st[m + j] = t[j]
  BY <1>2, <1>3
<1>6. \A i \in 1 .. m + n : i \in 1 .. m \/ \E j \in 1 .. n : i = m + j
  <2>1. \A i \in 1 .. m + n : i \notin 1 .. m => i - m \in 1 .. n /\ i = m + (i - m)
    BY <1>2
  <2> QED
    BY <2>1
<1>7. /\ A = {s[i] : i \in 1 .. m}
      /\ B = {t[j] : j \in 1 .. n}
      /\ ToSet(st) = {st[i] : i \in 1 .. m + n}
  BY <1>2, <1>4 DEF Lists, ToSet
<1>8. ToSet(st) = A \cup B
  <2>1. \A i \in 1 .. m + n : st[i] \in A \cup B
    BY <1>5, <1>6, <1>7
  <2>2. \A i \in 1 .. m : s[i] \in ToSet(st)
    BY <1>5, <1>7
  <2>3. \A j \in 1 .. n : t[j] \in ToSet(st)
    BY <1>5, <1>7
  <2> QED
    BY <1>7, <2>1, <2>2, <2>3
<1>9. once => IsInjective(st)
  <2> SUFFICES ASSUME once, NEW i \in 1 .. m + n, NEW k \in 1 .. m + n, st[i] = st[k] PROVE i = k
    BY <1>4 DEF IsInjective
  <2>1. CASE i \in 1 .. m /\ k \in 1 .. m
    BY <2>1, <1>2, <1>5 DEF Lists, IsInjective
  <2>2. CASE \E j, l \in 1 .. n : i = m + j /\ k = m + l
    BY <2>2, <1>2, <1>5 DEF Lists, IsInjective
  <2>3. \A x \in 1 .. m, l \in 1 .. n : st[x] # st[m + l]
    <3>1. \A x \in 1 .. m, l \in 1 .. n : st[x] \in A /\ st[m + l] \in B
      BY <1>5, <1>7
    <3> QED
      BY <3>1
  <2> QED
    BY <1>6, <2>1, <2>2, <2>3
<1> QED
  BY <1>3, <1>5, <1>8, <1>9 DEF Lists

\* The commands behind those of the first list are of the second.
LEMMA ListsTail ==
    ASSUME NEW s, NEW t, NEW A, NEW B, NEW once, Lists(s, A, once), Lists(t, B, once),
           NEW i \in 1 .. Len(s \o t), i > Len(s)
    PROVE  (s \o t)[i] \in B
<1>1. s \in Seq(Command) /\ t \in Seq(Command) /\ B = ToSet(t)
  BY DEF Lists
<1>2. /\ Len(s) \in Nat /\ Len(t) \in Nat /\ DOMAIN t = 1 .. Len(t)
      /\ Len(s \o t) = Len(s) + Len(t)
      /\ (s \o t)[i] = t[i - Len(s)]
  BY <1>1, ConcatProperties, LenProperties
<1>3. i - Len(s) \in DOMAIN t
  BY <1>2
<1> QED
  BY <1>1, <1>2, <1>3 DEF ToSet

\* SetToSeq lists every element of a finite set once.
LEMMA SetListed ==
    ASSUME NEW as, IsFiniteSet(as)
    PROVE  SetToSeq(as) \in Seq(as) /\ ToSet(SetToSeq(as)) = as
<1>1. PICK n \in Nat : n = Cardinality(as)
  BY FS_CardinalityType
<1>2. \E f \in [1 .. n -> as] : IsInjective(f)
  <2>1. ExistsBijection(1 .. n, as)
    BY <1>1, FS_CardinalityType
  <2> QED
    BY <2>1 DEF ExistsBijection, Bijection, Injection
<1>3. SetToSeq(as) \in [1 .. n -> as] /\ IsInjective(SetToSeq(as))
  BY <1>1, <1>2 DEF SetToSeq
<1>4. IsFiniteSet(1 .. n) /\ Cardinality(1 .. n) = n
  BY FS_Interval
<1>5. SetToSeq(as) \in Injection(1 .. n, as)
  BY <1>3 DEF Injection
<1>6. SetToSeq(as) \in Surjection(1 .. n, as)
  BY <1>1, <1>4, <1>5, FS_Injection
<1>7. SetToSeq(as) \in Seq(as) /\ DOMAIN SetToSeq(as) = 1 .. n
  <2>1. \A f : f \in [1 .. n -> as] => f \in Seq(as) /\ DOMAIN f = 1 .. n
    BY <1>1, SeqDef
  <2> QED
    BY <1>3, <2>1, Zenon
<1>8. \A a \in as : \E i \in 1 .. n : SetToSeq(as)[i] = a
  BY <1>6 DEF Surjection
<1>9. \A i \in 1 .. n : SetToSeq(as)[i] \in as
  BY <1>3
<1> QED
  BY <1>7, <1>8, <1>9 DEF ToSet

\* One command for each address of a list (the loops of routeros.go).
LEMMA ListsAll ==
    ASSUME NEW kind \in AddKinds, NEW as, as \in Seq(Ats), NEW once, once => IsInjective(as)
    PROVE  Lists(AddAll(kind, as), {Add(kind, a) : a \in ToSet(as)}, once)
<1>1. PICK l : l = AddAll(kind, as)
  OBVIOUS
<1>2. PICK n \in Nat : n = Len(as) /\ DOMAIN as = 1 .. n /\ \A i \in 1 .. n : as[i] \in Ats
  BY LenProperties
<1>3. l = [i \in 1 .. n |-> Add(kind, as[i])]
  BY <1>1, <1>2 DEF AddAll
<1>4. \A i \in 1 .. n : Add(kind, as[i]) \in Command
  BY <1>2 DEF Add, Command
<1>5. l \in [1 .. n -> Command]
  BY <1>3, <1>4, Zenon
<1>6. l \in Seq(Command) /\ DOMAIN l = 1 .. n
  BY <1>5
<1>7. \A i \in 1 .. n : l[i] = Add(kind, as[i])
  BY <1>3, Zenon
<1>8. once => IsInjective(l)
  <2>1. \A a : Add(kind, a).at = a
    BY DEF Add
  <2>2. \A i \in 1 .. n : l[i].at = as[i]
    BY <1>7, <2>1
  <2> QED
    BY <1>2, <1>6, <2>2 DEF IsInjective
<1>9. ToSet(l) = {Add(kind, a) : a \in ToSet(as)}
  <2>1. /\ ToSet(l) = {l[i] : i \in 1 .. n}
        /\ ToSet(as) = {as[i] : i \in 1 .. n}
    BY <1>2, <1>6 DEF ToSet
  <2>2. \A i \in 1 .. n : l[i] \in {Add(kind, a) : a \in ToSet(as)}
    BY <1>7, <2>1
  <2>3. \A a \in ToSet(as) : Add(kind, a) \in {l[i] : i \in 1 .. n}
    BY <1>7, <2>1
  <2> QED
    BY <2>1, <2>2, <2>3
<1> QED
  BY <1>1, <1>6, <1>8, <1>9 DEF Lists

\* Commands under a condition.
LEMMA ListsWhen ==
    ASSUME NEW b, NEW s, NEW A, NEW once, b => Lists(s, A, once)
    PROVE  Lists(When(b, s), IF b THEN A ELSE {}, once)
BY ListsNothing DEF When

-----------------------------------------------------------------------------
(* What the script does, whatever its order.                               *)

Only(b, commands) == IF b THEN commands ELSE {}
AddEach(kind, as) == {Add(kind, a) : a \in as}
Ra(v6)  == [op |-> "set", kind |-> "ra", at |-> IF v6.slaac THEN {"yes"} ELSE {"no"}]
Dns(p)  == [op |-> "set", kind |-> "dns", at |-> p.dns]

DefaultKind4(v4) == IF v4.onlink THEN "recursive4" ELSE "default4"
DefaultKind6(v6) ==
    IF Recursive(v6) THEN "recursive6" ELSE IF v6.gateway \in LinkLocal THEN "scoped6" ELSE "default6"

Wanted4(v4) ==
    Only(v4.mode = "dhcp", {Add("dhcp4", None)})
    \cup Only(v4.mode = "static",
              AddEach("address4", ToSet(v4.static))
              \cup Only(v4.onlink, {Add("host4", v4.gateway)})
              \cup {Add(DefaultKind4(v4), v4.gateway)})

Wanted6(v6) ==
    {Ra(v6)} \cup Only(v6.dhcp, {Add("dhcp6", None)})
    \cup AddEach("address6", ToSet(v6.static))
    \cup Only(v6.gateway # None,
              Only(Recursive(v6), {Add("host6", v6.gateway)})
              \cup {Add(DefaultKind6(v6), v6.gateway)})

Wanted(p) == Wanted4(p.v4) \cup Wanted6(p.v6) \cup {Dns(p)}

Cleared == {Clear(what) : what \in Clears}

\* The removals are eight, each of its own.
LEMMA ListsRemovals == (\A once : Lists(Removals, Cleared, once)) /\ Len(Removals) = 8
<1>1. \A what \in Clears : Clear(what) \in Command /\ Clear(what).kind = what
  BY DEF Clear, Command, Ats, Clears
<1>2. /\ Removals \in Seq(Command) /\ Len(Removals) = 8
      /\ Removals[1] = Clear("dhcp4") /\ Removals[2] = Clear("address4")
      /\ Removals[3] = Clear("own4") /\ Removals[4] = Clear("default4")
      /\ Removals[5] = Clear("dhcp6") /\ Removals[6] = Clear("address6")
      /\ Removals[7] = Clear("own6") /\ Removals[8] = Clear("default6")
  BY <1>1 DEF Removals, Clears
<1>3. DOMAIN Removals = {1, 2, 3, 4, 5, 6, 7, 8}
  BY <1>2, LenProperties
<1>4. \A i, j \in {1, 2, 3, 4, 5, 6, 7, 8} : Removals[i].kind = Removals[j].kind => i = j
  BY <1>1, <1>2 DEF Clears
<1>5. ToSet(Removals) = Cleared
  <2>1. ToSet(Removals) = {Removals[i] : i \in {1, 2, 3, 4, 5, 6, 7, 8}}
    BY <1>3 DEF ToSet
  <2>2. ToSet(Removals) = {Clear("dhcp4"), Clear("address4"), Clear("own4"), Clear("default4"),
                           Clear("dhcp6"), Clear("address6"), Clear("own6"), Clear("default6")}
    BY <1>2, <2>1
  <2> QED
    BY <2>2 DEF Cleared, Clears
<1> QED
  BY <1>2, <1>3, <1>4, <1>5 DEF Lists, IsInjective

\* The IPv4 commands are what the plan wants, each once if the addresses are.
LEMMA ListsCommands4 ==
    ASSUME NEW v4 \in Plan4, NEW once, once => v4.mode # "static" \/ IsInjective(v4.static)
    PROVE  Lists(Commands4(v4), Wanted4(v4), once)
<1>1. CASE v4.mode = "dhcp"
  <2>1. Add("dhcp4", None) \in Command
    BY DEF Add, Command, AddKinds, Ats
  <2> QED
    BY <1>1, <2>1, ListsOne DEF Commands4, Wanted4, Only
<1>2. CASE v4.mode = "static"
  <2> DEFINE toHost  == Add("host4", v4.gateway)
             default == Add(DefaultKind4(v4), v4.gateway)
             As      == AddEach("address4", ToSet(v4.static))
  <2>1. toHost \in Command /\ default \in Command /\ toHost # default
    BY DEF Add, Command, AddKinds, Ats, Plan4, DefaultKind4
  <2>2. \A a : Add("address4", a) # toHost /\ Add("address4", a) # default
    BY DEF Add, DefaultKind4
  <2>3. Lists(AddAll("address4", v4.static), As, once)
    <3>1. v4.static \in Seq(Ats)
      <4>1. v4.static \in Seq(Addresses4)
        BY DEF Plan4
      <4> QED
        BY <4>1 DEF Ats
    <3> QED
      BY <1>2, <3>1, ListsAll DEF AddKinds, AddEach
  <2>4. Lists(When(v4.onlink, <<toHost>>), Only(v4.onlink, {toHost}), once)
    BY <2>1, ListsOne, ListsWhen DEF Only
  <2>5. Lists(<<default>>, {default}, once)
    BY <2>1, ListsOne
  <2>6. Lists(AddAll("address4", v4.static) \o When(v4.onlink, <<toHost>>), As \cup Only(v4.onlink, {toHost}),
              once)
    <3>1. As \cap Only(v4.onlink, {toHost}) = {}
      BY <2>2 DEF AddEach, Only
    <3> QED
      BY <2>3, <2>4, <3>1, ListsJoined, Zenon
  <2>7. (As \cup Only(v4.onlink, {toHost})) \cap {default} = {}
    BY <2>1, <2>2 DEF AddEach, Only
  <2>8. Lists(AddAll("address4", v4.static) \o When(v4.onlink, <<toHost>>) \o <<default>>,
              As \cup Only(v4.onlink, {toHost}) \cup {default}, once)
    BY <2>5, <2>6, <2>7, ListsJoined
  <2>9. /\ Commands4(v4) = AddAll("address4", v4.static) \o When(v4.onlink, <<toHost>>) \o <<default>>
        /\ Wanted4(v4) = As \cup Only(v4.onlink, {toHost}) \cup {default}
    BY <1>2 DEF Commands4, Wanted4, DefaultKind4, Only
  <2> QED
    BY <2>8, <2>9
<1>3. CASE v4.mode = "none"
  BY <1>3, ListsNothing DEF Commands4, Wanted4, Only
<1> QED
  BY <1>1, <1>2, <1>3 DEF Plan4

\* The IPv6 commands are what the plan wants, each once if the addresses are.
LEMMA ListsCommands6 ==
    ASSUME NEW v6 \in Plan6, NEW once, once => IsInjective(v6.static)
    PROVE  Lists(Commands6(v6), Wanted6(v6), once)
<1> DEFINE toHost  == Add("host6", v6.gateway)
           default == Add(DefaultKind6(v6), v6.gateway)
           client  == Add("dhcp6", None)
           As      == AddEach("address6", ToSet(v6.static))
           s1      == <<Ra(v6)>>
           s2      == When(v6.dhcp, <<client>>)
           s3      == AddAll("address6", v6.static)
           hosts   == When(Recursive(v6), <<toHost>>)
           s4      == When(v6.gateway # None, hosts \o <<default>>)
           W2      == Only(v6.dhcp, {client})
           hosted  == Only(Recursive(v6), {toHost})
           W4      == Only(v6.gateway # None, hosted \cup {default})
<1>1. /\ Ra(v6) \in Command /\ toHost \in Command /\ default \in Command /\ client \in Command
      /\ toHost # default
  <2>1. Ra(v6) \in Command
    <3>1. {"yes"} \in Ats /\ {"no"} \in Ats
      BY DEF Ats
    <3>2. (IF v6.slaac THEN {"yes"} ELSE {"no"}) \in Ats
      BY <3>1
    <3> QED
      BY <3>2 DEF Ra, Command
  <2>2. v6.gateway \in Ats /\ None \in Ats
    BY DEF Plan6, Ats
  <2>3. DefaultKind6(v6) \in AddKinds \ {"host6"}
    BY DEF DefaultKind6, AddKinds
  <2> QED
    BY <2>1, <2>2, <2>3 DEF Add, Command, AddKinds
<1>2. /\ \A a : Add("address6", a) \notin {toHost, default, client, Ra(v6)}
      /\ client \notin {toHost, default, Ra(v6)}
      /\ Ra(v6) \notin {toHost, default}
  BY DEF Add, Ra, DefaultKind6
<1>3. Lists(s1, {Ra(v6)}, once)
  BY <1>1, ListsOne
<1>4. Lists(s2, W2, once)
  BY <1>1, ListsOne, ListsWhen DEF Only
<1>5. Lists(s3, As, once)
  <2>1. v6.static \in Seq(Ats)
    <3>1. v6.static \in Seq(Addresses6)
      BY DEF Plan6
    <3> QED
      BY <3>1 DEF Ats
  <2> QED
    BY <2>1, ListsAll DEF AddKinds, AddEach
<1>6. Lists(s4, W4, once)
  <2>1. Lists(hosts, hosted, once)
    BY <1>1, ListsOne, ListsWhen DEF Only
  <2>2. Lists(<<default>>, {default}, once)
    BY <1>1, ListsOne
  <2>3. hosted \cap {default} = {}
    BY <1>1 DEF Only
  <2>4. Lists(hosts \o <<default>>, hosted \cup {default}, once)
    BY <2>1, <2>2, <2>3, ListsJoined
  <2> QED
    BY <2>4, ListsWhen DEF Only
<1>7. Lists(s1 \o s2, {Ra(v6)} \cup W2, once)
  <2>1. {Ra(v6)} \cap W2 = {}
    BY <1>2 DEF Only
  <2> QED
    BY <1>3, <1>4, <2>1, ListsJoined
<1>8. Lists(s1 \o s2 \o s3, {Ra(v6)} \cup W2 \cup As, once)
  <2>1. ({Ra(v6)} \cup W2) \cap As = {}
    BY <1>2 DEF Only, AddEach
  <2> QED
    BY <1>5, <1>7, <2>1, ListsJoined
<1>9. Lists(s1 \o s2 \o s3 \o s4, {Ra(v6)} \cup W2 \cup As \cup W4, once)
  <2>1. ({Ra(v6)} \cup W2 \cup As) \cap W4 = {}
    BY <1>2 DEF Only, AddEach
  <2> QED
    BY <1>6, <1>8, <2>1, ListsJoined
<1>10. Commands6(v6) = s1 \o s2 \o s3 \o s4
  BY DEF Commands6, SetTo, Ra, DefaultKind6
<1>11. Wanted6(v6) = {Ra(v6)} \cup W2 \cup As \cup W4
  BY DEF Wanted6
<1> QED
  BY <1>9, <1>10, <1>11

\* Nothing is added or set that no plan asks for.
LEMMA WantedKinds ==
    ASSUME NEW p, NEW c \in Wanted(p)
    PROVE  \/ c.op = "add" /\ c.kind \in AddKinds
           \/ c.op = "set" /\ c = Ra(p.v6) /\ c.kind = "ra"
           \/ c.op = "set" /\ c = Dns(p) /\ c.kind = "dns"
BY DEF Wanted, Wanted4, Wanted6, Only, AddEach, Add, Ra, Dns, AddKinds, DefaultKind4, DefaultKind6

\* The script is the removals and then what the plan asks for, once each unless
\* it repeats an address.
LEMMA ScriptLists ==
    ASSUME NEW p \in Plan
    PROVE  /\ Lists(RouterOSScript(p), Cleared \cup Wanted(p), ~Repeats(p))
           /\ Len(RouterOSScript(p)) \in Nat
           /\ \A i \in DOMAIN RouterOSScript(p) : RouterOSScript(p)[i] \in Cleared <=> i <= 8
           /\ DOMAIN RouterOSScript(p) = 1 .. Len(RouterOSScript(p))
<1> DEFINE a == Removals
           b == Commands4(p.v4)
           c == Commands6(p.v6)
           d == SetTo("dns", p.dns)
           s == RouterOSScript(p)
           once == ~Repeats(p)
<1>1. Lists(a, Cleared, once) /\ Len(a) = 8
  BY ListsRemovals
<1>2. Lists(b, Wanted4(p.v4), once) /\ Lists(c, Wanted6(p.v6), once)
  BY ListsCommands4, ListsCommands6 DEF Plan, Repeats
<1>3. Lists(d, {Dns(p)}, once)
  <2>1. Dns(p) \in Command
    BY DEF Dns, Command, Plan, Ats
  <2> QED
    BY <2>1, ListsOne DEF SetTo, Dns
<1>4. /\ Cleared \cap Wanted4(p.v4) = {}
      /\ (Cleared \cup Wanted4(p.v4)) \cap Wanted6(p.v6) = {}
      /\ (Cleared \cup Wanted4(p.v4) \cup Wanted6(p.v6)) \cap {Dns(p)} = {}
  <2>1. \A w \in Cleared : w.op = "remove"
    BY DEF Cleared, Clear
  <2>2. \A w \in Wanted4(p.v4) :
          w.op = "add" /\ w.kind \in {"dhcp4", "address4", "host4", "recursive4", "default4"}
    BY DEF Wanted4, Only, AddEach, Add, DefaultKind4
  <2>3. \A w \in Wanted6(p.v6) :
          /\ w.op \in {"add", "set"}
          /\ w.kind \in {"ra", "dhcp6", "address6", "host6", "recursive6", "default6", "scoped6"}
    BY DEF Wanted6, Only, AddEach, Add, Ra, DefaultKind6
  <2>4. Dns(p).op = "set" /\ Dns(p).kind = "dns"
    BY DEF Dns
  <2> QED
    BY <2>1, <2>2, <2>3, <2>4
<1>5. Lists(a \o b, Cleared \cup Wanted4(p.v4), once)
      /\ Len(a \o b) = Len(a) + Len(b) /\ \A i \in 1 .. Len(a) : (a \o b)[i] = a[i]
  <2>1. Lists(a, Cleared, once) /\ Lists(b, Wanted4(p.v4), once) /\ Cleared \cap Wanted4(p.v4) = {}
    BY <1>1, <1>2, <1>4
  <2> HIDE DEF a, b, once
  <2> QED
    BY <2>1, ListsJoined
<1>6. Lists(a \o b \o c, Cleared \cup Wanted4(p.v4) \cup Wanted6(p.v6), once)
      /\ Len(a \o b \o c) = Len(a \o b) + Len(c)
      /\ \A i \in 1 .. Len(a \o b) : (a \o b \o c)[i] = (a \o b)[i]
  BY <1>2, <1>4, <1>5, ListsJoined
<1>7. Lists(s, Cleared \cup Wanted4(p.v4) \cup Wanted6(p.v6) \cup {Dns(p)}, once)
      /\ Len(s) = Len(a \o b \o c) + Len(d)
      /\ \A i \in 1 .. Len(a \o b \o c) : s[i] = (a \o b \o c)[i]
  BY <1>3, <1>4, <1>6, ListsJoined DEF RouterOSScript
<1>8. Lists(s, Cleared \cup Wanted(p), once)
  BY <1>7 DEF Wanted
<1>9. /\ Len(b) \in Nat /\ Len(c) \in Nat /\ Len(d) \in Nat /\ Len(s) \in Nat
      /\ DOMAIN s = 1 .. Len(s) /\ DOMAIN a = 1 .. 8
  BY <1>1, <1>2, <1>3, <1>8, LenProperties DEF Lists
<1>10. 8 <= Len(s) /\ \A i \in 1 .. 8 : s[i] = a[i]
  <2>1. /\ Len(a \o b) \in Nat /\ Len(a) <= Len(a \o b)
        /\ Len(a \o b \o c) \in Nat /\ Len(a \o b) <= Len(a \o b \o c)
        /\ Len(a \o b \o c) <= Len(s)
    BY <1>1, <1>5, <1>6, <1>7, <1>9
  <2>2. \A i \in 1 .. 8 : i \in 1 .. Len(a) /\ i \in 1 .. Len(a \o b) /\ i \in 1 .. Len(a \o b \o c)
    BY <1>1, <2>1
  <2> QED
    BY <1>1, <1>5, <1>6, <1>7, <1>9, <2>1, <2>2
<1>11. Cleared = {a[i] : i \in 1 .. 8}
  BY <1>1, <1>9 DEF Lists, ToSet
<1>12. \A i \in DOMAIN s : s[i] \in Cleared <=> i <= 8
  <2>1. \A i \in DOMAIN s : i <= 8 => s[i] \in Cleared
    BY <1>9, <1>10, <1>11
  <2>2. ASSUME NEW i \in DOMAIN s, i > 8 PROVE s[i] \notin Cleared
    <3> DEFINE m == Len(a \o b)
               n == Len(a \o b \o c)
    <3>1. /\ m \in Nat /\ n \in Nat /\ m <= n /\ i \in Nat
          /\ DOMAIN (a \o b) = 1 .. m /\ DOMAIN (a \o b \o c) = 1 .. n
      BY <1>1, <1>5, <1>6, <1>9, LenProperties DEF Lists
    <3>2. Cleared \cap {Dns(p)} = {} /\ Cleared \cap Wanted6(p.v6) = {}
      BY <1>4
    <3>3. CASE i > n
      <4>1. s[i] \in {Dns(p)}
        BY <1>3, <1>6, <1>9, <3>3, ListsTail DEF RouterOSScript
      <4> QED
        BY <3>2, <4>1
    <3>4. CASE i <= n /\ i > m
      <4>1. i \in 1 .. n /\ s[i] = (a \o b \o c)[i]
        BY <1>7, <1>9, <3>1, <3>4
      <4>2. (a \o b \o c)[i] \in Wanted6(p.v6)
        BY <1>2, <1>5, <3>4, <4>1, ListsTail
      <4> QED
        BY <3>2, <4>1, <4>2
    <3>5. CASE i <= m
      <4>1. i \in 1 .. m /\ i \in 1 .. n
        BY <1>9, <3>1, <3>5
      <4>2. s[i] = (a \o b \o c)[i] /\ (a \o b \o c)[i] = (a \o b)[i]
        BY <1>6, <1>7, <4>1
      <4>3. i > Len(a)
        BY <1>1, <2>2
      <4>4. (a \o b)[i] \in Wanted4(p.v4)
        BY <1>1, <1>2, <4>1, <4>3, ListsTail
      <4> QED
        BY <1>4, <4>2, <4>4
    <3> QED
      BY <3>1, <3>3, <3>4, <3>5
  <2> QED
    BY <1>9, <2>1, <2>2
<1> QED
  BY <1>8, <1>9, <1>12

-----------------------------------------------------------------------------
(* The script runs, is cut short and runs again.                           *)

\* The commands that have taken effect since the script was started.
Ran == {RouterOSScript(plan)[i] : i \in {j \in DOMAIN RouterOSScript(plan) : j < pc}}

\* What a removal finds after it has run was added after it.
Cleaned ==
    \A c \in Ran, e \in config :
        c.op = "remove" /\ Found(c.kind, e) => \E d \in Ran : d.op = "add" /\ e = Added(d.kind, d.at)
AddsThere == \A c \in Ran : c.op = "add" => Added(c.kind, c.at) \in config
SetsThere == \A c \in Ran : c.op = "set" => {e.at : e \in {f \in config : f.kind = c.kind}} = c.at
OwnHosts  == \A e \in config : e.kind \in {"host4", "host6"} => e.own

Running == Cleaned /\ AddsThere /\ SetsThere /\ OwnHosts

Scripted ==
    /\ pc \in Nat /\ (pc > 0 => step = "installed")
    /\ failed => step = "installed" /\ Repeats(plan)
    /\ Running

\* Whatever is added is found by a removal, and what is set by none.
LEMMA AddedFound ==
    ASSUME NEW kind \in AddKinds, NEW at
    PROVE  \E c \in Cleared : Found(c.kind, Added(kind, at))
<1>1. \A what \in Clears : Clear(what) \in Cleared /\ Clear(what).kind = what
  BY DEF Cleared, Clear
<1>2. \E what \in Clears : Found(what, Added(kind, at))
  <2>1. Added(kind, at).own /\ Added(kind, at).kind = kind /\ Added(kind, at).nic = uplink
    BY DEF Added
  <2>2. CASE kind \in {"dhcp4", "address4", "dhcp6", "address6"}
    BY <2>1, <2>2 DEF Found, Clears
  <2>3. CASE kind \in {"host4", "recursive4", "default4"}
    BY <2>1, <2>3 DEF Found, Clears, Default4
  <2>4. CASE kind \in {"host6", "recursive6", "default6", "scoped6"}
    BY <2>1, <2>4 DEF Found, Clears, Default6
  <2> QED
    BY <2>2, <2>3, <2>4 DEF AddKinds
<1> QED
  BY <1>1, <1>2

\* No removal takes away a setting.
LEMMA SetNotFound ==
    ASSUME NEW c \in Cleared, NEW e, e.kind \in {"ra", "dns"}
    PROVE  ~Found(c.kind, e)
<1>1. c.kind \in Clears
  BY DEF Cleared, Clear
<1> QED
  BY <1>1 DEF Found, Clears, Default4, Default6

\* A step of the script: the next command has not run yet, unless the plan repeats
\* an address, and the removals run before everything else.
LEMMA NextCommand ==
    ASSUME plan \in Plan, pc \in 1 .. Len(RouterOSScript(plan)), pc' = pc + 1, plan' = plan
    PROVE  LET c == RouterOSScript(plan)[pc]
           IN  /\ c \in Cleared \cup Wanted(plan)
               /\ c \notin Ran \/ Repeats(plan)
               /\ Ran' = Ran \cup {c}
               /\ Ran \subseteq Cleared \cup Wanted(plan)
               /\ c \in Cleared => Ran \subseteq Cleared
               /\ c \notin Cleared => Cleared \subseteq Ran
<1> DEFINE s == RouterOSScript(plan)
           c == s[pc]
<1>1. /\ Repeats(plan) \/ IsInjective(s)
      /\ ToSet(s) = Cleared \cup Wanted(plan)
      /\ Len(s) \in Nat
      /\ \A i \in DOMAIN s : s[i] \in Cleared <=> i <= 8
      /\ DOMAIN s = 1 .. Len(s)
  BY ScriptLists DEF Lists
<1>2. pc \in DOMAIN s /\ pc \in Nat
  BY <1>1
<1>3. ToSet(s) = {s[i] : i \in DOMAIN s}
  BY DEF ToSet
<1>4. Ran = {s[i] : i \in {j \in DOMAIN s : j < pc}}
  BY DEF Ran
<1>5. Ran' = {s[i] : i \in {j \in DOMAIN s : j < pc + 1}}
  BY DEF Ran
<1>6. \A i \in DOMAIN s : i \in Nat
  BY <1>1
<1>7. c \notin Ran \/ Repeats(plan)
  BY <1>1, <1>2, <1>4, <1>6 DEF IsInjective
<1>8. Ran' = Ran \cup {c}
  <2>1. \A j \in DOMAIN s : j < pc + 1 <=> j < pc \/ j = pc
    BY <1>2, <1>6
  <2> QED
    BY <1>2, <1>4, <1>5, <2>1
<1>9. Ran \subseteq Cleared \cup Wanted(plan)
  BY <1>1, <1>3, <1>4
<1>10. ASSUME c \in Cleared PROVE Ran \subseteq Cleared
  <2>1. pc <= 8
    BY <1>1, <1>2, <1>10
  <2>2. \A j \in DOMAIN s : j < pc => j <= 8
    BY <1>2, <1>6, <2>1
  <2> QED
    BY <1>1, <1>4, <2>2
<1>11. ASSUME c \notin Cleared PROVE Cleared \subseteq Ran
  <2>1. ~(pc <= 8)
    BY <1>1, <1>2, <1>11
  <2>2. \A j \in DOMAIN s : j <= 8 => j < pc
    BY <1>2, <1>6, <2>1
  <2>3. ASSUME NEW d \in Cleared PROVE d \in Ran
    <3>1. PICK j \in DOMAIN s : d = s[j]
      BY <1>1, <1>3
    <3> QED
      BY <1>1, <1>4, <2>2, <3>1
  <2> QED
    BY <2>3
<1> QED
  BY <1>1, <1>2, <1>3, <1>7, <1>8, <1>9, <1>10, <1>11

\* No command fails without a repetition in the plan, because what it adds would
\* have been removed before; and one that fails changes nothing.
LEMMA RunKeeps ==
    ASSUME plan \in Plan, Scripted, RunCommand
    PROVE  (failed' => Repeats(plan)) /\ Running'
<1> DEFINE c == RouterOSScript(plan)[pc]
<1>1. /\ c \in Cleared \cup Wanted(plan)
      /\ c \notin Ran \/ Repeats(plan)
      /\ Ran' = Ran \cup {c}
      /\ Ran \subseteq Cleared \cup Wanted(plan)
      /\ c \in Cleared => Ran \subseteq Cleared
      /\ c \notin Cleared => Cleared \subseteq Ran
  BY NextCommand DEF RunCommand
<1>2. UNCHANGED uplink
  BY DEF RunCommand
<1>3. \A what, e : Found(what, e)' <=> Found(what, e)
  BY <1>2 DEF Found
<1>4. \A kind, at : Added(kind, at)' = Added(kind, at)
  BY <1>2 DEF Added
<1>5. \A d \in Cleared : d.op = "remove"
  BY DEF Cleared, Clear
<1>6. Execute(c) /\ ~failed
  BY DEF RunCommand
<1> USE DEF Scripted, Running
<1>7. CASE c \in Cleared
  <2>1. config' = {e \in config : ~Found(c.kind, e)} /\ failed' = failed
    BY <1>5, <1>6, <1>7 DEF Execute
  <2>2. \A d \in Ran' : d \in Cleared /\ d.op = "remove"
    BY <1>1, <1>5, <1>7
  <2>3. Cleaned'
    BY <1>1, <1>3, <1>4, <1>5, <1>7, <2>1, <2>2 DEF Cleaned
  <2>4. AddsThere' /\ SetsThere'
    BY <2>2 DEF AddsThere, SetsThere
  <2>5. OwnHosts'
    BY <2>1 DEF OwnHosts
  <2> QED
    BY <1>6, <2>1, <2>3, <2>4, <2>5
<1>8. CASE c \in Wanted(plan) /\ c.op = "add"
  <2> DEFINE new == Added(c.kind, c.at)
  <2>1. config' = config \cup {new} /\ failed' = (new \in config)
    BY <1>6, <1>8 DEF Execute
  <2>2. c.kind \in AddKinds /\ c \notin Cleared
    BY <1>5, <1>8, WantedKinds
  <2>3. \A d \in Wanted(plan) : d.op = "add" /\ new = Added(d.kind, d.at) => d = c
    <3>1. \A d \in Wanted(plan) : d.op = "add" => d = Add(d.kind, d.at)
      BY DEF Wanted, Wanted4, Wanted6, Only, AddEach, Add, Ra, Dns
    <3>2. \A d : new = Added(d.kind, d.at) => d.kind = c.kind /\ d.at = c.at
      BY DEF Added
    <3> QED
      BY <1>8, <3>1, <3>2
  <2>4. new \in config => Repeats(plan)
    <3> SUFFICES ASSUME new \in config PROVE c \in Ran
      BY <1>1
    <3>1. PICK r \in Cleared : Found(r.kind, new)
      BY <2>2, AddedFound
    <3>2. PICK d \in Ran : d.op = "add" /\ new = Added(d.kind, d.at)
      BY <1>1, <1>5, <2>2, <3>1 DEF Cleaned
    <3> QED
      BY <1>1, <1>5, <2>3, <3>2
  <2>5. Cleaned'
    <3> SUFFICES ASSUME NEW r \in Ran', NEW e \in config', r.op = "remove", Found(r.kind, e)
                 PROVE  \E d \in Ran' : d.op = "add" /\ e = Added(d.kind, d.at)
      BY <1>3, <1>4 DEF Cleaned
    <3>1. CASE e = new
      BY <1>1, <1>8, <3>1
    <3>2. CASE e \in config
      BY <1>1, <1>8, <3>2 DEF Cleaned
    <3> QED
      BY <2>1, <3>1, <3>2
  <2>6. AddsThere'
    BY <1>1, <1>4, <2>1 DEF AddsThere
  <2>7. SetsThere'
    <3> SUFFICES ASSUME NEW d \in Ran', d.op = "set"
                 PROVE  {f \in config' : f.kind = d.kind} = {f \in config : f.kind = d.kind} /\ d \in Ran
      BY DEF SetsThere
    <3>1. d \in Ran
      BY <1>1, <1>8
    <3>2. d.kind \in {"ra", "dns"}
      BY <1>1, <1>5, <3>1, WantedKinds
    <3>3. new.kind = c.kind /\ c.kind # d.kind
      BY <2>2, <3>2 DEF Added, AddKinds
    <3> QED
      BY <2>1, <3>1, <3>3
  <2>8. OwnHosts'
    <3>1. new.own
      BY DEF Added
    <3> QED
      BY <2>1, <3>1 DEF OwnHosts
  <2> QED
    BY <2>1, <2>4, <2>5, <2>6, <2>7, <2>8
<1>9. CASE c \in Wanted(plan) /\ c.op = "set"
  <2> DEFINE put(v) == [kind |-> c.kind, nic |-> None, at |-> v, own |-> FALSE]
  <2>1. /\ config' = {e \in config : e.kind # c.kind} \cup {put(v) : v \in c.at}
        /\ failed' = failed
    BY <1>6, <1>9 DEF Execute
  <2>2. c.kind \in {"ra", "dns"} /\ c \notin Cleared
    BY <1>5, <1>9, WantedKinds
  <2>3. \A v : put(v).kind = c.kind /\ put(v).at = v
    OBVIOUS
  <2>4. Cleaned'
    <3> SUFFICES ASSUME NEW r \in Ran', NEW e \in config', r.op = "remove", Found(r.kind, e)
                 PROVE  \E d \in Ran' : d.op = "add" /\ e = Added(d.kind, d.at)
      BY <1>3, <1>4 DEF Cleaned
    <3>1. r \in Ran /\ r \in Cleared
      <4>1. r \in Ran
        BY <1>1, <1>9
      <4> QED
        BY <1>1, <4>1, WantedKinds
    <3>2. e \in config
      BY <2>1, <2>2, <2>3, <3>1, SetNotFound
    <3> QED
      BY <1>1, <3>1, <3>2 DEF Cleaned
  <2>5. AddsThere'
    <3> SUFFICES ASSUME NEW d \in Ran', d.op = "add" PROVE Added(d.kind, d.at) \in config'
      BY <1>4 DEF AddsThere
    <3>1. d \in Ran
      BY <1>1, <1>9
    <3>2. d.kind \in AddKinds
      BY <1>1, <1>5, <3>1, WantedKinds
    <3>3. Added(d.kind, d.at).kind # c.kind
      BY <2>2, <3>2 DEF Added, AddKinds
    <3> QED
      BY <2>1, <3>1, <3>3 DEF AddsThere
  <2>6. SetsThere'
    <3> SUFFICES ASSUME NEW d \in Ran', d.op = "set"
                 PROVE  {e.at : e \in {f \in config' : f.kind = d.kind}} = d.at
      BY DEF SetsThere
    <3>1. CASE d = c
      <4>1. {f \in config' : f.kind = c.kind} = {put(v) : v \in c.at}
        BY <2>1, <2>3
      <4>2. \A v \in c.at : v \in {e.at : e \in {put(w) : w \in c.at}}
        BY <2>3
      <4>3. \A e \in {put(w) : w \in c.at} : e.at \in c.at
        BY <2>3
      <4> QED
        BY <3>1, <4>1, <4>2, <4>3
    <3>2. CASE d # c /\ d \in Ran
      <4>1. d.kind # c.kind
        <5>1. d \in Wanted(plan) /\ d \in {Ra(plan.v6), Dns(plan)}
          BY <1>1, <1>5, <3>2, WantedKinds
        <5>2. c \in {Ra(plan.v6), Dns(plan)}
          BY <1>9, WantedKinds
        <5> QED
          BY <3>2, <5>1, <5>2 DEF Ra, Dns
      <4>2. {f \in config' : f.kind = d.kind} = {f \in config : f.kind = d.kind}
        BY <2>1, <2>3, <4>1
      <4> QED
        BY <3>2, <4>2 DEF SetsThere
    <3> QED
      BY <1>1, <3>1, <3>2
  <2>7. OwnHosts'
    BY <2>1, <2>2, <2>3 DEF OwnHosts
  <2> QED
    BY <1>6, <2>1, <2>4, <2>5, <2>6, <2>7
<1> QED
  BY <1>1, <1>7, <1>8, <1>9, WantedKinds

-----------------------------------------------------------------------------
(* Types.                                                                  *)

Typed ==
    /\ host \in HostType
    /\ routes4 \subseteq Route(Gateways4)
    /\ default4 \in Route(Gateways4) \cup {NoRoute}
    /\ default6 \in Route(Gateways6) \cup {NoRoute}
    /\ seen \subseteq Address
    /\ plan \in Plan

\* The types hold initially, ...
LEMMA TypedInit == Init => Typed
<1> SUFFICES ASSUME Init PROVE Typed
  OBVIOUS
<1>1. host \in HostType
  BY HostsAssumption DEF Init
<1>2. plan \in Plan
  BY DEF Init, NoPlan, Plan, Plan4, Plan6
<1> QED
  BY <1>1, <1>2 DEF Init, Typed

\* The plan lists the static addresses of the uplink, each once.
LEMMA StaticListed ==
    /\ SetToSeq(Static4) \in Seq(Addresses4) /\ ToSet(SetToSeq(Static4)) = Static4
    /\ SetToSeq(Static6) \in Seq(Addresses6) /\ ToSet(SetToSeq(Static6)) = Static6
<1>1. Static4 \subseteq Addresses4 /\ Static6 \subseteq Addresses6
  BY DEF Static4, Static6, Named
<1>2. IsFiniteSet(Static4) /\ IsFiniteSet(Static6)
  BY <1>1, AddressesAssumption, FS_Subset
<1>3. /\ SetToSeq(Static4) \in Seq(Static4) /\ ToSet(SetToSeq(Static4)) = Static4
      /\ SetToSeq(Static6) \in Seq(Static6) /\ ToSet(SetToSeq(Static6)) = Static6
  BY <1>2, SetListed
<1> QED
  BY <1>1, <1>3

\* ... in what Detect makes of what it read, ...
LEMMA DetectedTyped ==
    ASSUME Typed, NEW F
    PROVE  Detected4(F) \in Plan4 /\ Detected6(F) \in Plan6
<1>1. /\ default4.gateway \in Gateways4 \cup {None} /\ default4.onlink \in BOOLEAN
      /\ default6.gateway \in Gateways6 \cup {None} /\ default6.onlink \in BOOLEAN
  <2>1. \A G, r : r \in Route(G) => r.gateway \in G \cup {None} /\ r.onlink \in BOOLEAN
    BY DEF Route
  <2>2. NoRoute.gateway = None /\ NoRoute.onlink \in BOOLEAN
    BY DEF NoRoute
  <2> QED
    BY <2>1, <2>2 DEF Typed
<1>2. SetToSeq(Static4) \in Seq(Addresses4) /\ SetToSeq(Static6) \in Seq(Addresses6)
      /\ <<>> \in Seq(Addresses4)
  BY StaticListed
<1>3. \A r, known : r.onlink \in BOOLEAN => OnLink(r, known) \in BOOLEAN
  BY DEF OnLink
<1>4. Detected4(F) \in Plan4
  <2> DEFINE d == Detected4(F)
  <2>1. /\ d.mode \in {"dhcp", "static", "none"} /\ d.static \in Seq(Addresses4)
        /\ d.gateway = default4.gateway /\ d.onlink \in BOOLEAN
    BY <1>1, <1>2, <1>3 DEF Detected4
  <2>2. d = [mode |-> d.mode, static |-> d.static, gateway |-> d.gateway, onlink |-> d.onlink]
    BY DEF Detected4
  <2> QED
    BY <1>1, <2>1, <2>2 DEF Plan4
<1>5. Detected6(F) \in Plan6
  <2> DEFINE d == Detected6(F)
  <2>1. /\ d.slaac \in BOOLEAN /\ d.dhcp \in BOOLEAN /\ d.static \in Seq(Addresses6)
        /\ d.gateway = default6.gateway /\ d.onlink \in BOOLEAN
    BY <1>1, <1>2, <1>3 DEF Detected6, Learned, Leased, Guessed
  <2>2. d = [slaac |-> d.slaac, dhcp |-> d.dhcp, static |-> d.static, gateway |-> d.gateway,
             onlink |-> d.onlink]
    BY DEF Detected6
  <2> QED
    BY <1>1, <2>1, <2>2 DEF Plan6
<1> QED
  BY <1>4, <1>5

\* ... in what the operator's edit leaves, ...
LEMMA SubmittedTyped == ASSUME NEW p \in Plan PROVE Submitted(p) \in Plan
<1>1. p.v6 \in Plan6
  BY DEF Plan
<1>2. [p.v6 EXCEPT !.gateway = None, !.onlink = FALSE] \in Plan6
  BY <1>1 DEF Plan6
<1>3. [p EXCEPT !.v6.gateway = None, !.v6.onlink = FALSE] \in Plan
  BY <1>2 DEF Plan
<1> QED
  BY <1>3 DEF Submitted

\* ... and after every step.
LEMMA TypedNext == ASSUME Typed, [Next]_vars PROVE Typed'
<1> USE DEF reading, probing, grading, session, router
<1>1. CASE ReadRoutes4
  <2>1. routes4' \subseteq Route(Gateways4)
    BY <1>1 DEF ReadRoutes4, Typed, HostType
  <2> QED
    BY <1>1, <2>1 DEF ReadRoutes4, Typed
<1>2. CASE ReadRoutes6
  <2>1. \A routes, r : r \in Selected(routes) => r \in routes \cup {NoRoute}
    BY DEF Selected
  <2>2. CASE UNCHANGED <<default4, default6, plan>>
    BY <1>2, <2>2 DEF ReadRoutes6, Typed
  <2>3. CASE \E r4 \in Selected(routes4), r6 \in Selected(host.routes6) :
               /\ default4' = r4 /\ default6' = r6
               /\ plan' = [plan EXCEPT !.device = IF r4.dev # None THEN r4.dev ELSE r6.dev]
    <3>1. PICK r4 \in Selected(routes4), r6 \in Selected(host.routes6) :
               /\ default4' = r4 /\ default6' = r6
               /\ plan' = [plan EXCEPT !.device = IF r4.dev # None THEN r4.dev ELSE r6.dev]
      BY <2>3
    <3>2. r4 \in Route(Gateways4) \cup {NoRoute}
      BY <2>1 DEF Typed
    <3>3. r6 \in Route(Gateways6) \cup {NoRoute}
      BY <2>1 DEF Typed, HostType
    <3>4. r4.dev \in Devices \cup {None} /\ r6.dev \in Devices \cup {None}
      BY <3>2, <3>3 DEF Route, NoRoute
    <3>5. plan' \in Plan
      BY <3>1, <3>4 DEF Typed, Plan
    <3> QED
      BY <1>2, <3>1, <3>2, <3>3, <3>5 DEF ReadRoutes6, Typed
  <2> QED
    BY <1>2, <2>2, <2>3 DEF ReadRoutes6
<1>3. CASE ReadLink
  <2>1. plan' \in Plan
    BY <1>3 DEF ReadLink, Typed, Plan
  <2> QED
    BY <1>3, <2>1 DEF ReadLink, Typed
<1>4. CASE ReadAddresses
  BY <1>4 DEF ReadAddresses, Typed, HostType
<1>5. CASE Assemble
  <2>1. plan' = [plan EXCEPT !.v4 = Detected4(files'), !.v6 = Detected6(files')]
    BY <1>5 DEF Assemble
  <2>2. Detected4(files') \in Plan4 /\ Detected6(files') \in Plan6
    BY DetectedTyped
  <2>3. plan' \in Plan
    BY <2>1, <2>2 DEF Typed, Plan
  <2> QED
    BY <1>5, <2>3 DEF Assemble, Typed
<1>6. CASE ReadDNS
  <2>1. plan' \in Plan
    BY <1>6 DEF ReadDNS, Typed, Plan, HostType
  <2> QED
    BY <1>6, <2>1 DEF ReadDNS, Typed
<1>7. CASE Review
  <2>1. plan' = plan \/ \E p \in {plan} \cup Edits : plan' = Submitted(p)
    BY <1>7 DEF Review
  <2>2. plan' \in Plan
    BY <2>1, SubmittedTyped, EditsAssumption DEF Typed
  <2> QED
    BY <1>7, <2>2 DEF Review, Typed
<1>8. CASE HostChanges
  BY <1>8, HostsAssumption DEF HostChanges, Typed
<1>9. CASE ReadRules \/ ReadUplinks \/ ProbeEnds \/ Judge \/ Receive \/ ProbeClock \/ ProbeFails
  BY <1>9 DEF ReadRules, ReadUplinks, ProbeEnds, ProbeOver, Judge, Receive, ProbeClock, ProbeFails, Typed
<1>10. CASE Acknowledge \/ Install \/ Cancel \/ RouterOS \/ UNCHANGED vars
  BY <1>10 DEF Acknowledge, Install, Cancel, RouterOS, BeginScript, RunCommand, RunAgain, vars, Typed
<1> QED
  BY <1>1, <1>2, <1>3, <1>4, <1>5, <1>6, <1>7, <1>8, <1>9, <1>10 DEF Next, Detect

-----------------------------------------------------------------------------
(* What RouterOS ends up with.                                             *)

\* Nothing has run before the first boot.
LEMMA ScriptedInit == Init => Scripted
<1> SUFFICES ASSUME Init PROVE Scripted
  OBVIOUS
<1>1. pc = 0 /\ ~failed /\ config \in Factories
  BY DEF Init
<1>2. Ran = {}
  <2>1. DOMAIN RouterOSScript(plan) \subseteq Nat \ {0}
    BY TypedInit, ScriptLists DEF Typed
  <2> QED
    BY <1>1, <2>1 DEF Ran
<1>3. OwnHosts
  BY <1>1, FactoriesAssumption DEF OwnHosts
<1> QED
  BY <1>1, <1>2, <1>3 DEF Scripted, Running, Cleaned, AddsThere, SetsThere

\* Each command leaves what Running says, and a second run begins where the first ended.
LEMMA ScriptedNext == ASSUME Typed, Scripted, [Next]_vars PROVE Scripted'
<1> USE DEF reading, probing, grading, session, router
<1>1. plan' \in Plan
  BY TypedNext DEF Typed
<1>2. ASSUME pc' \in {0, 1}, UNCHANGED config PROVE Running'
  <2>1. Ran' = {}
    <3>1. DOMAIN RouterOSScript(plan') \subseteq Nat \ {0}
      BY <1>1, ScriptLists
    <3> QED
      BY <1>2, <3>1 DEF Ran
  <2>2. OwnHosts'
    BY <1>2 DEF Scripted, Running, OwnHosts
  <2> QED
    BY <2>1, <2>2 DEF Running, Cleaned, AddsThere, SetsThere
<1>3. CASE UNCHANGED <<config, pc, failed>> /\ step # "installed"
  <2>1. pc = 0
    BY <1>3 DEF Scripted
  <2> QED
    BY <1>2, <1>3, <2>1 DEF Scripted
<1>4. CASE RouterOS
  <2>1. CASE BeginScript
    <3>1. pc' = 1 /\ ~failed' /\ UNCHANGED config /\ step' = "installed"
      BY <1>4, <2>1 DEF BeginScript, RouterOS
    <3> QED
      BY <1>2, <3>1 DEF Scripted
  <2>2. CASE RunCommand
    <3>1. (failed' => Repeats(plan)) /\ Running'
      BY <2>2, RunKeeps DEF Typed
    <3>2. pc' \in Nat /\ step' = "installed" /\ plan' = plan
      BY <1>4, <2>2 DEF RunCommand, RouterOS, Scripted
    <3> QED
      BY <3>1, <3>2 DEF Scripted
  <2>3. CASE RunAgain
    <3>1. pc' = 0 /\ UNCHANGED <<step, plan, config, failed>>
      BY <1>4, <2>3 DEF RunAgain, RouterOS
    <3> QED
      BY <1>2, <3>1 DEF Scripted
  <2> QED
    BY <1>4, <2>1, <2>2, <2>3 DEF RouterOS
<1>5. CASE UNCHANGED vars
  BY <1>5 DEF vars, Scripted, Running, Cleaned, AddsThere, SetsThere, OwnHosts, Ran, Found, Added
<1>6. CASE Cancel
  <2>1. step # "installed" /\ UNCHANGED <<config, pc, failed>>
    BY <1>6 DEF Cancel
  <2> QED
    BY <1>3, <2>1
<1>7. CASE Detect \/ Receive \/ ProbeClock \/ ProbeFails
  <2>1. step # "installed" /\ UNCHANGED <<config, pc, failed>>
    BY <1>7 DEF Detect, ReadRoutes4, ReadRoutes6, ReadRules, ReadLink, ReadUplinks, ReadAddresses,
                Assemble, ReadDNS, ProbeEnds, ProbeOver, Judge, Receive, ProbeClock, ProbeFails
  <2> QED
    BY <1>3, <2>1
<1>8. CASE Review \/ Acknowledge \/ Install \/ HostChanges
  <2>1. step # "installed" /\ UNCHANGED <<config, pc, failed>>
    BY <1>8 DEF Review, Acknowledge, Install, HostChanges, Detecting
  <2> QED
    BY <1>3, <2>1
<1> QED
  BY <1>4, <1>5, <1>6, <1>7, <1>8 DEF Next

\* After the last command, what a removal would find is what the plan asks for.
Final ==
    /\ \A e \in config : (\E r \in Cleared : Found(r.kind, e))
                            => \E d \in Wanted(plan) : d.op = "add" /\ e = Added(d.kind, d.at)
    /\ \A d \in Wanted(plan) : d.op = "add" => Added(d.kind, d.at) \in config
    /\ AtOf(Entries({"ra"})) = Ra(plan.v6).at
    /\ AtOf(Entries({"dns"})) = plan.dns
    /\ OwnHosts

\* After its last command the script has left what Final says.
LEMMA AppliedFinal == ASSUME Typed, Scripted, Applied PROVE Final
<1> DEFINE s == RouterOSScript(plan)
<1>1. /\ ToSet(s) = Cleared \cup Wanted(plan)
      /\ Len(s) \in Nat
      /\ DOMAIN s = 1 .. Len(s)
  BY ScriptLists DEF Lists, Typed
<1>2. Ran = Cleared \cup Wanted(plan)
  <2>1. ToSet(s) = {s[i] : i \in DOMAIN s}
    BY DEF ToSet
  <2>2. \A j \in DOMAIN s : j < pc
    BY <1>1 DEF Applied
  <2> QED
    BY <1>1, <2>1, <2>2 DEF Ran
<1>3. \A c \in Cleared : c.op = "remove"
  BY DEF Cleared, Clear
<1>4. /\ Ra(plan.v6) \in Wanted(plan) /\ Ra(plan.v6).op = "set" /\ Ra(plan.v6).kind = "ra"
      /\ Dns(plan) \in Wanted(plan) /\ Dns(plan).op = "set" /\ Dns(plan).kind = "dns"
      /\ Dns(plan).at = plan.dns
  BY DEF Wanted, Wanted6, Ra, Dns
<1>5. \A kind : AtOf(Entries({kind})) = {e.at : e \in {f \in config : f.kind = kind}}
  BY DEF AtOf, Entries
<1>6. AtOf(Entries({"ra"})) = Ra(plan.v6).at /\ AtOf(Entries({"dns"})) = plan.dns
  BY <1>2, <1>4, <1>5 DEF Scripted, Running, SetsThere
<1>7. \A e \in config : (\E r \in Cleared : Found(r.kind, e))
                            => \E d \in Wanted(plan) : d.op = "add" /\ e = Added(d.kind, d.at)
  BY <1>2, <1>3 DEF Scripted, Running, Cleaned
<1>8. \A d \in Wanted(plan) : d.op = "add" => Added(d.kind, d.at) \in config
  BY <1>2 DEF Scripted, Running, AddsThere
<1> QED
  BY <1>6, <1>7, <1>8 DEF Final, Scripted, Running

\* Where a plan asks for an entry of a kind.
Asked(kind) == {d.at : d \in {w \in Wanted(plan) : w.op = "add" /\ w.kind = kind}}

UplinkKinds == {"dhcp4", "address4", "dhcp6", "address6"}

\* In the end RouterOS has the entries that the plan asks for, kind by kind.
LEMMA FinalAsked ==
    ASSUME Final
    PROVE  /\ \A kind \in UplinkKinds : OnUplink(kind) = Asked(kind)
           /\ \A kind \in AddKinds \ UplinkKinds : AtOf(Entries({kind})) = Asked(kind)
<1>1. \A what \in Clears : Clear(what) \in Cleared /\ Clear(what).kind = what
  BY DEF Cleared, Clear
<1>2. \A d : /\ Added(d.kind, d.at).kind = d.kind /\ Added(d.kind, d.at).at = d.at
             /\ Added(d.kind, d.at).nic = uplink
  BY DEF Added
<1>3. ASSUME NEW kind, NEW e \in config, e.kind = kind, \E what \in Clears : Found(what, e)
      PROVE  e.at \in Asked(kind)
  <2>1. PICK d \in Wanted(plan) : d.op = "add" /\ e = Added(d.kind, d.at)
    BY <1>1, <1>3 DEF Final
  <2> QED
    BY <1>2, <1>3, <2>1 DEF Asked
<1>4. ASSUME NEW kind, NEW v \in Asked(kind)
      PROVE  \E e \in config : e.kind = kind /\ e.at = v /\ e.nic = uplink
  <2>1. PICK d \in Wanted(plan) : d.op = "add" /\ d.kind = kind /\ d.at = v
    BY <1>4 DEF Asked
  <2> QED
    BY <1>2, <2>1 DEF Final
<1>5. ASSUME NEW kind \in UplinkKinds PROVE OnUplink(kind) = Asked(kind)
  <2>1. OnUplink(kind) = {e.at : e \in {f \in config : f.kind = kind /\ f.nic = uplink}}
    BY DEF OnUplink, AtOf, Entries
  <2>2. \A e \in config : e.kind = kind /\ e.nic = uplink => Found(kind, e) /\ kind \in Clears
    BY DEF UplinkKinds, Clears, Found
  <2>3. \A e \in config : e.kind = kind /\ e.nic = uplink => e.at \in Asked(kind)
    BY <1>3, <2>2
  <2>4. \A v \in Asked(kind) : \E e \in config : e.kind = kind /\ e.nic = uplink /\ e.at = v
    BY <1>4
  <2> QED
    BY <2>1, <2>3, <2>4
<1>6. ASSUME NEW kind \in AddKinds \ UplinkKinds PROVE AtOf(Entries({kind})) = Asked(kind)
  <2>1. AtOf(Entries({kind})) = {e.at : e \in {f \in config : f.kind = kind}}
    BY DEF AtOf, Entries
  <2>2. ASSUME NEW e \in config, e.kind = kind PROVE \E what \in Clears : Found(what, e)
    <3>1. CASE kind \in {"default4", "recursive4"}
      BY <2>2, <3>1 DEF Found, Default4, Clears
    <3>2. CASE kind \in {"default6", "recursive6", "scoped6"}
      BY <2>2, <3>2 DEF Found, Default6, Clears
    <3>3. CASE kind = "host4"
      BY <2>2, <3>3 DEF Found, Final, OwnHosts, Clears
    <3>4. CASE kind = "host6"
      BY <2>2, <3>4 DEF Found, Final, OwnHosts, Clears
    <3> QED
      BY <3>1, <3>2, <3>3, <3>4 DEF AddKinds, UplinkKinds
  <2>3. \A e \in config : e.kind = kind => e.at \in Asked(kind)
    BY <1>3, <2>2
  <2>4. \A v \in Asked(kind) : \E e \in config : e.kind = kind /\ e.at = v
    BY <1>4
  <2> QED
    BY <2>1, <2>3, <2>4
<1> QED
  BY <1>5, <1>6

\* So each kind of entry is at the addresses that the script asks for.
LEMMA FinalAt ==
    ASSUME Final, NEW kinds, kinds \subseteq AddKinds \ UplinkKinds
    PROVE  \A v : v \in AtOf(Entries(kinds)) <=> \E kind \in kinds : v \in Asked(kind)
<1>1. \A kind \in kinds : AtOf(Entries({kind})) = Asked(kind)
  BY FinalAsked
<1> QED
  BY <1>1 DEF AtOf, Entries

\* What a plan asks for, kind by kind.
LEMMA AskedKinds ==
    ASSUME plan \in Plan
    PROVE  /\ Asked("dhcp4") = IF plan.v4.mode = "dhcp" THEN {None} ELSE {}
           /\ Asked("address4") = IF plan.v4.mode = "static" THEN ToSet(plan.v4.static) ELSE {}
           /\ Asked("host4") = IF plan.v4.mode = "static" /\ plan.v4.onlink THEN {plan.v4.gateway} ELSE {}
           /\ Asked("recursive4") = Asked("host4")
           /\ Asked("default4") =
                 IF plan.v4.mode = "static" /\ ~plan.v4.onlink THEN {plan.v4.gateway} ELSE {}
           /\ Asked("dhcp6") = IF plan.v6.dhcp THEN {None} ELSE {}
           /\ Asked("address6") = ToSet(plan.v6.static)
           /\ Asked("host6") = IF plan.v6.gateway # None /\ Recursive(plan.v6) THEN {plan.v6.gateway} ELSE {}
           /\ Asked("recursive6") = Asked("host6")
           /\ Asked("scoped6") =
                 IF plan.v6.gateway # None /\ plan.v6.gateway \in LinkLocal THEN {plan.v6.gateway} ELSE {}
           /\ Asked("default6") =
                 IF plan.v6.gateway # None /\ ~Recursive(plan.v6) /\ plan.v6.gateway \notin LinkLocal
                 THEN {plan.v6.gateway} ELSE {}
<1> DEFINE v4 == plan.v4
           v6 == plan.v6
<1>1. \A k, l, a, b : Add(k, a) = Add(l, b) <=> k = l /\ a = b
  BY DEF Add
<1>2. \A k, a : Add(k, a) # Ra(v6) /\ Add(k, a) # Dns(plan)
  BY DEF Add, Ra, Dns
<1>3. \A kind, v : v \in Asked(kind) <=> Add(kind, v) \in Wanted(plan)
  <2>1. \A d \in Wanted(plan) : d.op = "add" => d = Add(d.kind, d.at)
    BY DEF Wanted, Wanted4, Wanted6, Only, AddEach, Add, Ra, Dns
  <2>2. \A k, a : Add(k, a).op = "add" /\ Add(k, a).kind = k /\ Add(k, a).at = a
    BY DEF Add
  <2>3. \A kind, v : v \in Asked(kind) => Add(kind, v) \in Wanted(plan)
    BY <2>1 DEF Asked
  <2>4. \A kind, v : Add(kind, v) \in Wanted(plan) => v \in Asked(kind)
    BY <2>2 DEF Asked
  <2> QED
    BY <2>3, <2>4
<1>4. \A k, a : Add(k, a) \in Wanted4(v4) <=>
         \/ v4.mode = "dhcp" /\ k = "dhcp4" /\ a = None
         \/ v4.mode = "static" /\ k = "address4" /\ a \in ToSet(v4.static)
         \/ v4.mode = "static" /\ v4.onlink /\ k = "host4" /\ a = v4.gateway
         \/ v4.mode = "static" /\ k = DefaultKind4(v4) /\ a = v4.gateway
  BY <1>1 DEF Wanted4, Only, AddEach
<1>5. \A k, a : Add(k, a) \in Wanted6(v6) <=>
         \/ v6.dhcp /\ k = "dhcp6" /\ a = None
         \/ k = "address6" /\ a \in ToSet(v6.static)
         \/ v6.gateway # None /\ Recursive(v6) /\ k = "host6" /\ a = v6.gateway
         \/ v6.gateway # None /\ k = DefaultKind6(v6) /\ a = v6.gateway
  BY <1>1, <1>2 DEF Wanted6, Only, AddEach
<1>6. \A k, a : Add(k, a) \in Wanted(plan) <=> Add(k, a) \in Wanted4(v4) \/ Add(k, a) \in Wanted6(v6)
  BY <1>2 DEF Wanted
<1>7. Recursive(v6) => v6.gateway \notin LinkLocal
  BY DEF Recursive
<1>8. \A v : v \in Asked("dhcp4") <=> v4.mode = "dhcp" /\ v = None
  BY <1>3, <1>4, <1>5, <1>6 DEF DefaultKind4, DefaultKind6
<1>9. \A v : v \in Asked("address4") <=> v4.mode = "static" /\ v \in ToSet(v4.static)
  BY <1>3, <1>4, <1>5, <1>6 DEF DefaultKind4, DefaultKind6
<1>10. \A v : v \in Asked("host4") <=> v4.mode = "static" /\ v4.onlink /\ v = v4.gateway
  BY <1>3, <1>4, <1>5, <1>6 DEF DefaultKind4, DefaultKind6
<1>11. \A v : v \in Asked("recursive4") <=> v4.mode = "static" /\ v4.onlink /\ v = v4.gateway
  BY <1>3, <1>4, <1>5, <1>6 DEF DefaultKind4, DefaultKind6
<1>12. \A v : v \in Asked("default4") <=> v4.mode = "static" /\ ~v4.onlink /\ v = v4.gateway
  BY <1>3, <1>4, <1>5, <1>6 DEF DefaultKind4, DefaultKind6
<1>13. \A v : v \in Asked("dhcp6") <=> v6.dhcp /\ v = None
  BY <1>3, <1>4, <1>5, <1>6 DEF DefaultKind4, DefaultKind6
<1>14. \A v : v \in Asked("address6") <=> v \in ToSet(v6.static)
  BY <1>3, <1>4, <1>5, <1>6 DEF DefaultKind4, DefaultKind6
<1>15. \A v : v \in Asked("host6") <=> v6.gateway # None /\ Recursive(v6) /\ v = v6.gateway
  BY <1>3, <1>4, <1>5, <1>6 DEF DefaultKind4, DefaultKind6
<1>16. \A v : v \in Asked("recursive6") <=> v6.gateway # None /\ Recursive(v6) /\ v = v6.gateway
  BY <1>3, <1>4, <1>5, <1>6 DEF DefaultKind4, DefaultKind6
<1>17. \A v : v \in Asked("scoped6") <=>
          v6.gateway # None /\ v6.gateway \in LinkLocal /\ v = v6.gateway
  BY <1>3, <1>4, <1>5, <1>6, <1>7 DEF DefaultKind4, DefaultKind6
<1>18. \A v : v \in Asked("default6") <=>
          /\ v6.gateway # None /\ ~Recursive(v6) /\ v6.gateway \notin LinkLocal
          /\ v = v6.gateway
  BY <1>3, <1>4, <1>5, <1>6 DEF DefaultKind4, DefaultKind6
<1> QED
  BY <1>8, <1>9, <1>10, <1>11, <1>12, <1>13, <1>14, <1>15, <1>16, <1>17, <1>18

\* What is left is then the plan and no more, however often the script ran.
LEMMA FinalIdempotent == ASSUME plan \in Plan, Final, failed => Repeats(plan) PROVE Idempotent
<1> DEFINE v4 == plan.v4
           v6 == plan.v6
<1>1. v4.mode \in {"dhcp", "static", "none"} /\ v6.dhcp \in BOOLEAN /\ v4.onlink \in BOOLEAN
  BY DEF Plan, Plan4, Plan6
<1>2. \A kind \in UplinkKinds : OnUplink(kind) = Asked(kind)
  BY FinalAsked
<1>3. /\ OnUplink("address4") = IF v4.mode = "static" THEN ToSet(v4.static) ELSE {}
      /\ OnUplink("address6") = ToSet(v6.static)
      /\ OnUplink("dhcp4") = IF v4.mode = "dhcp" THEN {None} ELSE {}
      /\ OnUplink("dhcp6") = IF v6.dhcp THEN {None} ELSE {}
  BY <1>2, AskedKinds DEF UplinkKinds
<1>4. /\ AtOf(Entries(Default4)) = Asked("default4") \cup Asked("recursive4")
      /\ AtOf(Entries({"host4", "host6"})) = Asked("host4") \cup Asked("host6")
      /\ AtOf(Entries(Default6)) = Asked("default6") \cup Asked("recursive6") \cup Asked("scoped6")
  <2>1. Default4 \cup Default6 \cup {"host4", "host6"} \subseteq AddKinds \ UplinkKinds
    BY DEF AddKinds, UplinkKinds, Default4, Default6
  <2>2. \A kinds : kinds \subseteq AddKinds \ UplinkKinds =>
          \A v : v \in AtOf(Entries(kinds)) <=> \E kind \in kinds : v \in Asked(kind)
    BY FinalAt
  <2> QED
    BY <2>1, <2>2 DEF Default4, Default6
<1>5. AtOf(Entries(Default4)) = IF v4.mode = "static" THEN {v4.gateway} ELSE {}
  BY <1>1, <1>4, AskedKinds
<1>6. AtOf(Entries(Default6)) = {v6.gateway} \ {None}
  BY <1>4, AskedKinds DEF Recursive
<1>7. AtOf(Entries({"host4", "host6"})) \subseteq {v4.gateway, v6.gateway}
  BY <1>4, AskedKinds
<1> QED
  BY <1>1, <1>3, <1>5, <1>6, <1>7 DEF Idempotent, Final

\* All of this holds in every reachable state.
LEMMA AlwaysScripted == Spec => [](Typed /\ Scripted)
<1>1. Init => Typed /\ Scripted
  BY TypedInit, ScriptedInit
<1>2. Typed /\ Scripted /\ [Next]_vars => (Typed /\ Scripted)'
  BY TypedNext, ScriptedNext
<1> QED
  BY <1>1, <1>2, PTL DEF Spec

\* RouterOSScript: however often the power was cut and the script ran before, and
\* whatever RouterOS came with, no command fails unless the plan itself repeats an
\* address, and after the last one the uplink has exactly what the plan says.
THEOREM ScriptIsIdempotent == Spec => []Idempotent
<1>1. Typed /\ Scripted => Idempotent
  <2> SUFFICES ASSUME Typed, Scripted PROVE Idempotent
    OBVIOUS
  <2>1. CASE Applied
    BY <2>1, AppliedFinal, FinalIdempotent DEF Typed, Scripted
  <2>2. CASE ~Applied
    BY <2>2 DEF Scripted, Idempotent
  <2> QED
    BY <2>1, <2>2
<1> QED
  BY <1>1, AlwaysScripted, PTL

-----------------------------------------------------------------------------
(* What the plan says about the addresses and routes that Detect saw.      *)

Judged  == {"review", "acknowledge", "prepare", "installed"}
Probed  == {"probe", "judge"} \cup Judged
Planned == {"dns"} \cup Probed
Looked  == {"files"} \cup Planned
Counted == {"addresses"} \cup Looked
Ruled   == {"link", "uplinks"} \cup Counted
Routed  == {"rules"} \cup Ruled

\* The plan is what Detect made of what it saw, but for the gateway that the form
\* drops when there is no IPv6.
PlanSeen ==
    /\ plan.v4 = Detected4(files)
    /\ \/ plan.v6 = Detected6(files)
       \/ /\ plan.v6 = [Detected6(files) EXCEPT !.gateway = None, !.onlink = FALSE]
          /\ Static6 \cup Dynamic6 = {}

Derived ==
    /\ step \in Planned => (~edited => PlanSeen) /\ (~blocked => ~Mixed4)
    /\ step \in Judged => ~blocked /\ Valid(plan)
    /\ step \in Detecting \cup {"review"} => ~edited

\* While the host stays as it is and nothing blocks, what Detect has asked so far
\* is in the plan, or can be left out of it.
RoutesFit ==
    /\ default4 \in Selected(host.routes4) /\ default6 \in Selected(host.routes6)
    /\ ~Ambiguous(host.routes4, default4) /\ ~Ambiguous(host.routes6, default6)
    /\ ~Untranslated(host.routes4, default4, plan.device, {"kernel"})
    /\ ~Untranslated(host.routes6, default6, plan.device, {"kernel", "ra"})

UplinkFits == \A a \in host.addresses : Physical(a.dev) => a.dev = plan.device

Clean == ~changed /\ ~blocked /\ ~edited

Grounded ==
    /\ ~changed /\ step = "routes6" => routes4 = host.routes4
    /\ Clean =>
        /\ step \in Routed  => RoutesFit
        /\ step \in Ruled   => ~host.rules
        /\ step \in Counted => UplinkFits
        /\ step \in Looked  => seen = {a \in host.addresses : a.dev = plan.device}
        /\ step \in Probed  => plan.dns = host.dns

\* There is no plan before Detect.
LEMMA DerivedInit == Init => Derived
BY DEF Init, Derived, Planned, Probed, Judged

\* A plan without any IPv6 mode comes from an uplink without IPv6 addresses.
LEMMA SubmittedSeen ==
    ASSUME Typed, PlanSeen, plan' = Submitted(plan), UNCHANGED <<seen, files, default4, default6>>
    PROVE  PlanSeen'
<1> DEFINE d == Detected6(files)
<1>1. UNCHANGED <<Detected4(files), Detected6(files), Static6, Dynamic6>>
  BY DEF Detected4, Detected6, Static4, Static6, Dynamic4, Dynamic6, Mixed4, Learned, Leased, Guessed,
         HasClass6
<1>2. CASE plan' = plan
  BY <1>1, <1>2 DEF PlanSeen
<1>3. CASE plan' # plan
  <2>1. /\ ~plan.v6.slaac /\ ~plan.v6.dhcp /\ plan.v6.static = <<>>
        /\ plan' = [plan EXCEPT !.v6.gateway = None, !.v6.onlink = FALSE]
    BY <1>3 DEF Submitted
  <2>2. d \in Plan6
    BY DetectedTyped
  <2>3. plan.v6.slaac = d.slaac /\ plan.v6.dhcp = d.dhcp /\ plan.v6.static = d.static
    BY <2>2 DEF PlanSeen, Plan6
  <2>4. d.slaac = (Learned \/ Guessed(files)) /\ d.dhcp = Leased(files) /\ d.static = SetToSeq(Static6)
    BY DEF Detected6
  <2>5. Static6 \cup Dynamic6 = {}
    <3>1. Static6 = ToSet(<<>>)
      BY <2>1, <2>3, <2>4, StaticListed
    <3>2. Static6 = {}
      BY <3>1 DEF ToSet
    <3> QED
      BY <2>1, <2>3, <2>4, <3>2 DEF Guessed
  <2>6. plan'.v4 = plan.v4 /\ plan'.v6 = [plan.v6 EXCEPT !.gateway = None, !.onlink = FALSE]
    BY <2>1 DEF Typed, Plan
  <2>7. plan'.v6 = [d EXCEPT !.gateway = None, !.onlink = FALSE]
    BY <2>2, <2>6 DEF PlanSeen, Plan6
  <2> QED
    BY <1>1, <2>5, <2>6, <2>7 DEF PlanSeen
<1> QED
  BY <1>2, <1>3

\* Detect derives the plan from what it saw, and the review changes what it says it may.
LEMMA DerivedNext == ASSUME Typed, Derived, [Next]_vars PROVE Derived'
<1> USE DEF reading, probing, grading, session, router, Planned, Probed, Judged
<1>1. ASSUME UNCHANGED <<seen, files, default4, default6, plan.v4, plan.v6, edited>>
      PROVE  (PlanSeen' <=> PlanSeen) /\ (Mixed4' <=> Mixed4)
  BY <1>1 DEF PlanSeen, Detected4, Detected6, Static4, Static6, Dynamic4, Dynamic6, Mixed4, Learned,
              Leased, Guessed, HasClass6
<1>2. CASE ReadRoutes4 \/ ReadRoutes6 \/ ReadRules \/ ReadLink \/ ReadUplinks \/ ReadAddresses
  <2>1. /\ step \in Detecting /\ UNCHANGED edited
        /\ step' \in {"routes6", "rules", "link", "uplinks", "addresses", "files", "refused"}
    BY <1>2 DEF ReadRoutes4, ReadRoutes6, ReadRules, ReadLink, ReadUplinks, ReadAddresses, Essential,
                Detecting
  <2> QED
    BY <2>1 DEF Derived
<1>3. CASE Assemble
  <2>1. /\ step \in Detecting /\ step' = "dns" /\ UNCHANGED <<edited, seen, default4, default6>>
        /\ plan' = [plan EXCEPT !.v4 = Detected4(files'), !.v6 = Detected6(files')]
        /\ blocked' = (blocked \/ Mixed4)
    BY <1>3 DEF Assemble, Detecting
  <2>2. plan'.v4 = Detected4(files') /\ plan'.v6 = Detected6(files')
    BY <2>1 DEF Typed, Plan
  <2>3. Detected4(files)' = Detected4(files') /\ Detected6(files)' = Detected6(files') /\ Mixed4' = Mixed4
    BY <2>1 DEF Detected4, Detected6, Static4, Static6, Dynamic4, Dynamic6, Mixed4, Learned,
                Leased, Guessed, HasClass6
  <2> QED
    BY <2>1, <2>2, <2>3 DEF Derived, PlanSeen
<1>4. CASE ReadDNS
  <2>1. /\ step = "dns" /\ step' \in {"probe", "judge"}
        /\ UNCHANGED <<edited, blocked, seen, files, default4, default6>>
        /\ plan' = [plan EXCEPT !.dns = host.dns, !.zone = plan.device]
    BY <1>4 DEF ReadDNS
  <2>2. plan'.v4 = plan.v4 /\ plan'.v6 = plan.v6
    BY <2>1 DEF Typed, Plan
  <2> QED
    BY <1>1, <2>1, <2>2 DEF Derived, Detecting
<1>5. CASE ProbeEnds \/ Receive \/ ProbeClock \/ ProbeFails
  <2>1. /\ step = "probe" /\ step' \in {"probe", "judge"}
        /\ UNCHANGED <<edited, blocked, seen, files, default4, default6, plan>>
    BY <1>5 DEF ProbeEnds, ProbeOver, Receive, ProbeClock, ProbeFails
  <2> QED
    BY <1>1, <2>1 DEF Derived, Detecting
<1>6. CASE Judge
  <2>1. /\ step = "judge" /\ step' \in {"refused", "review"}
        /\ UNCHANGED <<edited, seen, files, default4, default6, plan>>
        /\ ~blocked' => ~blocked /\ Valid(plan)
        /\ step' = "review" => ~blocked'
    BY <1>6 DEF Judge
  <2>2. Valid(plan)' <=> Valid(plan)
    BY <2>1
  <2> QED
    BY <1>1, <2>1, <2>2 DEF Derived, Detecting
<1>7. CASE Review
  <2>1. /\ step = "review" /\ step' \in {"prepare", "acknowledge", "refused"}
        /\ UNCHANGED <<blocked, seen, files, default4, default6>>
    BY <1>7 DEF Review
  <2>2. PICK p \in {plan} \cup Edits :
          /\ edited' = (p # plan /\ Submitted(p) # plan)
          /\ step' # "refused" => plan' = Submitted(p) /\ Valid(Submitted(p))
    BY <1>7 DEF Review
  <2>3. CASE step' = "refused"
    BY <2>3 DEF Derived, Detecting
  <2>4. CASE step' # "refused"
    <3>1. Valid(plan') /\ Mixed4' = Mixed4
      BY <2>1, <2>2, <2>4 DEF Mixed4, Static4, Dynamic4
    <3>2. ~edited' => PlanSeen'
      <4> SUFFICES ASSUME ~edited' PROVE PlanSeen'
        OBVIOUS
      <4>1. plan' = plan \/ plan' = Submitted(plan)
        BY <2>2, <2>4
      <4>2. PlanSeen
        BY <2>1 DEF Derived
      <4>3. CASE plan' = plan
        BY <2>1, <4>2, <4>3 DEF PlanSeen, Detected4, Detected6, Static4, Static6, Dynamic4, Dynamic6,
                                Mixed4, Learned, Leased, Guessed, HasClass6
      <4> QED
        BY <2>1, <4>1, <4>2, <4>3, SubmittedSeen
    <3> QED
      BY <2>1, <2>4, <3>1, <3>2 DEF Derived, Detecting
  <2> QED
    BY <2>3, <2>4
<1>8. CASE Acknowledge \/ Install
  <2>1. /\ step \in {"acknowledge", "prepare"} /\ step' \in {"prepare", "installed", "refused"}
        /\ UNCHANGED <<edited, blocked, seen, files, default4, default6, plan>>
    BY <1>8 DEF Acknowledge, Install
  <2> QED
    BY <1>1, <2>1 DEF Derived, Detecting
<1>9. CASE HostChanges \/ Cancel \/ RouterOS \/ UNCHANGED vars
  <2>1. UNCHANGED <<step, edited, blocked, seen, files, default4, default6, plan>>
    BY <1>9 DEF HostChanges, Cancel, RouterOS, BeginScript, RunCommand, RunAgain, vars
  <2> QED
    BY <1>1, <2>1 DEF Derived, Detecting
<1> QED
  BY <1>2, <1>3, <1>4, <1>5, <1>6, <1>7, <1>8, <1>9 DEF Next, Detect

\* A plan that says that its gateway is on the link, or has it there or inside a
\* subnet of the uplink, gets a default route that RouterOS can resolve.
LEMMA FinalReachable == ASSUME Typed, Derived, Final, Unedited PROVE GatewayReachable
<1> DEFINE v4 == plan.v4
           v6 == plan.v6
<1>1. PlanSeen /\ ~Mixed4 /\ Valid(plan)
  BY DEF Unedited, Derived, Planned, Probed, Judged
<1>2. plan \in Plan
  BY DEF Typed
<1>3. /\ OnUplink("address4") = Asked("address4") /\ OnUplink("address6") = Asked("address6")
  BY FinalAsked DEF UplinkKinds
<1>4. \A kinds, e : kinds \subseteq AddKinds \ UplinkKinds /\ e \in Entries(kinds)
                    => e.kind \in kinds /\ e.at \in Asked(e.kind)
  <2> SUFFICES ASSUME NEW kinds, NEW e, kinds \subseteq AddKinds \ UplinkKinds, e \in Entries(kinds)
               PROVE  e.kind \in kinds /\ e.at \in Asked(e.kind)
    OBVIOUS
  <2>1. e.kind \in kinds /\ e \in Entries({e.kind})
    BY DEF Entries
  <2>2. e.at \in AtOf(Entries({e.kind}))
    BY <2>1 DEF AtOf
  <2>3. AtOf(Entries({e.kind})) = Asked(e.kind)
    BY <2>1, FinalAsked
  <2> QED
    BY <2>1, <2>2, <2>3
<1>5. ASSUME NEW e \in Entries({"default4"}), e.at \notin LinkLocal
      PROVE  Inside(e.at, OnUplink("address4"))
  <2>1. v4.mode = "static" /\ ~v4.onlink /\ e.at = v4.gateway
    BY <1>2, <1>4, AskedKinds DEF AddKinds, UplinkKinds
  <2>2. v4.gateway # None
    BY <1>1, <2>1 DEF Valid
  <2>3. /\ v4.gateway = default4.gateway /\ ~OnLink(default4, Dynamic4 \cup Static4)
        /\ ToSet(v4.static) = Static4 /\ Dynamic4 = {}
    BY <1>1, <2>1, StaticListed DEF PlanSeen, Detected4
  <2>4. Inside(v4.gateway, Static4)
    BY <1>5, <2>1, <2>2, <2>3 DEF OnLink
  <2> QED
    BY <1>2, <1>3, <2>1, <2>3, <2>4, AskedKinds
<1>6. v6.gateway # None => /\ v6.gateway = default6.gateway /\ ToSet(v6.static) = Static6
                           /\ v6.onlink = OnLink(default6, Static6 \cup Dynamic6)
  <2>1. Detected6(files) \in Plan6
    BY DetectedTyped
  <2>2. v6.gateway # None => v6 = Detected6(files)
    BY <1>1, <2>1 DEF PlanSeen, Plan6
  <2>3. ToSet(Detected6(files).static) = Static6
    BY StaticListed DEF Detected6
  <2>4. /\ Detected6(files).gateway = default6.gateway
        /\ Detected6(files).onlink = OnLink(default6, Static6 \cup Dynamic6)
    BY DEF Detected6
  <2> QED
    BY <2>2, <2>3, <2>4
<1>7. ASSUME NEW e \in Entries({"default6"})
      PROVE  Inside(e.at, OnUplink("address6") \cup Dynamic6)
  <2>1. v6.gateway # None /\ ~Recursive(v6) /\ v6.gateway \notin LinkLocal /\ e.at = v6.gateway
    BY <1>2, <1>4, AskedKinds DEF AddKinds, UplinkKinds
  <2>2. ~OnLink(default6, Static6 \cup Dynamic6)
    BY <1>6, <2>1 DEF Recursive
  <2>3. Inside(v6.gateway, Static6 \cup Dynamic6)
    BY <1>6, <2>1, <2>2 DEF OnLink
  <2> QED
    BY <1>2, <1>3, <1>6, <2>1, <2>3, AskedKinds
<1>8. AtOf(Entries({"recursive4", "recursive6"})) \subseteq AtOf(Entries({"host4", "host6"}))
  <2>1. {"recursive4", "recursive6"} \subseteq AddKinds \ UplinkKinds
        /\ {"host4", "host6"} \subseteq AddKinds \ UplinkKinds
    BY DEF AddKinds, UplinkKinds
  <2> QED
    BY <1>2, <2>1, FinalAt, AskedKinds
<1>9. \A e \in Entries({"recursive6", "scoped6"}) : (e.kind = "scoped6") = (e.at \in LinkLocal)
  <2>1. {"recursive6", "scoped6"} \subseteq AddKinds \ UplinkKinds
    BY DEF AddKinds, UplinkKinds
  <2> QED
    BY <1>2, <1>4, <2>1, AskedKinds DEF Recursive
<1> QED
  BY <1>5, <1>7, <1>8, <1>9 DEF GatewayReachable

\* The plan is always one derived so.
LEMMA AlwaysDerived == Spec => [](Typed /\ Scripted /\ Derived)
<1>1. Typed /\ Derived /\ [Next]_vars => Derived'
  BY DerivedNext
<1> QED
  BY AlwaysScripted, DerivedInit, <1>1, PTL DEF Spec

\* Detect and RouterOSScript: whatever the host's network changes to while Detect
\* reads it, RouterOS can look up the gateway of each default route of a plan that
\* the operator left alone.
THEOREM GatewaysAreReachable == Spec => []GatewayReachable
<1>1. Typed /\ Scripted /\ Derived => GatewayReachable
  BY AppliedFinal, FinalReachable DEF GatewayReachable, Unedited
<1> QED
  BY <1>1, AlwaysDerived, PTL

-----------------------------------------------------------------------------
(* What the plan says about a host that has not changed.                   *)

\* Detect has read nothing yet.
LEMMA GroundedInit == Init => Grounded
BY DEF Init, Grounded, Clean, Routed, Ruled, Counted, Looked, Planned, Probed, Judged

\* What the counts say depends on the host and on the routes chosen only.
LEMMA FitsKept ==
    ASSUME UNCHANGED <<host, default4, default6, plan.device>>
    PROVE  (RoutesFit' <=> RoutesFit) /\ (UplinkFits' <=> UplinkFits)
BY DEF RoutesFit, UplinkFits, Selected, Ambiguous, Untranslated, Physical

\* Detect blocks what the plan cannot express, and what it lets through is seen.
LEMMA GroundedNext == ASSUME Typed, Derived, Grounded, [Next]_vars PROVE Grounded'
<1> USE DEF reading, probing, grading, session, router
<1>1. ASSUME UNCHANGED <<host, default4, default6, seen, plan.device, plan.dns>>,
             Clean' => Clean, step' # "routes6",
             /\ step' \in Routed => step \in Routed
             /\ step' \in Ruled => step \in Ruled
             /\ step' \in Counted => step \in Counted
             /\ step' \in Looked => step \in Looked
             /\ step' \in Probed => step \in Probed
      PROVE  Grounded'
  BY <1>1, FitsKept DEF Grounded
<1>2. CASE HostChanges
  <2>1. changed'
    BY <1>2 DEF HostChanges
  <2> QED
    BY <2>1 DEF Grounded, Clean
<1>3. CASE ReadRoutes4
  <2>1. step' \in {"routes6", "refused"} /\ (step' = "routes6" => routes4' = host.routes4) /\ UNCHANGED host
    BY <1>3 DEF ReadRoutes4, Essential
  <2> QED
    BY <2>1 DEF Grounded, Routed, Ruled, Counted, Looked, Planned, Probed, Judged
<1>4. CASE ReadRoutes6
  <2>1. step = "routes6" /\ step' \in {"rules", "refused"} /\ UNCHANGED <<host, changed, edited>>
    BY <1>4 DEF ReadRoutes6, Essential
  <2>2. ASSUME Clean', step' = "rules" PROVE RoutesFit'
    <3>1. ~changed /\ ~blocked'
      BY <2>1, <2>2 DEF Clean
    <3>2. routes4 = host.routes4
      BY <2>1, <3>1 DEF Grounded
    <3>3. PICK r4 \in Selected(routes4), r6 \in Selected(host.routes6) :
            LET device == IF r4.dev # None THEN r4.dev ELSE r6.dev
            IN  /\ default4' = r4 /\ default6' = r6
                /\ plan' = [plan EXCEPT !.device = device]
                /\ blocked' = \/ Ambiguous(routes4, r4) \/ Ambiguous(host.routes6, r6)
                              \/ r6 # NoRoute /\ device # r6.dev
                              \/ Untranslated(routes4, r4, device, {"kernel"})
                              \/ Untranslated(host.routes6, r6, device, {"kernel", "ra"})
                              \/ device = None
      BY <1>4, <2>2 DEF ReadRoutes6, Essential
    <3>4. plan'.device = IF r4.dev # None THEN r4.dev ELSE r6.dev
      BY <3>3 DEF Typed, Plan
    <3>5. /\ ~Ambiguous(host.routes4, default4') /\ ~Ambiguous(host.routes6, default6')
          /\ ~Untranslated(host.routes4, default4', plan'.device, {"kernel"})
          /\ ~Untranslated(host.routes6, default6', plan'.device, {"kernel", "ra"})
      BY <3>1, <3>2, <3>3, <3>4
    <3>6. default4' \in Selected(host.routes4) /\ default6' \in Selected(host.routes6)
      BY <3>2, <3>3
    <3> QED
      BY <2>1, <3>5, <3>6 DEF RoutesFit, Selected, Ambiguous, Untranslated
  <2> QED
    BY <2>1, <2>2 DEF Grounded, Routed, Ruled, Counted, Looked, Planned, Probed, Judged
<1>5. CASE ReadRules
  <2>1. /\ step = "rules" /\ step' = "link"
        /\ ~blocked' => ~blocked /\ ~host.rules
        /\ UNCHANGED <<host, changed, edited, default4, default6, plan>>
    BY <1>5 DEF ReadRules
  <2> QED
    BY <2>1, FitsKept DEF Grounded, Clean, Routed, Ruled, Counted, Looked, Planned, Probed, Judged
<1>6. CASE ReadLink
  <2>1. /\ step = "link" /\ step' \in {"uplinks", "refused"}
        /\ ~blocked' => ~blocked
        /\ UNCHANGED <<host, changed, edited, default4, default6, seen>>
        /\ \/ plan' = plan
           \/ plan' = [plan EXCEPT !.mac = host.link[plan.device] # "nomac",
                                   !.mtu = host.link[plan.device] # "jumbo"]
    BY <1>6 DEF ReadLink, Essential
  <2>2. UNCHANGED <<plan.device, plan.dns>>
    BY <2>1 DEF Typed, Plan
  <2> QED
    BY <1>1, <2>1, <2>2 DEF Clean, Routed, Ruled, Counted, Looked, Planned, Probed, Judged
<1>7. CASE ReadUplinks
  <2>1. /\ step = "uplinks" /\ step' = "addresses"
        /\ ~blocked' => ~blocked /\ UplinkFits
        /\ UNCHANGED <<host, changed, edited, default4, default6, plan>>
    BY <1>7 DEF ReadUplinks, UplinkFits
  <2> QED
    BY <2>1, FitsKept DEF Grounded, Clean, Routed, Ruled, Counted, Looked, Planned, Probed, Judged
<1>8. CASE ReadAddresses
  <2>1. /\ step = "addresses" /\ step' \in {"files", "refused"}
        /\ ~blocked' => ~blocked
        /\ step' = "files" => seen' = {a \in host.addresses : a.dev = plan.device}
        /\ UNCHANGED <<host, changed, edited, default4, default6, plan>>
    BY <1>8 DEF ReadAddresses, Essential
  <2> QED
    BY <2>1, FitsKept DEF Grounded, Clean, Routed, Ruled, Counted, Looked, Planned, Probed, Judged
<1>9. CASE Assemble
  <2>1. /\ step = "files" /\ step' = "dns"
        /\ ~blocked' => ~blocked
        /\ plan' = [plan EXCEPT !.v4 = Detected4(files'), !.v6 = Detected6(files')]
        /\ UNCHANGED <<host, changed, edited, default4, default6, seen>>
    BY <1>9 DEF Assemble
  <2>2. UNCHANGED <<plan.device, plan.dns>>
    BY <2>1 DEF Typed, Plan
  <2> QED
    BY <1>1, <2>1, <2>2 DEF Clean, Routed, Ruled, Counted, Looked, Planned, Probed, Judged
<1>10. CASE ReadDNS
  <2>1. /\ step = "dns" /\ step' \in {"probe", "judge"}
        /\ plan' = [plan EXCEPT !.dns = host.dns, !.zone = plan.device]
        /\ UNCHANGED <<host, changed, edited, blocked, default4, default6, seen>>
    BY <1>10 DEF ReadDNS
  <2>2. plan'.dns = host.dns /\ plan'.device = plan.device
    BY <2>1 DEF Typed, Plan
  <2> QED
    BY <2>1, <2>2, FitsKept DEF Grounded, Clean, Routed, Ruled, Counted, Looked, Planned, Probed, Judged
<1>11. CASE ProbeEnds \/ Receive \/ ProbeClock \/ ProbeFails
  <2>1. /\ step = "probe" /\ step' \in {"probe", "judge"}
        /\ UNCHANGED <<host, changed, edited, blocked, default4, default6, seen, plan>>
    BY <1>11 DEF ProbeEnds, ProbeOver, Receive, ProbeClock, ProbeFails
  <2> QED
    BY <1>1, <2>1 DEF Clean, Routed, Ruled, Counted, Looked, Planned, Probed, Judged
<1>12. CASE Judge
  <2>1. /\ step = "judge" /\ step' \in {"refused", "review"}
        /\ ~blocked' => ~blocked
        /\ UNCHANGED <<host, changed, edited, default4, default6, seen, plan>>
    BY <1>12 DEF Judge
  <2> QED
    BY <1>1, <2>1 DEF Clean, Routed, Ruled, Counted, Looked, Planned, Probed, Judged
<1>13. CASE Review
  <2>1. /\ step = "review" /\ step' \in {"prepare", "acknowledge", "refused"}
        /\ UNCHANGED <<host, changed, blocked, default4, default6, seen>>
    BY <1>13 DEF Review
  <2>2. ~edited
    BY <2>1 DEF Derived
  <2>3. PICK p \in {plan} \cup Edits :
          /\ edited' = (p # plan /\ Submitted(p) # plan)
          /\ step' # "refused" => plan' = Submitted(p)
    BY <1>13 DEF Review
  <2>4. CASE step' = "refused" \/ edited'
    BY <2>1, <2>4 DEF Grounded, Clean, Routed, Ruled, Counted, Looked, Planned, Probed, Judged
  <2>5. CASE step' # "refused" /\ ~edited'
    <3>1. plan' = plan \/ plan' = Submitted(plan)
      BY <2>3, <2>5
    <3>2. UNCHANGED <<plan.device, plan.dns>>
      BY <3>1 DEF Submitted, Typed, Plan
    <3> QED
      BY <1>1, <2>1, <2>2, <3>2 DEF Clean, Routed, Ruled, Counted, Looked, Planned, Probed, Judged
  <2> QED
    BY <2>4, <2>5
<1>14. CASE Acknowledge \/ Install
  <2>1. /\ step \in {"acknowledge", "prepare"} /\ step' \in {"prepare", "installed", "refused"}
        /\ UNCHANGED <<host, changed, edited, blocked, default4, default6, seen, plan>>
    BY <1>14 DEF Acknowledge, Install
  <2> QED
    BY <1>1, <2>1 DEF Clean, Routed, Ruled, Counted, Looked, Planned, Probed, Judged
<1>15. CASE Cancel \/ RouterOS \/ UNCHANGED vars
  <2>1. UNCHANGED <<step, host, changed, edited, blocked, routes4, default4, default6, seen, plan>>
    BY <1>15 DEF Cancel, RouterOS, BeginScript, RunCommand, RunAgain, vars
  <2> QED
    BY <2>1, FitsKept DEF Grounded, Clean
<1> QED
  BY <1>2, <1>3, <1>4, <1>5, <1>6, <1>7, <1>8, <1>9, <1>10, <1>11, <1>12, <1>13, <1>14, <1>15
  DEF Next, Detect

\* What RouterOS then has is what the host had.
LEMMA FinalCarried ==
    ASSUME Typed, Derived, Grounded, Final, Idempotent, Unedited, ~changed
    PROVE  Preserved
<1> DEFINE v4 == plan.v4
           v6 == plan.v6
<1>1. PlanSeen /\ ~Mixed4 /\ Clean
  BY DEF Unedited, Derived, Clean, Planned, Probed, Judged
<1>2. /\ RoutesFit /\ ~host.rules /\ UplinkFits /\ plan.dns = host.dns
      /\ seen = {a \in host.addresses : a.dev = plan.device}
  BY <1>1 DEF Unedited, Grounded, Routed, Ruled, Counted, Looked, Planned, Probed, Judged
<1>3. /\ (OnUplink("dhcp4") # {}) = (v4.mode = "dhcp")
      /\ (OnUplink("dhcp6") # {}) = v6.dhcp
      /\ OnUplink("address4") = IF v4.mode = "static" THEN ToSet(v4.static) ELSE {}
      /\ OnUplink("address6") = ToSet(v6.static)
      /\ AtOf(Entries(Default4)) = IF v4.mode = "static" THEN {v4.gateway} ELSE {}
      /\ AtOf(Entries(Default6)) = {v6.gateway} \ {None}
      /\ AtOf(Entries({"dns"})) = plan.dns
  BY DEF Unedited, Idempotent
<1>4. v6.slaac => "yes" \in AtOf(Entries({"ra"}))
  BY DEF Final, Ra
<1>5. /\ v4.gateway = default4.gateway /\ ToSet(v4.static) = Static4
      /\ v4.mode = "static" <=> Dynamic4 = {} /\ Static4 # {}
      /\ Dynamic4 # {} => v4.mode = "dhcp"
      /\ v4.mode \in {"dhcp", "static"} \/ Static4 = {}
  BY <1>1, StaticListed DEF PlanSeen, Detected4, Mixed4
<1>6. /\ v6.slaac = (Learned \/ Guessed(files)) /\ v6.dhcp = Leased(files) /\ ToSet(v6.static) = Static6
      /\ v6.gateway = default6.gateway \/ Static6 \cup Dynamic6 = {}
  <2>1. Detected6(files) \in Plan6
    BY DetectedTyped
  <2>2. /\ v6.slaac = Detected6(files).slaac /\ v6.dhcp = Detected6(files).dhcp
        /\ v6.static = Detected6(files).static
        /\ v6.gateway = Detected6(files).gateway \/ Static6 \cup Dynamic6 = {}
    BY <1>1, <2>1 DEF PlanSeen, Plan6
  <2> QED
    BY <2>2, StaticListed DEF Detected6
<1>7. AddressesCarried
  <2> SUFFICES ASSUME NEW a \in host.addresses, Physical(a.dev)
               PROVE  /\ a.dev = plan.device
                      /\ CASE a.class = "static" -> a.name \in OnUplink("address4") \cup OnUplink("address6")
                           [] a.class = "ra"     -> "yes" \in AtOf(Entries({"ra"}))
                           [] a.class = "dhcp" /\ a.name \in Addresses6 -> OnUplink("dhcp6") # {}
                           [] a.class = "dynamic" /\ a.name \in Addresses6 ->
                                  "yes" \in AtOf(Entries({"ra"})) \/ OnUplink("dhcp6") # {}
                           [] OTHER -> OnUplink("dhcp4") # {}
    BY DEF AddressesCarried
  <2>1. a.dev = plan.device /\ a \in seen
    BY <1>2 DEF UplinkFits
  <2>2. /\ a.class \in {"static", "dynamic", "dhcp", "ra"}
        /\ a.name \in Addresses4 \cup Addresses6
        /\ a.class = "ra" => a.name \in Addresses6
    BY <2>1 DEF Typed, Address
  <2>3. \A classes, names : a.class \in classes /\ a.name \in names => a.name \in Named(seen, classes, names)
    BY <2>1 DEF Named
  <2>4. CASE a.class = "static"
    <3>1. a.name \in Static4 \/ a.name \in Static6
      BY <2>2, <2>3, <2>4 DEF Static4, Static6
    <3>2. a.name \in Static4 => v4.mode = "static"
      BY <1>1, <1>5 DEF Mixed4
    <3> QED
      BY <1>3, <1>5, <1>6, <2>1, <2>4, <3>1, <3>2
  <2>5. CASE a.class = "ra"
    <3>1. Learned
      BY <2>2, <2>3, <2>5 DEF Learned, HasClass6
    <3> QED
      BY <1>4, <1>6, <2>1, <2>5, <3>1
  <2>6. CASE a.class = "dhcp" /\ a.name \in Addresses6
    <3>1. Leased(files)
      BY <2>3, <2>6 DEF Leased, HasClass6
    <3> QED
      BY <1>3, <1>6, <2>1, <2>6, <3>1
  <2>7. CASE a.class = "dynamic" /\ a.name \in Addresses6
    <3>1. Dynamic6 # {}
      BY <2>3, <2>7 DEF Dynamic6
    <3>2. Learned \/ Leased(files) \/ Guessed(files)
      BY <3>1 DEF Guessed
    <3> QED
      BY <1>3, <1>4, <1>6, <2>1, <2>7, <3>2
  <2>8. CASE a.class \in {"dynamic", "dhcp"} /\ a.name \notin Addresses6
    <3>1. a.name \in Dynamic4
      BY <2>2, <2>3, <2>8 DEF Dynamic4
    <3> QED
      BY <1>3, <1>5, <2>1, <2>8, <3>1
  <2> QED
    BY <2>2, <2>4, <2>5, <2>6, <2>7, <2>8
<1>8. ASSUME NEW r \in host.routes4, r.proto \notin {"kernel", "ra"}
      PROVE  \/ RouteCarried(r, Default4) \/ FromDHCP(r)
             \/ Lost(r, default4, Static4 \cup Dynamic4) \/ Displaced(r)
  <2>1. IF r.dst = "default" THEN r.gateway = default4.gateway ELSE r.dst = default4.gateway
    BY <1>2, <1>8 DEF RoutesFit, Ambiguous, Untranslated
  <2>2. CASE v4.mode = "static"
    BY <1>3, <1>5, <2>1, <2>2 DEF RouteCarried
  <2>3. r.dst \in {"default", default4.gateway}
    BY <2>1
  <2>4. CASE v4.mode = "dhcp"
    BY <1>3, <2>3, <2>4 DEF FromDHCP, Displaced
  <2>5. CASE v4.mode = "none"
    <3>1. Static4 \cup Dynamic4 = {}
      BY <1>5, <2>5
    <3> QED
      BY <2>3, <3>1 DEF Lost
  <2>6. v4.mode \in {"static", "dhcp", "none"}
    BY DEF Typed, Plan, Plan4
  <2> QED
    BY <2>2, <2>4, <2>5, <2>6
<1>9. ASSUME NEW r \in host.routes6, r.proto \notin {"kernel", "ra"}
      PROVE  RouteCarried(r, Default6) \/ Lost(r, default6, Static6 \cup Dynamic6)
  <2>1. IF r.dst = "default" THEN r.gateway = default6.gateway ELSE r.dst = default6.gateway
    BY <1>2, <1>9 DEF RoutesFit, Ambiguous, Untranslated
  <2>2. r.dst # None
    BY NoneAssumption DEF Typed, HostType, Route, None
  <2>3. CASE Static6 \cup Dynamic6 = {}
    BY <2>1, <2>3 DEF Lost
  <2>4. CASE Static6 \cup Dynamic6 # {}
    BY <1>3, <1>6, <2>1, <2>2, <2>4 DEF RouteCarried, Lost
  <2> QED
    BY <2>3, <2>4
<1>10. /\ \A r \in host.routes4 : r.proto \in {"kernel", "ra"} => RouteCarried(r, Default4)
       /\ \A r \in host.routes6 : r.proto \in {"kernel", "ra"} => RouteCarried(r, Default6)
  BY DEF RouteCarried
<1> QED
  BY <1>2, <1>3, <1>7, <1>8, <1>9, <1>10 DEF Preserved

\* ReviewPreflight, Detect and RouterOSScript: if nothing changed on the host while
\* Detect looked and the operator left its plan alone, then RouterOS has every
\* address, route and server that the host had, for every host, but for the default
\* routes that Lost and Displaced name.
THEOREM HostIsPreserved == Spec => []Preserved
<1>1. Typed /\ Derived /\ Grounded /\ [Next]_vars => Grounded'
  BY GroundedNext
<1>2. Typed /\ Scripted /\ Derived /\ Grounded /\ Idempotent => Preserved
  BY AppliedFinal, FinalCarried DEF Preserved, Unedited
<1> QED
  BY <1>1, <1>2, GroundedInit, AlwaysDerived, ScriptIsIdempotent, PTL DEF Spec

-----------------------------------------------------------------------------
(* Detect makes progress.                                                  *)

\* How many steps of Detect may follow, and how long the probe may wait.
Ahead ==
    CASE step = "routes4" -> 10 [] step = "routes6" -> 9 [] step = "rules" -> 8
      [] step = "link" -> 7 [] step = "uplinks" -> 6 [] step = "addresses" -> 5
      [] step = "files" -> 4 [] step = "dns" -> 3 [] step = "probe" -> 2 [] step = "judge" -> 1
      [] OTHER -> 0
DetectRank == Ahead + left

\* Detect and the clock come closer to the end, packets and Ctrl-C take nothing
\* back, and what has ended does not begin again.
DetectAdvances ==
    /\ Detect \/ ProbeClock => DetectRank' < DetectRank
    /\ DetectRank' <= DetectRank
    /\ step \notin Detecting => step' \notin Detecting

Waits == left \in Nat

\* Each step of Detect is one less to come.
LEMMA WaitsNext == ASSUME Waits, [Next]_vars PROVE Waits' /\ DetectAdvances
<1> USE DEF reading, probing, grading, session, router
<1>1. ASSUME Detect
      PROVE  /\ UNCHANGED left /\ step \in Detecting
             /\ DetectRank' < DetectRank /\ DetectRank' <= DetectRank
  <2>1. CASE ReadRoutes4 \/ ReadRoutes6 \/ ReadRules \/ ReadLink
    <3>1. /\ UNCHANGED left
          /\ \/ step = "routes4" /\ step' \in {"routes6", "refused"}
             \/ step = "routes6" /\ step' \in {"rules", "refused"}
             \/ step = "rules" /\ step' = "link"
             \/ step = "link" /\ step' \in {"uplinks", "refused"}
      BY <2>1 DEF ReadRoutes4, ReadRoutes6, ReadRules, ReadLink, Essential
    <3> QED
      BY <3>1 DEF DetectRank, Ahead, Detecting, Waits
  <2>2. CASE ReadUplinks \/ ReadAddresses \/ Assemble
    <3>1. /\ UNCHANGED left
          /\ \/ step = "uplinks" /\ step' = "addresses"
             \/ step = "addresses" /\ step' \in {"files", "refused"}
             \/ step = "files" /\ step' = "dns"
      BY <2>2 DEF ReadUplinks, ReadAddresses, Assemble, Essential
    <3> QED
      BY <3>1 DEF DetectRank, Ahead, Detecting, Waits
  <2>3. CASE ReadDNS \/ ProbeEnds \/ Judge
    <3>1. /\ UNCHANGED left
          /\ \/ step = "dns" /\ step' \in {"probe", "judge"}
             \/ step = "probe" /\ step' = "judge"
             \/ step = "judge" /\ step' \in {"review", "refused"}
      BY <2>3 DEF ReadDNS, ProbeEnds, ProbeOver, Judge
    <3> QED
      BY <3>1 DEF DetectRank, Ahead, Detecting, Waits
  <2> QED
    BY <1>1, <2>1, <2>2, <2>3 DEF Detect
<1>2. ASSUME ProbeClock
      PROVE  /\ Waits' /\ step' = step /\ left' # left
             /\ DetectRank' < DetectRank /\ DetectRank' <= DetectRank
  <2>1. step = "probe" /\ step' = step /\ left > 0 /\ left' = left - 1
    BY <1>2 DEF ProbeClock
  <2> QED
    BY <2>1 DEF DetectRank, Ahead, Waits
<1>3. CASE Detect \/ ProbeClock
  BY <1>1, <1>2, <1>3 DEF DetectAdvances, Waits
<1>4. CASE ~Detect /\ ~ProbeClock /\ UNCHANGED <<left, step>>
  BY <1>4 DEF DetectAdvances, DetectRank, Ahead, Waits
<1>5. CASE ~Detect /\ ~ProbeClock /\ (Receive \/ ProbeFails)
  <2>1. step = "probe" /\ step' \in {"probe", "judge"} /\ UNCHANGED left
    BY <1>5 DEF Receive, ProbeFails, ProbeOver
  <2> QED
    BY <1>5, <2>1 DEF DetectAdvances, DetectRank, Ahead, Waits, Detecting
<1>6. CASE ~Detect /\ ~ProbeClock /\ (Review \/ Acknowledge \/ Install)
  <2>1. /\ UNCHANGED left /\ step \in {"review", "acknowledge", "prepare"}
        /\ step' \in {"acknowledge", "prepare", "installed", "refused"}
    BY <1>6 DEF Review, Acknowledge, Install
  <2> QED
    BY <1>6, <2>1 DEF DetectAdvances, DetectRank, Ahead, Waits, Detecting
<1>7. CASE HostChanges \/ Cancel \/ RouterOS \/ UNCHANGED vars
  <2>1. UNCHANGED <<left, step>>
    BY <1>7 DEF HostChanges, Cancel, RouterOS, vars
  <2> QED
    BY <1>3, <1>4, <2>1
<1> QED
  BY <1>3, <1>5, <1>6, <1>7 DEF Next

\* Detect and ProbeDHCP: for any patience of the probe and whatever comes over the
\* wire, fails or is cancelled, each step of Detect and each receive timeout of
\* the probe takes the session closer to the end of the detection, a natural
\* number of them, and nothing leads back.
THEOREM DetectShrinks == Spec => [](DetectRank \in Nat) /\ [][DetectAdvances]_vars
<1>1. Init => Waits
  BY PatienceAssumption DEF Init, Waits
<1>2. Waits => DetectRank \in Nat
  BY DEF DetectRank, Ahead, Waits
<1>3. Waits /\ [Next]_vars => Waits' /\ DetectAdvances
  BY WaitsNext
<1> QED
  BY <1>1, <1>2, <1>3, PTL DEF Spec

=============================================================================
