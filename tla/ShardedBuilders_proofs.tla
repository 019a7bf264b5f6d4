------------------------ MODULE ShardedBuilders_proofs ------------------------
(***************************************************************************)
(* Hashing alone keeps the builders of one pool apart, for any number of   *)
(* workers, commits and failures, whatever is going on around them.        *)
(*                                                                         *)
(* OneBuilderPerShard is not inductive: it says nothing of why a row is in *)
(* a batch.  Sharded does: every row in a worker's hands hashes to the     *)
(* index the worker had when it listed.                                    *)
(*                                                                         *)
(* What a call posts is compared with a status that may have changed since *)
(* the call decided.  FInv says why it has not: a worker that met nobody   *)
(* of another pool is at work under one configuration with everybody else  *)
(* (Alone), so only its own call is about its commit; the pages still to   *)
(* be read hold what the call looks for, and what it is about to post is   *)
(* news (Informed); what is left to build has no verdict (Fresh).          *)
(***************************************************************************)
EXTENDS ShardedBuilders, WellFoundedInduction, TLAPS

-----------------------------------------------------------------------------
(* Calls of setGithubStatus *)

\* A call of w is opened, moved on or closed, and is about i.
CallOf(w, i) ==
    \E c \in {d \in Call : d.item = i} \union {NoCall} : call' = [call EXCEPT ![w] = c]

\* The newest of some statuses is one of them.
LEMMA NewestExists ==
    ASSUME NEW S \in SUBSET Nat, S # {}
    PROVE  Newest(S) \in S /\ \A m \in S : Newest(S) <= m
  <1>1. PICK k \in S : \A m \in S : <<m, k>> \notin OpToRel(<, Nat)
    BY WFMin, NatLessThanWellFounded, Zenon
  <1>2. OpToRel(<, Nat) = {ss \in Nat \X Nat : ss[1] < ss[2]}
    BY Zenon DEF OpToRel
  <1>3. ASSUME NEW m \in S  PROVE  k <= m
    <2>1. ~(m < k)
      <3>1. <<m, k>> \in Nat \X Nat
        OBVIOUS
      <3>2. <<m, k>> \notin {ss \in Nat \X Nat : ss[1] < ss[2]}
        BY <1>1, <1>2, Zenon
      <3> QED BY <3>1, <3>2
    <2>2. m \in Nat /\ k \in Nat
      OBVIOUS
    <2> QED BY <2>1, <2>2
  <1> QED BY <1>3 DEF Newest

\* What a sequence holds.
LEMMA InSequence ==
    ASSUME NEW S, NEW q \in Seq(S), NEW n \in DOMAIN q
    PROVE  q[n] \in S
  OBVIOUS

\* Reading a page keeps the call about its commit; the URL that is posted is the caller's,
\* or the one the context has.
LEMMA ReadKeepsCall ==
    ASSUME NEW w \in Workers, NEW c \in Call, Read(w, c),
           \A i \in Items : statuses[i] \in Seq(Status)
    PROVE  CallOf(w, c.item)
  <1> DEFINE list == statuses[c.item]
             own == OnPage(list, c.page) \intersect Own(list)
  <1>1. c.item \in Items /\ list \in Seq(Status) /\ c.ask \in Ask /\ c.page \in Nat \ {0}
    BY DEF Call
  <1>2. ASSUME NEW url \in {"", "log"}, Posts(w, c, url)
        PROVE  CallOf(w, c.item)
    BY <1>2 DEF Posts, CallOf, Call, Ask
  <1>3. CASE own # {} /\ Decide(w, c, list[Newest(own)])
    <2>1. Newest(own) \in own
      <3>1. own \in SUBSET Nat
        BY <1>1 DEF Own
      <3> QED BY <3>1, <1>3, NewestExists
    <2>2. list[Newest(own)] \in Ask
      <3>1. Newest(own) \in DOMAIN list /\ list[Newest(own)] # Other
        BY <2>1 DEF Own
      <3>2. list[Newest(own)] \in Status
        BY <3>1, <1>1, InSequence
      <3> QED BY <3>1, <3>2 DEF Status
    <2>3. list[Newest(own)].url \in {"", "log"} /\ c.ask.url \in {"", "log"}
      BY <2>2, <1>1 DEF Ask
    <2> QED BY <1>2, <1>3, <2>3 DEF Decide, Returns, CallOf
  <1>4. CASE own = {} /\ HasNext(list, c.page) /\ call' = [call EXCEPT ![w] = [c EXCEPT !.page = @ + 1]]
    <2> DEFINE next == [c EXCEPT !.page = @ + 1]
    <2>1. next \in {d \in Call : d.item = c.item}
      BY <1>1 DEF Call
    <2> QED BY <1>4, <2>1 DEF CallOf
  <1>5. CASE own = {} /\ ~HasNext(list, c.page) /\ Create(w, c)
    BY <1>5, <1>2, <1>1 DEF Create, Ask
  <1> QED BY <1>3, <1>4, <1>5 DEF Read

\* A call that returns is over, whatever it was about.
LEMMA ReturnsEndsCall ==
    ASSUME NEW w, NEW i, Returns(w)
    PROVE  CallOf(w, i)
  <1>1. NoCall \in {d \in Call : d.item = i} \union {NoCall}
    OBVIOUS
  <1> QED BY <1>1, Zenon DEF Returns, CallOf

\* Failures are counted up to their bound.
LEMMA FaultCounts ==
    ASSUME faults \in 0..MaxFaults, Fault
    PROVE  faults' \in 0..MaxFaults
  BY BoundAssumption DEF Fault

\* setGithubStatus up to its first page: a call about i is under way, or has come back.
LEMMA SetStatusCalls ==
    ASSUME NEW w \in Workers, NEW i \in Items, NEW ask \in Ask, NEW keep \in BOOLEAN,
           ClientTypeOK, SetStatus(w, i, ask, keep)
    PROVE  CallOf(w, i) /\ faults' \in 0..MaxFaults
  <1> DEFINE c == [stage |-> "get", item |-> i, ask |-> ask, keep |-> keep, page |-> 1,
                   whole |-> TRUE]
  <1>1. CASE Read(w, c) /\ UNCHANGED faults
    <2>1. c \in Call /\ c.item = i
      BY DEF Call
    <2>2. \A j \in Items : statuses[j] \in Seq(Status)
      BY DEF ClientTypeOK
    <2> HIDE DEF c
    <2>3. CallOf(w, c.item)
      BY <1>1, <2>1, <2>2, ReadKeepsCall
    <2> QED BY <1>1, <2>1, <2>3 DEF ClientTypeOK
  <1>2. CASE Fault /\ Returns(w)
    BY <1>2, ReturnsEndsCall, FaultCounts DEF ClientTypeOK
  <1> QED BY <1>1, <1>2 DEF SetStatus

\* A request of a call leaves it about the same commit, or ends it, and answers in kind.
LEMMA RequestKeepsCall ==
    ASSUME NEW w \in Workers, ClientTypeOK, Request(w) \/ RequestFails(w)
    PROVE  /\ call[w] \in Call
           /\ CallOf(w, call[w].item)
           /\ statuses' \in [Items -> Seq(Status)]
           /\ \A i \in Items : Len(statuses'[i]) <= Room[i]
           /\ faults' \in 0..MaxFaults
  <1> DEFINE c == call[w]
  <1>1. c \in Call
    BY DEF Request, RequestFails, GetPage, GetPageFails, Post, PostFails, ClientTypeOK, NoCall
  <1>2. c.item \in Items /\ c.ask \in Ask /\ \A j \in Items : statuses[j] \in Seq(Status)
    BY <1>1 DEF Call, ClientTypeOK
  <1>3. CASE GetPage(w)
    <2>1. CallOf(w, c.item)
      BY <1>1, <1>2, <1>3, ReadKeepsCall DEF GetPage
    <2> QED BY <1>1, <1>3, <2>1 DEF GetPage, ClientTypeOK
  <1>4. CASE GetPageFails(w)
    <2>1. CASE Returns(w)
      BY <1>4, <2>1, ReturnsEndsCall, FaultCounts, <1>1 DEF GetPageFails, ClientTypeOK
    <2>2. CASE Create(w, [c EXCEPT !.whole = FALSE])
      <3> DEFINE d == [c EXCEPT !.whole = FALSE]
      <3>1. d \in Call /\ d.item = c.item /\ d.ask = c.ask /\ d.ask.url \in {"", "log"}
        BY <1>1 DEF Call, Ask
      <3>2. \A url \in {"", "log"} : [d EXCEPT !.stage = "post", !.ask.url = url] \in Call
        BY <3>1 DEF Call, Ask
      <3>3. \A url \in {"", "log"} :
                [d EXCEPT !.stage = "post", !.ask.url = url].item = c.item
        BY <3>1 DEF Call
      <3> HIDE DEF d
      <3>4. CallOf(w, c.item)
        BY <2>2, <3>1, <3>2, <3>3 DEF Create, Posts, CallOf, d
      <3> QED BY <1>1, <1>4, <3>4, FaultCounts DEF GetPageFails, ClientTypeOK
    <2> QED BY <1>4, <2>1, <2>2 DEF GetPageFails
  <1>5. CASE Post(w)
    <2>1. <<c.ask>> \o statuses[c.item] \in Seq(Status)
      BY <1>2 DEF Status
    <2>2. Len(<<c.ask>> \o statuses[c.item]) = Len(statuses[c.item]) + 1
      BY <1>2
    <2>3. Room[c.item] \in Nat /\ Len(statuses[c.item]) \in Nat
      BY <1>2, PageAssumption
    <2>4. CallOf(w, c.item)
      BY <1>5, ReturnsEndsCall DEF Post
    <2>5. statuses' \in [Items -> Seq(Status)]
      BY <1>2, <1>5, <2>1 DEF Post, ClientTypeOK
    <2>6. \A i \in Items : Len(statuses'[i]) <= Room[i]
      BY <1>2, <1>5, <2>2, <2>3 DEF Post, ClientTypeOK
    <2> QED BY <1>1, <1>5, <2>4, <2>5, <2>6 DEF Post, ClientTypeOK
  <1>6. CASE PostFails(w)
    BY <1>1, <1>6, ReturnsEndsCall, FaultCounts DEF PostFails, ClientTypeOK
  <1> QED BY <1>3, <1>4, <1>5, <1>6 DEF Request, RequestFails

\* A status of another context is one more status, within GitHub's limit.
LEMMA OthersPostTypes ==
    ASSUME ClientTypeOK, NEW i \in Items, OthersPost(i)
    PROVE  ClientTypeOK'
  <1>1. <<Other>> \o statuses[i] \in Seq(Status)
    BY DEF Status, ClientTypeOK
  <1>2. Len(<<Other>> \o statuses[i]) = Len(statuses[i]) + 1 /\ Len(statuses[i]) \in Nat
    BY DEF ClientTypeOK
  <1>3. Room[i] \in Nat
    BY PageAssumption
  <1> QED BY <1>1, <1>2, <1>3 DEF OthersPost, ClientTypeOK

-----------------------------------------------------------------------------
(* The inductive invariant *)

InHand(w) == batch[w] \union {job[w]}

\* What a worker has in hand was its own when it listed.
Sharded ==
    \A w \in Workers : \A i \in Items \intersect InHand(w) :
        Hash[i] % deployments[listed[w]][w].size = deployments[listed[w]][w].index

\* Nothing is left to announce when the row itself is worked on.
ToldBeforeStart == \A w \in Workers : pc[w] # "queue" => told[w] = {}

IInv == TypeOK /\ ToldBeforeStart /\ Sharded

\* What changes when a call of w about i goes on: nobody else's call.
LEMMA CallOfTypes ==
    ASSUME TypeOK, NEW w \in Workers, NEW i \in Items, CallOf(w, i)
    PROVE  /\ call' \in [Workers -> Call \union {NoCall}]
           /\ call'[w] # NoCall => call'[w].item = i
           /\ \A x \in Workers : x # w => call'[x] = call[x]
  BY DEF CallOf, TypeOK, ClientTypeOK

\* A call about what the worker has in hand keeps the types, when nothing else moves.
LEMMA CallKeepsTypes ==
    ASSUME TypeOK, NEW w \in Workers, NEW i \in Items, i \in InHand(w), CallOf(w, i),
           job[w] # NoItem,
           statuses' \in [Items -> Seq(Status)],
           \A j \in Items : Len(statuses'[j]) <= Room[j],
           faults' \in 0..MaxFaults,
           UNCHANGED <<deployments, config, open, listed, type, batch, job, mixed>>,
           pc' \in [Workers -> {"next", "queue", "start", "reported"}],
           \A x \in Workers : pc'[x] = "next" <=> pc[x] = "next",
           told' \in [Workers -> SUBSET Items],
           \A x \in Workers : told'[x] \subseteq told[x]
    PROVE  TypeOK'
  <1>1. ClientTypeOK'
    BY CallOfTypes DEF ClientTypeOK
  <1>2. \A x \in Workers : call'[x] # NoCall =>
            job[x] # NoItem /\ call'[x].item \in batch[x] \union {job[x]}
    <2>1. call'[w] # NoCall => call'[w].item \in batch[w] \union {job[w]}
      BY CallOfTypes DEF InHand
    <2>2. ASSUME NEW x \in Workers, x # w, call'[x] # NoCall
          PROVE  job[x] # NoItem /\ call'[x].item \in batch[x] \union {job[x]}
      <3>1. call[x] # NoCall /\ call'[x] = call[x]
        BY <2>2, CallOfTypes
      <3> QED BY <3>1 DEF TypeOK
    <2> QED BY <2>1, <2>2
  <1> QED BY <1>1, <1>2 DEF TypeOK

\* Rows are only given up, unless the worker lists.
LEMMA HandsShrink ==
    ASSUME Sharded, deployments' = deployments,
           \A x \in Workers : \A i \in Items \intersect InHand(x)' :
               i \in InHand(x) /\ listed'[x] = listed[x]
    PROVE  Sharded'
  BY DEF Sharded

\* What list-branch-pr selects is the worker's, as its files are now.
LEMMA SelectionIsOwn ==
    ASSUME NEW w \in Workers, NEW page \in SUBSET open, NEW selected \in Selection(w, page)
    PROVE  /\ selected.type \in Types
           /\ selected.items \in SUBSET open
           /\ \A i \in selected.items : should_process(w, i)
  <1>1. \A t \in Types : \A i \in Grouped(w, t, page) : i \in open /\ should_process(w, i)
    BY DEF Grouped
  <1>2. CASE Grouped(w, "untested", page) # {}
    <2>1. selected = [type |-> "untested", items |-> Grouped(w, "untested", page)]
      BY <1>2 DEF Selection
    <2> QED BY <1>1, <2>1 DEF Types
  <1>3. CASE Grouped(w, "untested", page) = {}
    <2>1. \E t \in Types : \E i \in Grouped(w, t, page) : selected = [type |-> t, items |-> {i}]
      BY <1>3 DEF Selection, Types
    <2>2. PICK t \in Types : \E i \in Grouped(w, t, page) : selected = [type |-> t, items |-> {i}]
      BY <2>1
    <2>3. PICK i \in Grouped(w, t, page) : selected = [type |-> t, items |-> {i}]
      BY <2>2
    <2> QED BY <1>1, <2>3
  <1> QED BY <1>2, <1>3

-----------------------------------------------------------------------------
(* The steps *)

\* Nothing is in hand at first.
LEMMA InitIInv == ASSUME Init PROVE IInv
  <1>1. ClientTypeOK
    BY PageAssumption, BoundAssumption DEF Init, ClientInit, ClientTypeOK
  <1>2. TypeOK
    BY <1>1, ItemAssumption DEF Init, ClientInit, TypeOK, Types
  <1> QED BY <1>2, ItemAssumption DEF Init, IInv, ToldBeforeStart, Sharded, InHand

\* A listing hands out what hashes to the index listed for.
LEMMA ListKeeps ==
    ASSUME IInv, NEW w \in Workers, List(w)
    PROVE  IInv'
  <1>0. PICK page \in SUBSET open : \E selected \in Selection(w, page) :
            /\ type' = [type EXCEPT ![w] = selected.type]
            /\ batch' = [batch EXCEPT ![w] = selected.items]
    BY DEF List, Pages
  <1>1. PICK selected \in Selection(w, page) :
            /\ type' = [type EXCEPT ![w] = selected.type]
            /\ batch' = [batch EXCEPT ![w] = selected.items]
    BY <1>0
  <1>2. selected.type \in Types /\ selected.items \in SUBSET open
        /\ \A i \in selected.items : should_process(w, i)
    BY SelectionIsOwn
  <1>3. job[w] = NoItem /\ told[w] = {} /\ call[w] = NoCall
    BY DEF List, IInv, TypeOK, ToldBeforeStart
  <1>4. TypeOK'
    <2>1. ClientTypeOK'
      BY DEF List, clientVars, ClientTypeOK, IInv, TypeOK
    <2>2. mixed' \subseteq Workers
      BY DEF List, Meets, Strangers, IInv, TypeOK
    <2>3. batch' \in [Workers -> SUBSET Items] /\ type' \in [Workers -> Types]
          /\ listed' \in [Workers -> {1, 2}]
      BY <1>1, <1>2 DEF List, IInv, TypeOK
    <2>4. ASSUME NEW x \in Workers
          PROVE  /\ told'[x] \subseteq batch'[x]
                 /\ job'[x] \notin batch'[x]
                 /\ pc'[x] = "next" <=> job'[x] = NoItem
                 /\ call'[x] # NoCall =>
                        job'[x] # NoItem /\ call'[x].item \in batch'[x] \union {job'[x]}
      <3>1. CASE x = w
        BY <1>1, <1>2, <1>3, <3>1, ItemAssumption DEF List, clientVars, IInv, TypeOK
      <3>2. CASE x # w
        BY <1>1, <3>2 DEF List, clientVars, IInv, TypeOK
      <3> QED BY <3>1, <3>2
    <2> QED BY <2>1, <2>2, <2>3, <2>4 DEF List, IInv, TypeOK
  <1>5. ToldBeforeStart'
    BY DEF List, IInv, ToldBeforeStart
  <1>6. Sharded'
    <2>1. ASSUME NEW x \in Workers, NEW i \in Items \intersect InHand(x)'
          PROVE  Hash[i] % deployments'[listed'[x]][x].size = deployments'[listed'[x]][x].index
      <3>1. CASE x = w
        <4>1. i \in selected.items
          BY <1>1, <1>3, <3>1, <2>1, ItemAssumption DEF List, InHand, IInv, TypeOK
        <4>2. listed'[w] = config[w] /\ deployments' = deployments
          BY DEF List, IInv, TypeOK
        <4> QED BY <1>2, <3>1, <4>1, <4>2 DEF should_process
      <3>2. CASE x # w
        <4>1. i \in InHand(x) /\ listed'[x] = listed[x] /\ deployments' = deployments
          BY <1>1, <3>2, <2>1 DEF List, InHand, IInv, TypeOK
        <4> QED BY <2>1, <4>1 DEF IInv, Sharded
      <3> QED BY <3>1, <3>2
    <2> QED BY <2>1 DEF Sharded
  <1> QED BY <1>4, <1>5, <1>6 DEF IInv

\* A row moves from the batch into work, and the rest of the batch to be announced.
LEMMA NextRowKeeps ==
    ASSUME IInv, NEW w \in Workers, NextRow(w)
    PROVE  IInv'
  <1>1. PICK i \in Firsts(batch[w]) :
            /\ job' = [job EXCEPT ![w] = i]
            /\ batch' = [batch EXCEPT ![w] = @ \ {i}]
            /\ told' = [told EXCEPT ![w] = batch[w] \ {i}]
    BY DEF NextRow
  <1>2. i \in batch[w] /\ i \in Items /\ i # NoItem
    BY ItemAssumption DEF Firsts, IInv, TypeOK
  <1>3. call[w] = NoCall
    BY DEF NextRow, Between, Idle, IInv, TypeOK
  <1>4. TypeOK'
    <2>1. ClientTypeOK'
      BY DEF NextRow, clientVars, ClientTypeOK, IInv, TypeOK
    <2>2. ASSUME NEW x \in Workers
          PROVE  /\ told'[x] \subseteq batch'[x]
                 /\ job'[x] \notin batch'[x]
                 /\ pc'[x] = "next" <=> job'[x] = NoItem
                 /\ call'[x] # NoCall =>
                        job'[x] # NoItem /\ call'[x].item \in batch'[x] \union {job'[x]}
      <3>1. CASE x = w
        BY <1>1, <1>2, <1>3, <3>1 DEF NextRow, clientVars, IInv, TypeOK
      <3>2. CASE x # w
        BY <1>1, <3>2 DEF NextRow, clientVars, IInv, TypeOK
      <3> QED BY <3>1, <3>2
    <2> QED BY <1>1, <1>2, <2>1, <2>2 DEF NextRow, IInv, TypeOK
  <1>5. ToldBeforeStart'
    BY <1>1 DEF NextRow, IInv, TypeOK, ToldBeforeStart
  <1>6. Sharded'
    BY <1>1, <1>2, HandsShrink DEF NextRow, InHand, IInv, TypeOK
  <1> QED BY <1>4, <1>5, <1>6 DEF IInv

\* A row that is skipped only leaves the batch.
LEMMA SkipRowKeeps ==
    ASSUME IInv, NEW w \in Workers, SkipRow(w)
    PROVE  IInv'
  <1>1. PICK i \in Firsts(batch[w]) : batch' = [batch EXCEPT ![w] = @ \ {i}]
    BY DEF SkipRow
  <1>2. call[w] = NoCall /\ told[w] = {}
    BY DEF SkipRow, Between, Idle, IInv, TypeOK, ToldBeforeStart
  <1>3. TypeOK'
    <2>1. ClientTypeOK'
      BY FaultCounts DEF SkipRow, ClientTypeOK, IInv, TypeOK
    <2>2. ASSUME NEW x \in Workers
          PROVE  /\ told'[x] \subseteq batch'[x]
                 /\ job'[x] \notin batch'[x]
                 /\ call'[x] # NoCall =>
                        job'[x] # NoItem /\ call'[x].item \in batch'[x] \union {job'[x]}
      <3>1. CASE x = w
        BY <1>1, <1>2, <3>1 DEF SkipRow, IInv, TypeOK
      <3>2. CASE x # w
        BY <1>1, <3>2 DEF SkipRow, IInv, TypeOK
      <3> QED BY <3>1, <3>2
    <2> QED BY <1>1, <2>1, <2>2 DEF SkipRow, IInv, TypeOK
  <1>4. ToldBeforeStart'
    BY DEF SkipRow, IInv, ToldBeforeStart
  <1>5. Sharded'
    BY <1>1, HandsShrink DEF SkipRow, InHand, IInv, TypeOK
  <1> QED BY <1>3, <1>4, <1>5 DEF IInv

\* A call about what is in hand keeps the rest of the invariant, too.
LEMMA CallKeeps ==
    ASSUME IInv, NEW w \in Workers, NEW i \in Items, i \in InHand(w), CallOf(w, i),
           job[w] # NoItem,
           statuses' \in [Items -> Seq(Status)],
           \A j \in Items : Len(statuses'[j]) <= Room[j],
           faults' \in 0..MaxFaults,
           UNCHANGED <<deployments, config, open, listed, type, batch, job, mixed>>,
           pc' \in [Workers -> {"next", "queue", "start", "reported"}],
           \A x \in Workers : pc'[x] = "next" <=> pc[x] = "next",
           told' \in [Workers -> SUBSET Items],
           \A x \in Workers : told'[x] \subseteq told[x],
           \A x \in Workers : pc'[x] # "queue" => pc[x] # "queue" \/ told[x] = {}
    PROVE  IInv'
  <1>1. TypeOK'
    BY CallKeepsTypes DEF IInv
  <1>2. ToldBeforeStart'
    BY DEF IInv, ToldBeforeStart
  <1>3. Sharded'
    BY HandsShrink DEF IInv, InHand
  <1> QED BY <1>1, <1>2, <1>3 DEF IInv

\* What a worker says it is doing, and the verdicts, are statuses.
LEMMA AskTypes ==
    ASSUME NEW w \in Workers
    PROVE  /\ \A text \in {"queued", "started"} :
                  [state |-> "pending", url |-> "", text |-> Says(w, text)] \in Ask
           /\ [state |-> "error", url |-> "", text |-> Says(w, "rechecking")] \in Ask
           /\ \A state \in {"success", "error"} :
                  [state |-> state, url |-> "log", text |-> NoText] \in Ask
  BY DEF Ask, Texts, Says

\* An announcement is about a row of the batch.
LEMMA AnnounceKeeps ==
    ASSUME IInv, NEW w \in Workers, Announce(w)
    PROVE  IInv'
  <1>1. PICK i \in Firsts(told[w]) :
            /\ SetStatus(w, i, [state |-> "pending", url |-> "", text |-> Says(w, "queued")],
                         FALSE)
            /\ told' = [told EXCEPT ![w] = @ \ {i}]
    BY DEF Announce
  <1>2. i \in Items /\ i \in InHand(w) /\ job[w] # NoItem
    BY DEF Announce, Firsts, InHand, IInv, TypeOK
  <1>3. CallOf(w, i) /\ faults' \in 0..MaxFaults
    BY <1>1, <1>2, AskTypes, SetStatusCalls DEF IInv, TypeOK
  <1>4. statuses' \in [Items -> Seq(Status)] /\ \A j \in Items : Len(statuses'[j]) <= Room[j]
    BY DEF Announce, IInv, TypeOK, ClientTypeOK
  <1>5. told' \in [Workers -> SUBSET Items] /\ \A x \in Workers : told'[x] \subseteq told[x]
    BY <1>1 DEF IInv, TypeOK
  <1>6. pc' = pc /\ pc' \in [Workers -> {"next", "queue", "start", "reported"}]
        /\ UNCHANGED <<deployments, config, open, listed, type, batch, job, mixed>>
    BY DEF Announce, IInv, TypeOK
  <1> QED BY <1>2, <1>3, <1>4, <1>5, <1>6, CallKeeps DEF IInv, ToldBeforeStart

\* The first status of a row comes when nothing is left to announce.
LEMMA StartKeeps ==
    ASSUME IInv, NEW w \in Workers, Start(w)
    PROVE  IInv'
  <1>1. job[w] \in Items /\ job[w] # NoItem /\ job[w] \in InHand(w)
    BY DEF Start, InHand, IInv, TypeOK
  <1>2. CallOf(w, job[w]) /\ faults' \in 0..MaxFaults
    <2>1. CASE type[w] = "untested"
      BY <1>1, <2>1, AskTypes, SetStatusCalls DEF Start, IInv, TypeOK
    <2>2. CASE type[w] = "failed"
      BY <1>1, <2>2, AskTypes, SetStatusCalls DEF Start, IInv, TypeOK
    <2>3. CASE type[w] \notin {"untested", "failed"}
      <3>1. call' = call /\ faults' = faults /\ call[w] = NoCall
        BY <2>3 DEF Start, Idle
      <3>2. Returns(w)
        BY <3>1 DEF Returns, IInv, TypeOK, ClientTypeOK
      <3> QED BY <3>1, <3>2, ReturnsEndsCall DEF IInv, TypeOK, ClientTypeOK
    <2> QED BY <2>1, <2>2, <2>3
  <1>3. statuses' \in [Items -> Seq(Status)] /\ \A j \in Items : Len(statuses'[j]) <= Room[j]
    BY DEF Start, IInv, TypeOK, ClientTypeOK
  <1>4. /\ pc' \in [Workers -> {"next", "queue", "start", "reported"}]
        /\ \A x \in Workers : pc'[x] = "next" <=> pc[x] = "next"
        /\ \A x \in Workers : pc'[x] # "queue" => pc[x] # "queue" \/ told[x] = {}
    BY DEF Start, IInv, TypeOK
  <1>5. told' = told /\ told' \in [Workers -> SUBSET Items]
        /\ UNCHANGED <<deployments, config, open, listed, type, batch, job, mixed>>
    BY DEF Start, IInv, TypeOK
  <1> QED BY <1>1, <1>2, <1>3, <1>4, <1>5, CallKeeps

\* The verdict is about the row.
LEMMA VerdictKeeps ==
    ASSUME IInv, NEW w \in Workers, Verdict(w)
    PROVE  IInv'
  <1>1. job[w] \in Items /\ job[w] # NoItem /\ job[w] \in InHand(w)
    BY DEF Verdict, InHand, IInv, TypeOK
  <1>2. CallOf(w, job[w]) /\ faults' \in 0..MaxFaults
    BY <1>1, AskTypes, SetStatusCalls DEF Verdict, IInv, TypeOK
  <1>3. statuses' \in [Items -> Seq(Status)] /\ \A j \in Items : Len(statuses'[j]) <= Room[j]
    BY DEF Verdict, IInv, TypeOK, ClientTypeOK
  <1>4. /\ pc' \in [Workers -> {"next", "queue", "start", "reported"}]
        /\ \A x \in Workers : pc'[x] = "next" <=> pc[x] = "next"
        /\ \A x \in Workers : pc'[x] # "queue" => pc[x] # "queue" \/ told[x] = {}
    BY DEF Verdict, IInv, TypeOK
  <1>5. told' = told /\ told' \in [Workers -> SUBSET Items]
        /\ UNCHANGED <<deployments, config, open, listed, type, batch, job, mixed>>
    BY DEF Verdict, IInv, TypeOK
  <1> QED BY <1>1, <1>2, <1>3, <1>4, <1>5, CallKeeps

\* So is every further request of a call.
LEMMA RequestKeeps ==
    ASSUME IInv, NEW w \in Workers, Request(w) \/ RequestFails(w),
           UNCHANGED <<deployments, config, open, loopVars>>
    PROVE  IInv'
  <1>1. /\ call[w] \in Call
        /\ CallOf(w, call[w].item)
        /\ statuses' \in [Items -> Seq(Status)]
        /\ \A i \in Items : Len(statuses'[i]) <= Room[i]
        /\ faults' \in 0..MaxFaults
    BY RequestKeepsCall DEF IInv, TypeOK
  <1>2. call[w] # NoCall /\ call[w].item \in Items
    BY <1>1, ItemAssumption DEF Call, NoCall
  <1>3. call[w].item \in InHand(w) /\ job[w] # NoItem
    BY <1>2 DEF InHand, IInv, TypeOK
  <1>4. /\ pc' = pc /\ told' = told
        /\ pc' \in [Workers -> {"next", "queue", "start", "reported"}]
        /\ told' \in [Workers -> SUBSET Items]
        /\ UNCHANGED <<deployments, config, open, listed, type, batch, job, mixed>>
    BY DEF loopVars, IInv, TypeOK
  <1> QED BY <1>1, <1>2, <1>3, <1>4, CallKeeps

\* A worker that forgets has nothing in hand.
LEMMA ForgetsKeeps ==
    ASSUME IInv, NEW w \in Workers, Forgets(w), call' \in [Workers -> Call \union {NoCall}],
           call'[w] = NoCall, \A x \in Workers : x # w => call'[x] = call[x],
           faults' \in 0..MaxFaults, UNCHANGED <<statuses, deployments, config, open>>
    PROVE  IInv'
  <1>1. ClientTypeOK'
    BY DEF ClientTypeOK, IInv, TypeOK
  <1>2. ASSUME NEW x \in Workers
        PROVE  /\ told'[x] \subseteq batch'[x]
               /\ job'[x] \notin batch'[x]
               /\ pc'[x] = "next" <=> job'[x] = NoItem
               /\ call'[x] # NoCall =>
                      job'[x] # NoItem /\ call'[x].item \in batch'[x] \union {job'[x]}
    <2>1. CASE x = w
      BY <2>1 DEF Forgets, IInv, TypeOK
    <2>2. CASE x # w
      BY <2>2 DEF Forgets, IInv, TypeOK
    <2> QED BY <2>1, <2>2
  <1>3. TypeOK'
    BY <1>1, <1>2 DEF Forgets, IInv, TypeOK, Types
  <1>4. ToldBeforeStart'
    BY DEF Forgets, IInv, TypeOK, ToldBeforeStart
  <1>5. Sharded'
    BY HandsShrink, ItemAssumption DEF Forgets, InHand, IInv, TypeOK
  <1> QED BY <1>3, <1>4, <1>5 DEF IInv

\* A pull request that leaves, a status of others or a rewritten file take nothing in hand.
LEMMA AroundKeeps ==
    ASSUME IInv, ClientTypeOK', call' = call, open' \subseteq open,
           config' \in [Workers -> {1, 2}], UNCHANGED <<deployments, loopVars>>
    PROVE  IInv'
  <1>1. TypeOK'
    BY DEF loopVars, IInv, TypeOK
  <1>2. ToldBeforeStart'
    BY DEF loopVars, IInv, ToldBeforeStart
  <1>3. Sharded'
    BY DEF loopVars, IInv, Sharded, InHand
  <1> QED BY <1>1, <1>2, <1>3 DEF IInv

-----------------------------------------------------------------------------
(* Every behaviour *)

\* The invariant is inductive.
LEMMA NextKeepsIInv ==
    ASSUME IInv, [Next]_vars
    PROVE  IInv'
  <1>1. ASSUME NEW w \in Workers, Builder(w)
        PROVE  IInv'
    <2>1. CASE BatchDone(w)
      <3>1. call' = call /\ call[w] = NoCall
        BY <2>1 DEF BatchDone, clientVars, Idle
      <3> QED BY <2>1, <3>1, ForgetsKeeps DEF BatchDone, clientVars, IInv, TypeOK, ClientTypeOK
    <2>2. CASE Talk(w)
      BY <2>2, RequestKeeps DEF Talk
    <2> QED BY <1>1, <2>1, <2>2, ListKeeps, NextRowKeeps, AnnounceKeeps, StartKeeps,
               VerdictKeeps DEF Builder
  <1>2. ASSUME NEW w \in Workers, Reconfigure(w)
        PROVE  IInv'
    BY <1>2, AroundKeeps DEF Reconfigure, clientVars, IInv, TypeOK, ClientTypeOK
  <1>3. ASSUME NEW w \in Workers, Crash(w)
        PROVE  IInv'
    <2>1. call' \in [Workers -> Call \union {NoCall}] /\ call'[w] = NoCall
          /\ \A x \in Workers : x # w => call'[x] = call[x]
      BY <1>3 DEF Crash, Returns, IInv, TypeOK, ClientTypeOK
    <2>2. faults' \in 0..MaxFaults
      BY <1>3, FaultCounts DEF Crash, IInv, TypeOK, ClientTypeOK
    <2> QED BY <1>3, <2>1, <2>2, ForgetsKeeps DEF Crash
  <1>4. ASSUME NEW w \in Workers,
               RequestFails(w) /\ UNCHANGED <<deployments, config, open, loopVars>>
        PROVE  IInv'
    BY <1>4, RequestKeeps
  <1>5. ASSUME NEW i \in Items, Leave(i)
        PROVE  IInv'
    <2>1. ClientTypeOK' /\ call' = call
      BY <1>5, FaultCounts DEF Leave, IInv, TypeOK, ClientTypeOK
    <2> QED BY <1>5, <2>1, AroundKeeps DEF Leave, IInv, TypeOK
  <1>6. ASSUME NEW i \in Items, OthersPost(i) /\ UNCHANGED <<deployments, config, open, loopVars>>
        PROVE  IInv'
    <2>1. ClientTypeOK' /\ call' = call
      BY <1>6, OthersPostTypes DEF OthersPost, IInv, TypeOK
    <2> QED BY <1>6, <2>1, AroundKeeps DEF IInv, TypeOK
  <1>7. CASE UNCHANGED vars
    BY <1>7, AroundKeeps DEF vars, clientVars, IInv, TypeOK, ClientTypeOK
  <1> QED BY <1>1, <1>2, <1>3, <1>4, <1>5, <1>6, <1>7, SkipRowKeeps DEF Next

\* The invariant holds in every reachable state.
LEMMA IInvHolds == Spec => []IInv
  <1>1. Init => IInv
    BY InitIInv
  <1>2. IInv /\ [Next]_vars => IInv'
    BY NextKeepsIInv
  <1> QED BY <1>1, <1>2, PTL DEF Spec

\* In every reachable state the types are right: in particular, no worker is in the middle of a
\* call about a commit that is neither its row nor in the rest of its batch, and GitHub's limit
\* of statuses is never exceeded.
THEOREM TypeCorrect == Spec => []TypeOK
  <1>1. IInv => TypeOK
    BY DEF IInv
  <1> QED BY <1>1, IInvHolds, PTL

\* In every reachable state, two workers with the same commit in hand listed it under
\* different configurations of the pool (should_process of list-branch-pr).
THEOREM HashingExcludes == Spec => []OneBuilderPerShard
  <1>1. IInv => OneBuilderPerShard
    <2> SUFFICES ASSUME IInv, NEW v \in Workers, NEW w \in Workers, NEW i \in Items,
                        v # w, i \in InHand(v), i \in InHand(w), listed[v] = listed[w]
                 PROVE  FALSE
      BY DEF OneBuilderPerShard, InHand
    <2> DEFINE pool == deployments[listed[v]]
    <2>1. Hash[i] % pool[v].size = pool[v].index
      BY DEF IInv, Sharded
    <2>2. Hash[i] % pool[w].size = pool[w].index
      BY DEF IInv, Sharded
    <2>3. pool[v].size = pool[w].size /\ pool[v].index # pool[w].index
      BY PoolAssumption DEF IInv, TypeOK
    <2> HIDE DEF pool
    <2> QED BY <2>1, <2>2, <2>3
  <1> QED BY <1>1, IInvHolds, PTL

-----------------------------------------------------------------------------
(* What a call knows of the statuses *)

\* Pages are counted up.
LEMMA PageNumbers ==
    ASSUME NEW k \in Nat, NEW m \in Nat, NEW n \in Nat \ {0}, NEW p \in Nat
    PROVE  /\ k \div n \in Nat
           /\ k <= m => k \div n <= m \div n
           /\ k < p * n => k \div n < p
  OBVIOUS

\* The list after one more status.
LEMMA OneMoreStatus ==
    ASSUME NEW list \in Seq(Status), NEW s \in Status
    PROVE  LET new == <<s>> \o list IN
           /\ new \in Seq(Status) /\ new[1] = s /\ 1 \in DOMAIN new
           /\ \A k \in DOMAIN list : k + 1 \in DOMAIN new /\ new[k + 1] = list[k]
           /\ \A k \in DOMAIN new : k = 1 \/ (k - 1 \in DOMAIN list /\ new[k] = list[k - 1])
  OBVIOUS

\* There is only one newest.
LEMMA NewestIs ==
    ASSUME NEW S \in SUBSET Nat, NEW k \in S, \A m \in S : k <= m
    PROVE  Newest(S) = k
  <1>1. Newest(S) \in S /\ Newest(S) <= k /\ k <= Newest(S)
    BY NewestExists
  <1>2. Newest(S) \in Nat /\ k \in Nat
    BY <1>1
  <1> QED BY <1>1, <1>2

\* The pages still to be read hold all the statuses of the context.
Unread(c) == \A k \in Own(statuses[c.item]) : (k - 1) \div PageSize >= c.page - 1

\* What is about to be posted is news, and keeps the URL it should.
News(c) ==
    Checked(c.item) => /\ c.ask # Latest(c.item)
                       /\ c.keep => c.ask.url = Latest(c.item).url

Informed(c) == (c.stage = "get" => Unread(c)) /\ (c.stage = "post" => News(c))

\* A commit that has no verdict.
Fresh(i) == Checked(i) => Latest(i).state = "pending"

\* Nobody sets the status of the context.
Quiet(i) == statuses'[i] = statuses[i] \/ statuses'[i] = <<Other>> \o statuses[i]

\* Statuses of other contexts change the positions of a context's own, and
\* neither whether there is one nor what it says.
LEMMA QuietKeeps ==
    ASSUME NEW i \in Items, statuses[i] \in Seq(Status), Quiet(i)
    PROVE  /\ Checked(i)' <=> Checked(i)
           /\ Checked(i) => Latest(i)' = Latest(i)
           /\ \A k \in Own(statuses'[i]) : \E m \in Own(statuses[i]) : m <= k
  <1> DEFINE list == statuses[i]
             new == statuses'[i]
  <1>1. CASE new = list
    BY <1>1 DEF Checked, Latest, Own
  <1>2. CASE new = <<Other>> \o list
    <2>1. /\ Other \in Status /\ new[1] = Other /\ 1 \in DOMAIN new
          /\ \A k \in DOMAIN list : k + 1 \in DOMAIN new /\ new[k + 1] = list[k]
          /\ \A k \in DOMAIN new : k = 1 \/ (k - 1 \in DOMAIN list /\ new[k] = list[k - 1])
          /\ DOMAIN list \subseteq Nat /\ DOMAIN new \subseteq Nat
      <3>1. Other \in Status
        BY DEF Status
      <3>2. new \in Seq(Status)
        BY <1>2, <3>1, OneMoreStatus
      <3> QED BY <1>2, <3>1, <3>2, OneMoreStatus
    <2> HIDE DEF list, new
    <2>2. \A k \in Own(list) : k + 1 \in Own(new) /\ new[k + 1] = list[k]
      BY <2>1 DEF Own
    <2>3. \A k \in Own(new) : k - 1 \in Own(list) /\ k \in Nat /\ k - 1 \in Nat
      BY <2>1 DEF Own
    <2>4. Own(list) \in SUBSET Nat /\ Own(new) \in SUBSET Nat
      BY <2>1 DEF Own
    <2>5. ASSUME Own(list) # {}
          PROVE  new[Newest(Own(new))] = list[Newest(Own(list))]
      <3> DEFINE n == Newest(Own(list))
      <3>1. n \in Own(list) /\ \A m \in Own(list) : n <= m
        BY <2>4, <2>5, NewestExists
      <3> HIDE DEF n
      <3>2. n + 1 \in Own(new) /\ \A m \in Own(new) : n + 1 <= m
        BY <2>2, <2>3, <2>4, <3>1
      <3>3. Newest(Own(new)) = n + 1
        BY <2>4, <3>2, NewestIs
      <3> QED BY <2>2, <3>1, <3>3 DEF n
    <2>6. Own(new) = {} <=> Own(list) = {}
      BY <2>2, <2>3
    <2>7. \A k \in Own(new) : \E m \in Own(list) : m <= k
      BY <2>3
    <2> QED BY <2>5, <2>6, <2>7 DEF Checked, Latest, list, new
  <1> QED BY <1>1, <1>2 DEF Quiet

\* Statuses of other contexts leave a call as informed as it was: what it
\* has not read yet only moves further back.
LEMMA QuietKeepsCall ==
    ASSUME NEW c \in Call, statuses[c.item] \in Seq(Status), Quiet(c.item), Informed(c)
    PROVE  Informed(c)'
  <1>1. c.item \in Items /\ c.page \in Nat \ {0}
    BY DEF Call
  <1>2. CASE c.stage = "get"
    <2>1. ASSUME NEW k \in Own(statuses'[c.item]) PROVE (k - 1) \div PageSize >= c.page - 1
      <3>1. PICK m \in Own(statuses[c.item]) : m <= k
        BY <1>1, QuietKeeps
      <3>2. (m - 1) \div PageSize >= c.page - 1
        BY <1>2 DEF Informed, Unread
      <3>3. m \in Nat \ {0} /\ k \in Nat \ {0}
        <4>1. statuses'[c.item] \in Seq(Status)
          <5>1. Other \in Status
            BY DEF Status
          <5>2. <<Other>> \o statuses[c.item] \in Seq(Status)
            BY <5>1
          <5> QED BY <5>2 DEF Quiet
        <4> QED BY <4>1 DEF Own
      <3>4. /\ m - 1 \in Nat /\ k - 1 \in Nat /\ m - 1 <= k - 1
        BY <3>1, <3>3
      <3>5. /\ (m - 1) \div PageSize \in Nat /\ (k - 1) \div PageSize \in Nat
            /\ (m - 1) \div PageSize <= (k - 1) \div PageSize
        BY <3>4, PageNumbers, PageAssumption
      <3> QED BY <1>1, <3>2, <3>5
    <2> QED BY <1>2, <2>1 DEF Informed, Unread
  <1>3. CASE c.stage # "get"
    BY <1>1, <1>3, QuietKeeps DEF Informed, News
  <1> QED BY <1>2, <1>3

\* A status that is set is the latest.
LEMMA PostedIsLatest ==
    ASSUME NEW i \in Items, NEW ask \in Ask, statuses[i] \in Seq(Status),
           statuses'[i] = <<ask>> \o statuses[i]
    PROVE  Checked(i)' /\ Latest(i)' = ask
  <1> DEFINE new == statuses'[i]
  <1>1. ask \in Status /\ ask # Other
    <2>1. ask.state \in {"pending", "success", "error"}
      BY DEF Ask
    <2>2. Other.state = "other"
      BY DEF Other
    <2> QED BY <2>1, <2>2 DEF Status
  <1>2. new \in Seq(Status) /\ new[1] = ask /\ 1 \in DOMAIN new
    BY <1>1, OneMoreStatus
  <1>3. 1 \in Own(new) /\ Own(new) \in SUBSET Nat /\ \A m \in Own(new) : 1 <= m
    BY <1>1, <1>2 DEF Own
  <1>4. Newest(Own(new)) = 1
    BY <1>3, NewestIs
  <1> QED BY <1>2, <1>3, <1>4 DEF Checked, Latest

\* Two stages of one call.
SameAim(d, c) ==
    /\ d.item = c.item /\ d.keep = c.keep /\ d.whole = c.whole
    /\ d.ask.text = c.ask.text /\ d.ask.state = c.ask.state

\* What is posted in the end.
WillPost(d, c, url) == SameAim(d, c) /\ d.ask.url = url /\ d.stage = "post"
GoesOn(w, d) == call' = [call EXCEPT ![w] = d]

\* What is posted has the aim of the call.
LEMMA PostsKeepsAim ==
    ASSUME NEW w, NEW c \in Call, NEW url \in {"", "log"}, Posts(w, c, url)
    PROVE  \E d \in Call : GoesOn(w, d) /\ WillPost(d, c, url)
  <1> DEFINE d == [c EXCEPT !.stage = "post", !.ask.url = url]
  <1>1. c.ask \in Ask
    BY DEF Call
  <1>2. /\ [c.ask EXCEPT !.url = url] \in Ask
        /\ [c.ask EXCEPT !.url = url].text = c.ask.text
        /\ [c.ask EXCEPT !.url = url].state = c.ask.state
    BY <1>1 DEF Ask
  <1>3. /\ d.item = c.item /\ d.keep = c.keep /\ d.whole = c.whole
        /\ d.ask = [c.ask EXCEPT !.url = url] /\ d.stage = "post"
        /\ d.ask.url = url
    BY <1>1 DEF Call, Ask
  <1>4. d \in Call
    BY <1>2 DEF Call
  <1>5. call' = [call EXCEPT ![w] = d]
    BY DEF Posts
  <1> HIDE DEF d
  <1> QED BY <1>2, <1>3, <1>4, <1>5 DEF SameAim, WillPost, GoesOn

\* A page that is read ends the call or keeps its aim.
LEMMA ReadKeepsAim ==
    ASSUME NEW w \in Workers, NEW c \in Call, statuses[c.item] \in Seq(Status), Read(w, c)
    PROVE  \E d \in Call \union {NoCall} :
              GoesOn(w, d) /\ (d # NoCall => SameAim(d, c))
  <1> DEFINE list == statuses[c.item]
             own == OnPage(list, c.page) \intersect Own(list)
  <1>1. c.item \in Items /\ list \in Seq(Status) /\ c.page \in Nat \ {0} /\ c.ask \in Ask
    BY DEF Call
  <1>2. CASE own # {} /\ Decide(w, c, list[Newest(own)])
    <2>1. list[Newest(own)] \in Ask
      <3>1. own \in SUBSET Nat
        BY <1>1 DEF Own
      <3>2. Newest(own) \in own
        BY <1>2, <3>1, NewestExists
      <3>3. Newest(own) \in DOMAIN list /\ list[Newest(own)] # Other
        BY <3>2 DEF Own
      <3>4. list[Newest(own)] \in Status
        BY <1>1, <3>3, InSequence
      <3> QED BY <3>3, <3>4 DEF Status
    <2>2. list[Newest(own)].url \in {"", "log"} /\ c.ask.url \in {"", "log"}
      BY <1>1, <2>1 DEF Ask
    <2>3. Returns(w) \/ \E url \in {"", "log"} : Posts(w, c, url)
      BY <1>2, <2>2 DEF Decide
    <2>4. Returns(w) => GoesOn(w, NoCall)
      BY DEF Returns, GoesOn
    <2> QED BY <2>3, <2>4, PostsKeepsAim DEF WillPost
  <1>3. CASE own = {} /\ HasNext(list, c.page) /\ call' = [call EXCEPT ![w] = [c EXCEPT !.page = @ + 1]]
    <2> DEFINE d == [c EXCEPT !.page = @ + 1]
    <2>1. d \in Call /\ SameAim(d, c)
      BY <1>1 DEF Call, SameAim
    <2>2. GoesOn(w, d)
      BY <1>3 DEF GoesOn
    <2> HIDE DEF d
    <2> QED BY <2>1, <2>2
  <1>4. CASE own = {} /\ ~HasNext(list, c.page) /\ Create(w, c)
    <2>1. \E url \in {"", "log"} : Posts(w, c, url)
      BY <1>1, <1>4 DEF Create, Ask
    <2> QED BY <2>1, PostsKeepsAim DEF WillPost
  <1> QED BY <1>2, <1>3, <1>4 DEF Read

\* A page that is read ends the call, leaves the rest of the pages unread,
\* or makes the call an informed one.
LEMMA ReadInforms ==
    ASSUME NEW w \in Workers, NEW c \in Call, statuses[c.item] \in Seq(Status),
           Unread(c), Read(w, c), c.stage = "get"
    PROVE  \E d \in Call \union {NoCall} :
              GoesOn(w, d) /\ (d # NoCall => Informed(d))
  <1> DEFINE list == statuses[c.item]
             onpage == OnPage(list, c.page)
             own == onpage \intersect Own(list)
  <1>1. /\ c.item \in Items /\ list \in Seq(Status) /\ c.page \in Nat \ {0}
        /\ c.ask \in Ask /\ c.keep \in BOOLEAN
    BY DEF Call
  <1>2. /\ Own(list) \in SUBSET (Nat \ {0}) /\ Len(list) \in Nat
        /\ \A k \in Own(list) : k <= Len(list) /\ list[k] \in Ask
    BY <1>1 DEF Own, Status
  <1>3. \A k \in Own(list) : /\ k - 1 \in Nat /\ (k - 1) \div PageSize \in Nat
                             /\ (k - 1) \div PageSize >= c.page - 1
                             /\ k \in onpage <=> (k - 1) \div PageSize = c.page - 1
    <2>1. \A k \in Own(list) : k - 1 \in Nat
      BY <1>2
    <2>2. \A k \in Own(list) : (k - 1) \div PageSize \in Nat
      BY <2>1, PageNumbers, PageAssumption
    <2>3. \A k \in Own(list) : (k - 1) \div PageSize >= c.page - 1
      BY DEF Unread
    <2>4. \A k \in Own(list) : k \in DOMAIN list
      BY DEF Own
    <2> QED BY <2>1, <2>2, <2>3, <2>4 DEF OnPage
  <1>4. ASSUME NEW url \in {"", "log"}, Posts(w, c, url)
        PROVE  \E d \in Call : GoesOn(w, d) /\ WillPost(d, c, url)
    BY <1>4, PostsKeepsAim
  <1>5. CASE own # {} /\ Decide(w, c, list[Newest(own)])
    <2> DEFINE n == Newest(own)
               s == list[n]
               url == IF c.keep THEN s.url ELSE c.ask.url
    <2>1. n \in own /\ \A m \in own : n <= m
      <3>1. own \in SUBSET Nat
        BY <1>2
      <3> HIDE DEF own
      <3> QED BY <1>5, <3>1, NewestExists
    <2>2. n \in Own(list) /\ n \in onpage
      BY <2>1
    <2>3. \A m \in Own(list) : n <= m
      <3> SUFFICES ASSUME NEW m \in Own(list), ~(n <= m) PROVE FALSE
        OBVIOUS
      <3>1. m - 1 <= n - 1 /\ m - 1 \in Nat /\ n - 1 \in Nat
        BY <1>2, <2>2
      <3>2. (m - 1) \div PageSize <= (n - 1) \div PageSize
        BY <3>1, PageNumbers, PageAssumption
      <3>3. (m - 1) \div PageSize = c.page - 1
        BY <1>1, <1>3, <2>2, <3>2
      <3>4. m \in own
        BY <1>3, <3>3
      <3> QED BY <2>1, <3>4
    <2>4. Newest(Own(list)) = n
      BY <1>2, <2>2, <2>3, NewestIs
    <2>5. Latest(c.item) = s /\ s \in Ask
      BY <1>2, <2>2, <2>4 DEF Latest
    <2>6. url \in {"", "log"}
      BY <1>1, <2>5 DEF Ask
    <2>7. CASE Matches(s, c)
      BY <1>5, <2>7 DEF Decide, Returns, GoesOn
    <2>8. CASE ~Matches(s, c)
      <3>1. Posts(w, c, url)
        BY <1>5, <2>8 DEF Decide
      <3> HIDE DEF url, s
      <3>2. PICK d \in Call : GoesOn(w, d) /\ WillPost(d, c, url)
        BY <1>4, <2>6, <3>1
      <3>3. d.ask.url = url /\ d.ask.text = c.ask.text /\ d.ask.state = c.ask.state
        BY <3>2 DEF WillPost, SameAim
      <3>4. d.item = c.item /\ d.stage = "post" /\ (d.keep => d.ask.url = s.url)
        BY <3>2, <3>3 DEF url, WillPost, SameAim
      <3>5. d.ask # s
        <4> SUFFICES ASSUME d.ask = s PROVE FALSE
          OBVIOUS
        <4>1. s.state = c.ask.state /\ s.text = c.ask.text /\ (c.keep \/ s.url = c.ask.url)
          BY <3>3 DEF url
        <4> QED BY <2>8, <4>1 DEF Matches
      <3>6. Informed(d)
        BY <2>5, <3>4, <3>5 DEF Informed, News
      <3> QED BY <3>2, <3>6
    <2> QED BY <2>7, <2>8
  <1>6. CASE own = {} /\ HasNext(list, c.page) /\ call' = [call EXCEPT ![w] = [c EXCEPT !.page = @ + 1]]
    <2> DEFINE d == [c EXCEPT !.page = @ + 1]
    <2>1. /\ d \in Call /\ d.item = c.item /\ d.page = c.page + 1 /\ d.ask = c.ask
          /\ d.keep = c.keep /\ d.whole = c.whole /\ d.stage = "get"
      BY <1>1 DEF Call
    <2>2. \A k \in Own(list) : (k - 1) \div PageSize >= d.page - 1
      <3> SUFFICES ASSUME NEW k \in Own(list) PROVE (k - 1) \div PageSize >= c.page
        BY <1>1, <2>1
      <3>1. (k - 1) \div PageSize # c.page - 1
        BY <1>3, <1>6
      <3> QED BY <1>1, <1>3, <3>1
    <2>3. GoesOn(w, d)
      BY <1>6 DEF GoesOn
    <2> HIDE DEF d
    <2>4. Informed(d)
      BY <2>1, <2>2 DEF Informed, Unread
    <2> QED BY <2>1, <2>3, <2>4
  <1>7. CASE own = {} /\ ~HasNext(list, c.page) /\ Create(w, c)
    <2>1. Own(list) = {}
      <3> SUFFICES ASSUME NEW k \in Own(list) PROVE FALSE
        OBVIOUS
      <3>1. k <= c.page * PageSize
        <4>1. Len(list) <= c.page * PageSize
          <5>1. c.page * PageSize \in Nat
            BY <1>1, PageAssumption
          <5> QED BY <1>2, <1>7, <5>1 DEF HasNext
        <4>2. c.page * PageSize \in Nat
          BY <1>1, PageAssumption
        <4> QED BY <1>2, <4>1, <4>2
      <3>2. k - 1 < c.page * PageSize
        <4>1. c.page * PageSize \in Nat
          BY <1>1, PageAssumption
        <4> QED BY <1>2, <3>1, <4>1
      <3>3. (k - 1) \div PageSize < c.page
        BY <1>1, <1>3, <3>2, PageNumbers, PageAssumption
      <3>4. (k - 1) \div PageSize = c.page - 1
        BY <1>1, <1>3, <3>3
      <3> QED BY <1>3, <1>7, <3>4
    <2>2. PICK url \in {"", "log"} : Posts(w, c, url)
      BY <1>1, <1>7 DEF Create, Ask
    <2>3. PICK d \in Call : GoesOn(w, d) /\ WillPost(d, c, url)
      BY <1>4, <2>2
    <2>4. Informed(d)
      BY <2>1, <2>3 DEF Informed, News, Checked, WillPost, SameAim
    <2> QED BY <2>3, <2>4
  <1> QED BY <1>5, <1>6, <1>7 DEF Read

-----------------------------------------------------------------------------
(* The invariant behind the statuses *)

\* A worker that has met nobody of another pool is at work with workers of its own.
Alone ==
    \A w \in Workers \ mixed : \A x \in Workers \ {w} :
        AtWork(w) /\ AtWork(x) => listed[x] = listed[w]

\* What a call is for follows from where its worker is.
Purpose(w) ==
    LET c == call[w]
    IN  /\ c.ask.text[1] = "rechecking" => c.keep
        /\ c.ask.state = "pending" <=> type[w] = "untested" /\ pc[w] # "reported"
        /\ pc[w] = "reported" => c.item = job[w]

CallOK(w) ==
    call[w] # NoCall => Purpose(w) /\ (w \notin mixed /\ call[w].whole => Informed(call[w]))

\* What the worker has yet to give a verdict.
ToBuild(w) == batch[w] \union (IF pc[w] = "reported" THEN {} ELSE {job[w]})
BatchOK(w) ==
    w \notin mixed /\ type[w] = "untested" => \A i \in Items \intersect ToBuild(w) : Fresh(i)

FInv == IInv /\ Alone /\ \A w \in Workers : CallOK(w) /\ BatchOK(w)

\* What a worker has in hand while it is alone, nobody else has.
LEMMA Exclusive ==
    ASSUME IInv, Alone, NEW w \in Workers, w \notin mixed, NEW x \in Workers, x # w,
           NEW i \in Items, i \in InHand(w)
    PROVE  i \notin InHand(x)
  <1> SUFFICES ASSUME i \in InHand(x) PROVE FALSE
    OBVIOUS
  <1>1. AtWork(w) /\ AtWork(x)
    BY ItemAssumption DEF AtWork, InHand
  <1>2. listed[x] = listed[w]
    BY <1>1 DEF Alone
  <1> DEFINE pool == deployments[listed[w]]
  <1>3. /\ Hash[i] % pool[w].size = pool[w].index
        /\ Hash[i] % pool[x].size = pool[x].index
    BY <1>2 DEF IInv, Sharded
  <1>4. pool[w].size = pool[x].size /\ pool[w].index # pool[x].index
    BY PoolAssumption DEF IInv, TypeOK
  <1> HIDE DEF pool
  <1> QED BY <1>3, <1>4

\* Workers stay together as long as they list nothing new.
LEMMA AloneStays ==
    ASSUME Alone,
           \A x \in Workers : AtWork(x)' => /\ AtWork(x) /\ listed'[x] = listed[x]
                                            /\ x \in mixed => x \in mixed'
    PROVE  Alone'
  BY DEF Alone

\* What a call is about is in hand, on a list of statuses.
LEMMA CallInHand ==
    ASSUME IInv, NEW w \in Workers, call[w] # NoCall
    PROVE  /\ call[w] \in Call /\ call[w].item \in Items /\ call[w].item \in InHand(w)
           /\ statuses[call[w].item] \in Seq(Status) /\ pc[w] # "next"
  <1>1. call[w] \in Call
    BY DEF IInv, TypeOK, ClientTypeOK
  <1>2. call[w].item \in Items
    BY <1>1 DEF Call
  <1> QED BY <1>1, <1>2 DEF IInv, TypeOK, ClientTypeOK, InHand

\* A worker that does nothing itself stays informed and its batch fresh,
\* while nobody sets the statuses of what it has in hand.
LEMMA OthersKeep ==
    ASSUME IInv, NEW x \in Workers, CallOK(x), BatchOK(x),
           call'[x] = call[x], type'[x] = type[x], pc'[x] = pc[x], job'[x] = job[x],
           batch'[x] = batch[x],
           x \notin mixed' => /\ x \notin mixed
                            /\ \A i \in Items : i \in InHand(x) => Quiet(i)
    PROVE  CallOK(x)' /\ BatchOK(x)'
  <1>1. CallOK(x)'
    <2> SUFFICES ASSUME call[x] # NoCall
                 PROVE  Purpose(x)' /\ (x \notin mixed' /\ call'[x].whole => Informed(call[x])')
      BY DEF CallOK
    <2>1. Purpose(x)'
      BY DEF CallOK, Purpose
    <2>2. ASSUME x \notin mixed', call'[x].whole PROVE Informed(call[x])'
      <3> DEFINE c == call[x]
      <3>1. c \in Call /\ statuses[c.item] \in Seq(Status) /\ Quiet(c.item) /\ Informed(c)
        BY <2>2, CallInHand DEF CallOK
      <3>2. \A d : d = c => Informed(d)'
        BY <3>1, QuietKeepsCall
      <3>3. \A d : d = call'[x] => Informed(d)'
        BY <3>2
      <3> QED BY <3>3 DEF Informed, Unread, News
    <2> QED BY <2>1, <2>2
  <1>2. BatchOK(x)'
    <2> SUFFICES ASSUME x \notin mixed', type[x] = "untested", NEW i \in Items,
                        i \in ToBuild(x)
                 PROVE  Fresh(i)'
      BY DEF BatchOK, ToBuild
    <2>1. Fresh(i) /\ Quiet(i) /\ statuses[i] \in Seq(Status)
      BY DEF BatchOK, ToBuild, InHand, IInv, TypeOK, ClientTypeOK
    <2> QED BY <2>1, QuietKeeps DEF Fresh
  <1> QED BY <1>1, <1>2

\* Between the calls of a worker, the batch says all there is to say.
LEMMA NoCallKeeps ==
    ASSUME NEW w \in Workers, call'[w] = NoCall, BatchOK(w)'
    PROVE  CallOK(w)' /\ BatchOK(w)'
  BY DEF CallOK

\* The latest status of the context is one of its own.
LEMMA LatestAsks ==
    ASSUME NEW i \in Items, statuses[i] \in Seq(Status), Checked(i)
    PROVE  Latest(i) \in Ask
  <1>1. Own(statuses[i]) \in SUBSET Nat /\ Own(statuses[i]) # {}
    BY DEF Own, Checked
  <1> DEFINE n == Newest(Own(statuses[i]))
  <1>2. n \in Own(statuses[i])
    BY <1>1, NewestExists
  <1> HIDE DEF n
  <1>3. n \in DOMAIN statuses[i] /\ statuses[i][n] # Other
    BY <1>2 DEF Own
  <1>4. statuses[i][n] \in Status
    BY <1>3, InSequence
  <1> QED BY <1>3, <1>4 DEF Latest, Status, n

\* A call that begins is for what it is begun for, and nothing is read yet.
LEMMA SetStatusAims ==
    ASSUME IInv, NEW w \in Workers, NEW i \in Items, NEW ask \in Ask, NEW keep \in BOOLEAN,
           SetStatus(w, i, ask, keep)
    PROVE  call'[w] # NoCall =>
               /\ call'[w].item = i /\ call'[w].keep = keep /\ call'[w].whole = TRUE
               /\ call'[w].ask.text = ask.text /\ call'[w].ask.state = ask.state
               /\ Informed(call'[w])
  <1> DEFINE c == [stage |-> "get", item |-> i, ask |-> ask, keep |-> keep, page |-> 1,
                   whole |-> TRUE]
  <1>1. /\ c \in Call /\ c.item = i /\ c.keep = keep /\ c.whole = TRUE /\ c.ask = ask
        /\ c.page = 1 /\ c.stage = "get"
    BY DEF Call
  <1>2. /\ statuses[i] \in Seq(Status) /\ call \in [Workers -> Call \union {NoCall}]
    BY DEF IInv, TypeOK, ClientTypeOK
  <1>3. Unread(c)
    <2>1. \A k \in Own(statuses[i]) : k - 1 \in Nat
      BY <1>2 DEF Own
    <2>2. \A k \in Own(statuses[i]) : (k - 1) \div PageSize \in Nat
      BY <2>1, PageNumbers, PageAssumption
    <2>3. \A k \in Own(statuses[i]) : (k - 1) \div PageSize >= 0
      BY <2>2
    <2> HIDE DEF c
    <2> QED BY <1>1, <2>3 DEF Unread
  <1>4. CASE Read(w, c)
    <2> HIDE DEF c
    <2>1. PICK d \in Call \union {NoCall} : GoesOn(w, d) /\ (d # NoCall => SameAim(d, c))
      BY <1>1, <1>2, <1>4, ReadKeepsAim
    <2>2. PICK e \in Call \union {NoCall} : GoesOn(w, e) /\ (e # NoCall => Informed(e))
      BY <1>1, <1>2, <1>3, <1>4, ReadInforms
    <2>3. call'[w] = d /\ call'[w] = e
      BY <1>2, <2>1, <2>2 DEF GoesOn
    <2> QED BY <1>1, <2>1, <2>2, <2>3 DEF SameAim
  <1>5. CASE Returns(w)
    BY <1>2, <1>5 DEF Returns
  <1> QED BY <1>4, <1>5 DEF SetStatus

\* A listing takes what has no verdict, and meets whoever is at work for another pool.
LEMMA ListKeepsFInv ==
    ASSUME FInv, NEW w \in Workers, List(w)
    PROVE  Alone' /\ \A x \in Workers : CallOK(x)' /\ BatchOK(x)'
  <1>0. PICK page \in SUBSET open : \E selected \in Selection(w, page) :
            /\ type' = [type EXCEPT ![w] = selected.type]
            /\ batch' = [batch EXCEPT ![w] = selected.items]
    BY DEF List, Pages
  <1>1. PICK selected \in Selection(w, page) :
            /\ type' = [type EXCEPT ![w] = selected.type]
            /\ batch' = [batch EXCEPT ![w] = selected.items]
    BY <1>0
  <1>2. /\ IInv /\ Alone /\ pc[w] = "next" /\ batch[w] = {} /\ job[w] = NoItem /\ call[w] = NoCall
        /\ statuses' = statuses /\ call' = call /\ pc' = pc /\ job' = job
        /\ listed' = [listed EXCEPT ![w] = config[w]] /\ Meets(w) /\ mixed \subseteq Workers
    BY DEF List, clientVars, FInv, IInv, TypeOK
  <1>3. ASSUME NEW x \in Workers, x # w
        PROVE  /\ batch'[x] = batch[x] /\ type'[x] = type[x] /\ listed'[x] = listed[x]
               /\ x \notin mixed' => x \notin mixed /\ x \notin Strangers(w)
    BY <1>1, <1>2, <1>3 DEF Meets, FInv, IInv, TypeOK
  <1>4. Alone'
    <2> SUFFICES ASSUME NEW v \in Workers, v \notin mixed', NEW x \in Workers, x # v,
                        AtWork(v)', AtWork(x)'
                 PROVE  listed'[x] = listed'[v]
      BY DEF Alone
    <2>1. listed'[w] = config[w]
      BY <1>2 DEF FInv, IInv, TypeOK
    <2>2. CASE v = w
      <3>1. Strangers(w) = {}
        BY <1>2, <2>2 DEF Meets
      <3>2. x # w /\ AtWork(x)
        BY <1>2, <1>3, <2>2 DEF AtWork
      <3>3. listed[x] = config[w]
        BY <3>1, <3>2 DEF Strangers
      <3> QED BY <1>3, <2>1, <2>2, <3>2, <3>3
    <2>3. CASE v # w
      <3>1. v \notin mixed /\ v \notin Strangers(w) /\ listed'[v] = listed[v] /\ AtWork(v)
        BY <1>2, <1>3, <2>3 DEF AtWork
      <3>2. CASE x = w
        <4>1. listed[v] = config[w]
          BY <2>3, <3>1 DEF Strangers
        <4> QED BY <2>1, <3>1, <3>2, <4>1
      <3>3. CASE x # w
        <4>1. AtWork(x) /\ listed'[x] = listed[x]
          BY <1>2, <1>3, <3>3 DEF AtWork
        <4> QED BY <1>2, <3>1, <4>1 DEF Alone
      <3> QED BY <3>2, <3>3
    <2> QED BY <2>2, <2>3
  <1>5. ASSUME NEW x \in Workers, x # w PROVE CallOK(x)' /\ BatchOK(x)'
    BY <1>2, <1>3, <1>5, OthersKeep DEF FInv, Quiet
  <1>6. CallOK(w)' /\ BatchOK(w)'
    <2>1. BatchOK(w)'
      <3> SUFFICES ASSUME type'[w] = "untested", NEW i \in Items, i \in ToBuild(w)'
                   PROVE  Fresh(i)'
        BY DEF BatchOK
      <3>1. i \in selected.items /\ selected.type = "untested"
        BY <1>1, <1>2, ItemAssumption DEF ToBuild, FInv, IInv, TypeOK
      <3>2. selected.items \subseteq Grouped(w, "untested", page)
        BY <3>1 DEF Selection
      <3>3. BuildType(i) = "untested"
        BY <3>1, <3>2 DEF Grouped
      <3>4. Checked(i) => Latest(i).state \notin {"success", "error"}
        BY <3>3 DEF BuildType
      <3>5. Checked(i) => Latest(i) \in Ask
        BY LatestAsks DEF FInv, IInv, TypeOK, ClientTypeOK
      <3>6. Fresh(i)
        BY <3>4, <3>5 DEF Fresh, Ask
      <3> QED BY <1>2, <3>6 DEF Fresh, Checked, Latest
    <2> QED BY <1>2, <2>1, NoCallKeeps
  <1> QED BY <1>4, <1>5, <1>6

\* What a worker gives up, or takes up from its batch, makes nothing less fresh.
LEMMA RowKeepsFInv ==
    ASSUME FInv, NEW w \in Workers, NextRow(w) \/ SkipRow(w)
    PROVE  Alone' /\ \A x \in Workers : CallOK(x)' /\ BatchOK(x)'
  <1>1. /\ IInv /\ Alone /\ call[w] = NoCall /\ (pc[w] = "next" \/ pc[w] = "reported")
        /\ statuses' = statuses /\ call' = call /\ type' = type /\ listed' = listed
        /\ mixed' = mixed
    BY DEF NextRow, SkipRow, Between, Idle, clientVars, FInv, IInv, TypeOK
  <1>2. PICK i \in batch[w] :
            /\ batch' = [batch EXCEPT ![w] = @ \ {i}]
            /\ \/ job' = [job EXCEPT ![w] = i] /\ pc' = [pc EXCEPT ![w] = "queue"]
               \/ job' = job /\ pc' = pc
    BY DEF NextRow, SkipRow, Firsts
  <1>3. /\ batch \in [Workers -> SUBSET Items] /\ job \in [Workers -> Items \union {NoItem}]
        /\ pc \in [Workers -> {"next", "queue", "start", "reported"}] /\ i \in Items
    BY <1>1 DEF IInv, TypeOK
  <1>4. \A x \in Workers : x # w => batch'[x] = batch[x] /\ job'[x] = job[x] /\ pc'[x] = pc[x]
    BY <1>2, <1>3
  <1>5. Alone'
    <2>1. \A x \in Workers : AtWork(x)' => AtWork(x)
      BY <1>2, <1>3, <1>4 DEF AtWork
    <2> QED BY <1>1, <2>1, AloneStays
  <1>6. ASSUME NEW x \in Workers, x # w PROVE CallOK(x)' /\ BatchOK(x)'
    BY <1>1, <1>4, <1>6, OthersKeep DEF FInv, Quiet
  <1>7. CallOK(w)' /\ BatchOK(w)'
    <2>1. Items \intersect ToBuild(w)' \subseteq ToBuild(w)
      BY <1>1, <1>2, <1>3, ItemAssumption DEF ToBuild, IInv, TypeOK
    <2>2. BatchOK(w)
      BY DEF FInv
    <2>3. BatchOK(w)'
      BY <1>1, <2>1, <2>2 DEF BatchOK, Fresh, Checked, Latest
    <2> QED BY <1>1, <2>3, NoCallKeeps
  <1> QED BY <1>5, <1>6, <1>7

\* A status is announced for what the worker is about to do.
LEMMA SayingKeepsFInv ==
    ASSUME FInv, NEW w \in Workers, Announce(w) \/ Start(w) \/ Verdict(w)
    PROVE  Alone' /\ \A x \in Workers : CallOK(x)' /\ BatchOK(x)'
  <1>1. /\ IInv /\ Alone /\ call[w] = NoCall /\ pc[w] \in {"queue", "start"}
        /\ statuses' = statuses /\ type' = type /\ listed' = listed /\ mixed' = mixed
        /\ batch' = batch /\ job' = job
        /\ call \in [Workers -> Call \union {NoCall}]
        /\ pc \in [Workers -> {"next", "queue", "start", "reported"}]
        /\ type[w] \in Types /\ job[w] \in Items
    BY DEF Announce, Start, Verdict, Idle, FInv, IInv, TypeOK, ClientTypeOK
  <1>2. pc' = pc \/ \E y \in {"start", "reported"} : pc' = [pc EXCEPT ![w] = y]
    BY DEF Announce, Start, Verdict
  <1>3. \E i \in Items : CallOf(w, i)
    <2>1. CASE Announce(w)
      BY <2>1, AskTypes, SetStatusCalls, <1>1 DEF Announce, Firsts, IInv, TypeOK
    <2>2. CASE Start(w)
      <3>1. CASE type[w] \in {"untested", "failed"}
        BY <1>1, <2>2, <3>1, AskTypes, SetStatusCalls DEF Start, IInv, TypeOK
      <3>2. CASE type[w] \notin {"untested", "failed"}
        <4>1. call' = call
          BY <2>2, <3>2 DEF Start
        <4>2. Returns(w)
          BY <1>1, <4>1 DEF Returns
        <4> QED BY <1>1, <4>2, ReturnsEndsCall
      <3> QED BY <3>1, <3>2
    <2>3. CASE Verdict(w)
      BY <1>1, <2>3, AskTypes, SetStatusCalls DEF Verdict, IInv, TypeOK
    <2> QED BY <2>1, <2>2, <2>3
  <1>4. \A x \in Workers : x # w => call'[x] = call[x] /\ pc'[x] = pc[x]
    BY <1>1, <1>2, <1>3, CallOfTypes DEF IInv
  <1>5. Alone'
    BY <1>1, AloneStays DEF AtWork
  <1>6. ASSUME NEW x \in Workers, x # w PROVE CallOK(x)' /\ BatchOK(x)'
    BY <1>1, <1>4, <1>6, OthersKeep DEF FInv, Quiet
  <1>7. BatchOK(w)'
    <2>1. ToBuild(w)' \subseteq ToBuild(w)
      BY <1>1, <1>2 DEF ToBuild
    <2>2. BatchOK(w)
      BY DEF FInv
    <2> QED BY <1>1, <2>1, <2>2 DEF BatchOK, Fresh, Checked, Latest
  <1>8. ASSUME call'[w] # NoCall PROVE Purpose(w)' /\ Informed(call'[w])
    <2>1. CASE Announce(w)
      <3>1. PICK i \in Items : SetStatus(w, i, [state |-> "pending", url |-> "",
                                               text |-> Says(w, "queued")], FALSE)
        BY <1>1, <2>1 DEF Announce, Firsts, IInv, TypeOK
      <3>2. /\ call'[w].ask.text = Says(w, "queued") /\ call'[w].ask.state = "pending"
            /\ Informed(call'[w])
        BY <1>1, <1>8, <3>1, AskTypes, SetStatusAims
      <3>3. Says(w, "queued")[1] # "rechecking"
        BY DEF Says
      <3> QED BY <1>1, <2>1, <3>2, <3>3 DEF Purpose, Announce
    <2>2. CASE Start(w) /\ type[w] = "untested"
      <3>1. SetStatus(w, job[w], [state |-> "pending", url |-> "",
                                  text |-> Says(w, "started")], FALSE)
        BY <2>2 DEF Start
      <3>2. /\ call'[w].ask.text = Says(w, "started") /\ call'[w].ask.state = "pending"
            /\ Informed(call'[w])
        BY <1>1, <1>8, <3>1, AskTypes, SetStatusAims
      <3>3. Says(w, "started")[1] # "rechecking"
        BY DEF Says
      <3>4. pc'[w] = "start"
        BY <1>1, <2>2 DEF Start
      <3> QED BY <1>1, <2>2, <3>2, <3>3, <3>4 DEF Purpose
    <2>3. CASE Start(w) /\ type[w] = "failed"
      <3>1. SetStatus(w, job[w], [state |-> "error", url |-> "",
                                  text |-> Says(w, "rechecking")], TRUE)
        BY <2>3 DEF Start
      <3>2. /\ call'[w].ask.state = "error" /\ call'[w].keep = TRUE /\ Informed(call'[w])
        BY <1>1, <1>8, <3>1, AskTypes, SetStatusAims
      <3>3. pc'[w] = "start"
        BY <1>1, <2>3 DEF Start
      <3> QED BY <1>1, <2>3, <3>2, <3>3 DEF Purpose
    <2>4. CASE Start(w) /\ type[w] \notin {"untested", "failed"}
      BY <1>1, <1>8, <2>4 DEF Start
    <2>5. CASE Verdict(w)
      <3>1. PICK state \in {"success", "error"} :
                SetStatus(w, job[w], [state |-> state, url |-> "log", text |-> NoText], FALSE)
        BY <2>5 DEF Verdict
      <3>2. /\ call'[w].ask.text = NoText /\ call'[w].ask.state = state
            /\ call'[w].item = job[w] /\ Informed(call'[w])
        BY <1>1, <1>8, <3>1, AskTypes, SetStatusAims
      <3>3. NoText[1] # "rechecking"
        BY DEF NoText
      <3>4. pc'[w] = "reported"
        BY <1>1, <2>5 DEF Verdict
      <3> QED BY <1>1, <3>2, <3>3, <3>4 DEF Purpose
    <2> QED BY <2>1, <2>2, <2>3, <2>4, <2>5
  <1>9. CallOK(w)'
    <2>1. \A d : Informed(d) => Informed(d)'
      BY <1>1 DEF Informed, Unread, News, Checked, Latest
    <2>2. call'[w] # NoCall => Informed(call[w])'
      <3>1. \A d : d = call'[w] /\ Informed(d) => Informed(call[w])'
        BY <2>1 DEF Informed, Unread, News
      <3> QED BY <1>8, <3>1
    <2> QED BY <1>8, <2>2 DEF CallOK
  <1> QED BY <1>5, <1>6, <1>7, <1>9

\* A page that is read, or refused, keeps what the call is for; what is posted
\* is what it was posted for, and nobody else has the commit in hand.
LEMMA RequestKeepsFInv ==
    ASSUME FInv, NEW w \in Workers, Request(w) \/ RequestFails(w),
           UNCHANGED <<deployments, config, open, loopVars>>
    PROVE  Alone' /\ \A x \in Workers : CallOK(x)' /\ BatchOK(x)'
  <1> DEFINE c == call[w]
  <1>1. /\ IInv /\ Alone /\ CallOK(w) /\ BatchOK(w)
        /\ UNCHANGED <<listed, pc, type, batch, job, mixed>>
        /\ call \in [Workers -> Call \union {NoCall}]
    BY DEF loopVars, FInv, IInv, TypeOK, ClientTypeOK
  <1>2. c # NoCall /\ c.stage \in {"get", "post"}
    BY DEF Request, RequestFails, GetPage, GetPageFails, Post, PostFails, NoCall
  <1>3. /\ c \in Call /\ c.item \in Items /\ c.item \in InHand(w)
        /\ statuses[c.item] \in Seq(Status)
    BY <1>1, <1>2, CallInHand
  <1>4. Alone'
    BY <1>1, AloneStays DEF AtWork
  <1>5. ASSUME NEW x \in Workers, x # w PROVE call'[x] = call[x]
    <2>1. CallOf(w, c.item)
      BY <1>1, RequestKeepsCall DEF IInv, TypeOK
    <2> QED BY <1>1, <1>3, <1>5, <2>1, CallOfTypes DEF IInv
  <1>6. CASE statuses' = statuses
    <2>1. ASSUME NEW x \in Workers, x # w PROVE CallOK(x)' /\ BatchOK(x)'
      BY <1>1, <1>5, <1>6, <2>1, OthersKeep DEF FInv, Quiet
    <2>2. BatchOK(w)'
      BY <1>1, <1>6 DEF BatchOK, ToBuild, Fresh, Checked, Latest
    <2>3. \A d : Informed(d) => \A e : e = d => Informed(e)'
      BY <1>6 DEF Informed, Unread, News, Checked, Latest
    <2>4. ASSUME NEW d \in Call \union {NoCall}, call'[w] = d, d # NoCall,
                 /\ d.item = c.item /\ d.keep = c.keep
                 /\ d.ask.text = c.ask.text /\ d.ask.state = c.ask.state,
                 w \notin mixed /\ d.whole => Informed(d)
          PROVE  CallOK(w)'
      <3>1. Purpose(w)
        BY <1>1, <1>2 DEF CallOK
      <3>2. Purpose(w)'
        BY <1>1, <2>4, <3>1 DEF Purpose
      <3>3. w \notin mixed' /\ call'[w].whole => Informed(call[w])'
        <4>1. w \notin mixed /\ d.whole => \A e : e = d => Informed(e)'
          BY <2>3, <2>4
        <4>2. \A e : Informed(e)' /\ e = call'[w] => Informed(call[w])'
          BY DEF Informed, Unread, News
        <4> QED BY <1>1, <2>4, <4>1, <4>2
      <3> QED BY <3>2, <3>3 DEF CallOK
    <2>5. CallOK(w)'
      <3>1. CASE call'[w] = NoCall
        BY <3>1 DEF CallOK
      <3>2. CASE call'[w] # NoCall /\ GetPage(w)
        <4>1. Read(w, c) /\ c.stage = "get"
          BY <3>2 DEF GetPage
        <4>2. PICK d \in Call \union {NoCall} : GoesOn(w, d) /\ (d # NoCall => SameAim(d, c))
          BY <1>3, <4>1, ReadKeepsAim
        <4>3. d = call'[w]
          BY <1>1, <4>2 DEF GoesOn
        <4>4. w \notin mixed /\ c.whole => Informed(d)
          <5> SUFFICES ASSUME w \notin mixed, c.whole PROVE Informed(d)
            OBVIOUS
          <5>1. Unread(c)
            BY <1>1, <1>2, <4>1 DEF CallOK, Informed
          <5>2. PICK e \in Call \union {NoCall} : GoesOn(w, e) /\ (e # NoCall => Informed(e))
            BY <1>3, <4>1, <5>1, ReadInforms
          <5>3. e = call'[w]
            BY <1>1, <5>2 DEF GoesOn
          <5> QED BY <3>2, <4>3, <5>2, <5>3
        <4> QED BY <2>4, <3>2, <4>2, <4>3, <4>4 DEF SameAim
      <3>3. CASE call'[w] # NoCall /\ GetPageFails(w)
        <4> DEFINE b == [c EXCEPT !.whole = FALSE]
        <4>1. /\ b \in Call /\ b.item = c.item /\ b.keep = c.keep /\ b.ask = c.ask
              /\ b.whole = FALSE /\ b.ask.url \in {"", "log"}
          BY <1>3 DEF Call, Ask
        <4>2. Create(w, b)
          BY <1>1, <3>3 DEF GetPageFails, Returns
        <4> HIDE DEF b
        <4>3. PICK url \in {"", "log"} : Posts(w, b, url)
          BY <4>1, <4>2 DEF Create
        <4>4. PICK d \in Call : GoesOn(w, d) /\ WillPost(d, b, url)
          BY <4>1, <4>3, PostsKeepsAim
        <4>5. d = call'[w]
          BY <1>1, <4>4 DEF GoesOn
        <4> QED BY <2>4, <3>3, <4>1, <4>4, <4>5 DEF WillPost, SameAim
      <3>4. CASE Post(w) \/ PostFails(w)
        <4>1. call'[w] = NoCall
          BY <1>1, <3>4 DEF Post, PostFails, Returns
        <4> QED BY <3>1, <4>1
      <3> QED BY <3>1, <3>2, <3>3, <3>4 DEF Request, RequestFails
    <2> QED BY <1>4, <2>1, <2>2, <2>5
  <1>7. CASE statuses' # statuses
    <2>1. /\ Post(w) /\ c.stage = "post" /\ call'[w] = NoCall
          /\ statuses' = [statuses EXCEPT ![c.item] = <<c.ask>> \o @]
      BY <1>1, <1>7 DEF Request, RequestFails, GetPage, GetPageFails, Post, PostFails, Returns
    <2>2. /\ statuses \in [Items -> Seq(Status)] /\ c.ask \in Ask
      BY <1>1, <1>3 DEF IInv, TypeOK, ClientTypeOK, Call
    <2>3. /\ statuses'[c.item] = <<c.ask>> \o statuses[c.item]
          /\ \A i \in Items : i # c.item => statuses'[i] = statuses[i]
      BY <1>3, <2>1, <2>2
    <2>4. ASSUME NEW x \in Workers, x # w PROVE CallOK(x)' /\ BatchOK(x)'
      <3>1. ASSUME x \notin mixed, NEW i \in Items, i \in InHand(x) PROVE Quiet(i)
        <4>1. i # c.item
          BY <1>1, <1>3, <2>4, <3>1, Exclusive
        <4> QED BY <2>3, <4>1 DEF Quiet
      <3> QED BY <1>1, <1>5, <2>4, <3>1, OthersKeep DEF FInv
    <2>5. BatchOK(w)'
      <3> SUFFICES ASSUME w \notin mixed, type[w] = "untested", NEW i \in Items,
                          i \in ToBuild(w)
                   PROVE  Fresh(i)'
        BY <1>1 DEF BatchOK, ToBuild
      <3>1. CASE i = c.item
        <4>1. Purpose(w)
          BY <1>1, <1>2 DEF CallOK
        <4>2. pc[w] # "reported"
          BY <1>1, <3>1, <4>1 DEF Purpose, ToBuild, IInv, TypeOK
        <4>3. c.ask.state = "pending"
          BY <4>1, <4>2 DEF Purpose
        <4>4. Latest(i)' = c.ask
          BY <2>2, <2>3, <3>1, PostedIsLatest
        <4> QED BY <4>3, <4>4 DEF Fresh
      <3>2. CASE i # c.item
        <4>1. Fresh(i) /\ statuses'[i] = statuses[i]
          BY <1>1, <2>3, <3>2 DEF BatchOK
        <4> QED BY <4>1 DEF Fresh, Checked, Latest
      <3> QED BY <3>1, <3>2
    <2> QED BY <1>4, <2>1, <2>4, <2>5, NoCallKeeps
  <1> QED BY <1>6, <1>7

\* A worker that forgets its batch has nothing left to say of it.
LEMMA ForgetsKeepsFInv ==
    ASSUME FInv, NEW w \in Workers, Forgets(w), call'[w] = NoCall,
           \A x \in Workers : x # w => call'[x] = call[x], statuses' = statuses
    PROVE  Alone' /\ \A x \in Workers : CallOK(x)' /\ BatchOK(x)'
  <1>1. IInv /\ Alone /\ job'[w] = NoItem /\ batch'[w] = {} /\ mixed' = mixed \ {w}
    BY DEF Forgets, FInv, IInv, TypeOK
  <1>2. ASSUME NEW x \in Workers, x # w
        PROVE  /\ pc'[x] = pc[x] /\ job'[x] = job[x] /\ batch'[x] = batch[x]
               /\ type'[x] = type[x] /\ listed'[x] = listed[x]
    BY <1>2 DEF Forgets, FInv, IInv, TypeOK
  <1>3. Alone'
    <2>1. ~AtWork(w)'
      BY <1>1 DEF AtWork
    <2>2. ASSUME NEW x \in Workers, AtWork(x)'
          PROVE  AtWork(x) /\ listed'[x] = listed[x] /\ (x \in mixed => x \in mixed')
      <3>1. x # w
        BY <2>1, <2>2
      <3> QED BY <1>1, <1>2, <2>2, <3>1 DEF AtWork
    <2> QED BY <1>1, <2>2, AloneStays
  <1>4. ASSUME NEW x \in Workers, x # w PROVE CallOK(x)' /\ BatchOK(x)'
    BY <1>1, <1>2, <1>4, OthersKeep DEF FInv, Quiet
  <1>5. BatchOK(w)'
    BY <1>1, ItemAssumption DEF BatchOK, ToBuild
  <1> QED BY <1>3, <1>4, <1>5, NoCallKeeps

\* What happens around the workers sets no status of theirs.
LEMMA AroundKeepsFInv ==
    ASSUME FInv, call' = call, UNCHANGED loopVars, \A i \in Items : Quiet(i)
    PROVE  Alone' /\ \A x \in Workers : CallOK(x)' /\ BatchOK(x)'
  <1>1. IInv /\ Alone /\ UNCHANGED <<listed, pc, type, batch, job, told, mixed>>
    BY DEF FInv, loopVars
  <1>2. Alone'
    BY <1>1, AloneStays DEF AtWork
  <1>3. ASSUME NEW x \in Workers PROVE CallOK(x)' /\ BatchOK(x)'
    BY <1>1, OthersKeep DEF FInv
  <1> QED BY <1>2, <1>3

\* At first nobody is at work.
LEMMA InitFInv == ASSUME Init PROVE FInv
  <1>1. IInv
    BY InitIInv
  <1>2. Alone
    BY DEF Init, Alone, AtWork
  <1>3. ASSUME NEW w \in Workers PROVE CallOK(w) /\ BatchOK(w)
    BY ItemAssumption DEF Init, ClientInit, CallOK, BatchOK, ToBuild
  <1> QED BY <1>1, <1>2, <1>3 DEF FInv

\* The invariant is inductive.
LEMMA NextKeepsFInv ==
    ASSUME FInv, [Next]_vars
    PROVE  FInv'
  <1>1. IInv'
    BY NextKeepsIInv DEF FInv
  <1> DEFINE Kept == Alone' /\ \A x \in Workers : CallOK(x)' /\ BatchOK(x)'
  <1>2. ASSUME NEW w \in Workers, BatchDone(w) \/ Crash(w) PROVE Kept
    <2>1. /\ Forgets(w) /\ statuses' = statuses /\ call'[w] = NoCall
          /\ \A x \in Workers : x # w => call'[x] = call[x]
      BY <1>2 DEF BatchDone, Crash, Idle, Returns, clientVars, FInv, IInv, TypeOK, ClientTypeOK
    <2> QED BY <2>1, ForgetsKeepsFInv
  <1>3. ASSUME NEW w \in Workers, Builder(w) PROVE Kept
    BY <1>2, <1>3, ListKeepsFInv, RowKeepsFInv, SayingKeepsFInv, RequestKeepsFInv
       DEF Builder, Talk
  <1>4. ASSUME NEW i \in Items, Leave(i) PROVE Kept
    BY <1>4, AroundKeepsFInv DEF Leave, Quiet
  <1>5. ASSUME NEW w \in Workers, Reconfigure(w) PROVE Kept
    BY <1>5, AroundKeepsFInv DEF Reconfigure, clientVars, Quiet
  <1>6. ASSUME NEW i \in Items, OthersPost(i) /\ UNCHANGED <<deployments, config, open, loopVars>>
        PROVE  Kept
    <2>1. statuses \in [Items -> Seq(Status)]
      BY DEF FInv, IInv, TypeOK, ClientTypeOK
    <2>2. \A j \in Items : Quiet(j)
      BY <1>6, <2>1 DEF OthersPost, Quiet
    <2> QED BY <1>6, <2>2, AroundKeepsFInv DEF OthersPost
  <1>7. ASSUME UNCHANGED vars PROVE Kept
    BY <1>7, AroundKeepsFInv DEF vars, clientVars, Quiet
  <1>8. Kept
    <2> HIDE DEF Kept
    <2>1. ASSUME NEW w \in Workers, SkipRow(w) PROVE Kept
      BY <2>1, RowKeepsFInv DEF Kept
    <2>2. ASSUME NEW w \in Workers,
                 RequestFails(w) /\ UNCHANGED <<deployments, config, open, loopVars>>
          PROVE  Kept
      BY <2>2, RequestKeepsFInv DEF Kept
    <2> QED BY <1>2, <1>3, <1>4, <1>5, <1>6, <1>7, <2>1, <2>2 DEF Next
  <1> QED BY <1>1, <1>8 DEF FInv

\* The invariant holds in every reachable state.
LEMMA FInvHolds == Spec => []FInv
  <1>1. Init => FInv
    BY InitFInv
  <1>2. FInv /\ [Next]_vars => FInv'
    BY NextKeepsFInv
  <1> QED BY <1>1, <1>2, PTL DEF Spec

\* A call that is about to post and has read the statuses posts something new,
\* whatever others posted while it read page after page (setGithubStatus).
THEOREM CallsPostNews == Spec => []NothingRepeated
  <1>1. FInv => NothingRepeated
    <2> SUFFICES ASSUME FInv, NEW w \in Workers, Undisturbed(w)
                 PROVE  call[w].ask # Latest(call[w].item)
      BY DEF NothingRepeated
    <2>1. call[w] # NoCall
      BY DEF Undisturbed, NoCall
    <2> QED BY <2>1 DEF FInv, CallOK, Undisturbed, Informed, News
  <1> QED BY <1>1, FInvHolds, PTL

\* A rebuild keeps the URL of the red status it found (build-loop.sh).
THEOREM RebuildsKeepTheUrl == Spec => []RecheckKeepsUrl
  <1>1. FInv => RecheckKeepsUrl
    <2> SUFFICES ASSUME FInv, NEW w \in Workers, Undisturbed(w),
                        call[w].ask.text[1] = "rechecking"
                 PROVE  call[w].ask.url = Latest(call[w].item).url
      BY DEF RecheckKeepsUrl
    <2>1. call[w] # NoCall
      BY DEF Undisturbed, NoCall
    <2>2. call[w].keep
      BY <2>1 DEF FInv, CallOK, Purpose
    <2> QED BY <2>1, <2>2 DEF FInv, CallOK, Undisturbed, Informed, News
  <1> QED BY <1>1, FInvHolds, PTL

\* "queued" and "started" replace no verdict, however old the listing they
\* come from, unless workers of another pool were at work since.
THEOREM AnnouncementsKeepVerdicts == Spec => []QueuedKeepsVerdict
  <1>1. FInv => QueuedKeepsVerdict
    <2> SUFFICES ASSUME FInv, NEW w \in Workers, Undisturbed(w),
                        call[w].ask.state = "pending"
                 PROVE  Latest(call[w].item).state = "pending"
      BY DEF QueuedKeepsVerdict
    <2>1. call[w] # NoCall
      BY DEF Undisturbed, NoCall
    <2>2. type[w] = "untested" /\ pc[w] # "reported"
      BY <2>1 DEF FInv, CallOK, Purpose
    <2>3. call[w].item \in Items /\ call[w].item \in ToBuild(w)
      BY <2>1, <2>2, CallInHand DEF FInv, InHand, ToBuild
    <2> QED BY <2>2, <2>3 DEF FInv, BatchOK, Fresh, Undisturbed
  <1> QED BY <1>1, FInvHolds, PTL
=============================================================================
