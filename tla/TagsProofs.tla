------------------------------ MODULE TagsProofs ------------------------------
(***************************************************************************)
(* No object ever carries a tag of a name it does not want: for any number  *)
(* of objects, names and tags, and whatever the other process does.         *)
(*                                                                         *)
(* The cache may be stale, but it is never wrong: an id it files under a    *)
(* name had that name from its creation on (CacheTrue), also between the    *)
(* two assignments of add_tag and of delete_tag in several threads at once, *)
(* and so has every id a command has collected (GoodJob).                   *)
(*                                                                         *)
(* And no tag is left behind: a tag that no object carries is on the way of *)
(* some command that has not come to it yet (Attended).                     *)
(***************************************************************************)
EXTENDS Tags, TLAPS

CacheTrue ==
    /\ \A n \in Names : nameToId[n] # None => nameOf[nameToId[n]] = n
    /\ \A i \in Ids : idToName[i] # None => nameOf[i] = idToName[i]

Seeking == {"create", "find", "list", "scan", "describe", "add", "addreverse"}
Adding == {"add", "addreverse"}
Holding == {"describe", "delete", "pop"}

GoodJob(o, j) ==
    /\ j.todo \subseteq Wanted[o]
    /\ \A i \in j.ids : nameOf[i] \in Wanted[o]
    /\ j.pc \in Seeking => j.name \in Wanted[o]
    /\ j.pc \in Adding => j.id \in Ids /\ j.info \in Names /\ nameOf[j.id] = j.info
    /\ j.pc \in Holding => j.id \in Ids

IInv ==
    /\ TypeOK
    /\ CacheTrue
    /\ \A o \in Objects : GoodJob(o, job[o])
    /\ \A i \in exist : nameOf[i] # None
    /\ NoForeignTags

(* Names are given once. *)
Grows == \A i \in Ids : nameOf[i] # None => nameOf'[i] = nameOf[i]

LEMMA WantedNames == \A o \in Objects : Wanted[o] \subseteq Names /\ None \notin Wanted[o]
BY TagsAssumption

(* One command's step that leaves the names, and so the rest, as they were. *)
LEMMA JobStep ==
    ASSUME IInv, NEW o \in Objects, NEW j \in Job, Update(o, j), GoodJob(o, j),
           UNCHANGED nameOf
    PROVE  /\ job' \in [Objects -> Job]
           /\ \A p \in Objects : GoodJob(p, job[p])'
<1>1. /\ job' \in [Objects -> Job] /\ job'[o] = j
      /\ \A p \in Objects \ {o} : job'[p] = job[p]
  BY DEF IInv, TypeOK, Update
<1>2. GoodJob(o, j)'
  BY DEF GoodJob
<1>3. \A p \in Objects \ {o} : GoodJob(p, job[p])'
  BY <1>1 DEF IInv, GoodJob
<1> QED BY <1>1, <1>2, <1>3 DEF GoodJob

(* Steps that touch nothing but the locals of one command. *)
LEMMA LocalStep ==
    ASSUME IInv, NEW o \in Objects, NEW j \in Job, Update(o, j), GoodJob(o, j),
           UNCHANGED <<vcenter, cache>>
    PROVE  IInv'
<1>1. /\ job' \in [Objects -> Job]
      /\ \A p \in Objects : GoodJob(p, job[p])'
  BY JobStep DEF vcenter
<1> QED BY <1>1 DEF IInv, TypeOK, CacheTrue, NoForeignTags, vcenter, cache

LEMMA GotoGood ==
    ASSUME IInv, NEW o \in Objects, NEW label \in Labels,
           label \in Seeking => job[o].pc \in Seeking,
           label \in Adding => job[o].pc \in Adding,
           label \in Holding => job[o].pc \in Holding
    PROVE  /\ [job[o] EXCEPT !.pc = label] \in Job
           /\ GoodJob(o, [job[o] EXCEPT !.pc = label])
<1>1. job[o] \in Job /\ GoodJob(o, job[o])
  BY DEF IInv, TypeOK
<1> DEFINE j == [job[o] EXCEPT !.pc = label]
<1>2. j \in Job /\ j.pc = label /\ j.todo = job[o].todo /\ j.ids = job[o].ids
      /\ j.name = job[o].name /\ j.id = job[o].id /\ j.info = job[o].info
  BY <1>1 DEF Job
<1> HIDE DEF j
<1>3. GoodJob(o, j)
  BY <1>1, <1>2 DEF GoodJob
<1> QED BY <1>2, <1>3 DEF j

(* Where NextName leads is good, if what it starts from is. *)
LEMMA NextNameGood ==
    ASSUME IInv, NEW o \in Objects, NEW j \in Job, NextName(o, j),
           j.todo \subseteq Wanted[o], \A i \in j.ids : nameOf[i] \in Wanted[o]
    PROVE  \E k \in Job : Update(o, k) /\ GoodJob(o, k)
<1>1. CASE j.todo = {}
  <2> DEFINE k == [j EXCEPT !.pc = "attach", !.name = None]
  <2>1. k \in Job /\ k.pc = "attach" /\ k.todo = j.todo /\ k.ids = j.ids
    BY DEF Job, Labels
  <2>2. Update(o, k)
    BY <1>1 DEF NextName
  <2> HIDE DEF k
  <2>3. GoodJob(o, k)
    BY <2>1 DEF GoodJob, Seeking, Adding, Holding
  <2> QED BY <2>1, <2>2, <2>3
<1>2. CASE j.todo # {}
  <2>1. PICK n \in j.todo : Update(o, [j EXCEPT !.pc = "create", !.name = n, !.tries = 0])
    BY <1>2 DEF NextName
  <2> DEFINE k == [j EXCEPT !.pc = "create", !.name = n, !.tries = 0]
  <2>2. n \in Wanted[o] /\ n \in Names /\ 0 \in 0 .. (MaxTries - 1)
    BY WantedNames, TagsAssumption
  <2>3. /\ k \in Job /\ k.pc = "create" /\ k.name = n
        /\ k.todo = j.todo /\ k.ids = j.ids
    BY <2>2 DEF Job, Labels
  <2>4. Update(o, k)
    BY <2>1
  <2> HIDE DEF k
  <2>5. GoodJob(o, k)
    BY <2>2, <2>3 DEF GoodJob, Adding, Holding
  <2> QED BY <2>3, <2>4, <2>5
<1> QED BY <1>1, <1>2

(* An id of the sought name is added to those collected. *)
LEMMA GotGood ==
    ASSUME IInv, NEW o \in Objects, NEW i \in Ids, Got(o, i),
           job[o].pc \in Seeking, nameOf[i] = job[o].name
    PROVE  \E k \in Job : Update(o, k) /\ GoodJob(o, k)
<1>1. job[o] \in Job /\ GoodJob(o, job[o])
  BY DEF IInv, TypeOK
<1> DEFINE j == [job[o] EXCEPT !.ids = @ \cup {i}, !.todo = @ \ {job[o].name},
                               !.id = None, !.info = None, !.scan = {}]
<1>2. /\ j \in Job /\ j.ids = job[o].ids \cup {i}
      /\ j.todo = job[o].todo \ {job[o].name}
  BY <1>1 DEF Job
<1>3. NextName(o, j)
  BY DEF Got
<1> HIDE DEF j
<1>4. j.todo \subseteq Wanted[o] /\ \A h \in j.ids : nameOf[h] \in Wanted[o]
  BY <1>1, <1>2 DEF GoodJob
<1> QED BY <1>2, <1>3, <1>4, NextNameGood

LEMMA BeginStep == ASSUME IInv, NEW o \in Objects, Begin(o) PROVE IInv'
<1> DEFINE j == [job[o] EXCEPT !.todo = Wanted[o]]
<1>1. job[o] \in Job /\ GoodJob(o, job[o]) /\ Wanted[o] \subseteq Names
  BY WantedNames DEF IInv, TypeOK
<1>2. j \in Job /\ j.todo = Wanted[o] /\ j.ids = job[o].ids
  BY <1>1 DEF Job
<1>3. NextName(o, j) /\ UNCHANGED <<vcenter, cache>>
  BY DEF Begin
<1> HIDE DEF j
<1>4. \A i \in j.ids : nameOf[i] \in Wanted[o]
  BY <1>1, <1>2 DEF GoodJob
<1>5. \E k \in Job : Update(o, k) /\ GoodJob(o, k)
  BY <1>2, <1>3, <1>4, NextNameGood
<1> QED BY <1>3, <1>5, LocalStep

LEMMA CreateTagStep == ASSUME IInv, NEW o \in Objects, CreateTag(o) PROVE IInv'
<1> DEFINE n == job[o].name
<1>1. job[o] \in Job /\ GoodJob(o, job[o]) /\ job[o].pc = "create" /\ UNCHANGED cache
  BY DEF IInv, TypeOK, CreateTag, At
<1>2. n \in Wanted[o] /\ n \in Names /\ n # None
  BY <1>1, WantedNames DEF GoodJob, Seeking, Holding
<1>3. CASE Taken(n)
  <2>1. Goto(o, "find") /\ UNCHANGED vcenter
    BY <1>3 DEF CreateTag
  <2>2. "find" \in Labels /\ "find" \notin Adding \cup Holding /\ job[o].pc \in Seeking
    BY <1>1 DEF Labels, Adding, Seeking, Holding
  <2> QED BY <1>1, <2>1, <2>2, GotoGood, LocalStep DEF Goto
<1>4. CASE ~Taken(n)
  <2>1. PICK i \in Ids :
            /\ NewTag(i, n)
            /\ Update(o, [job[o] EXCEPT !.pc = "add", !.id = i, !.info = n])
            /\ UNCHANGED attached
    BY <1>4 DEF CreateTag
  <2> DEFINE j == [job[o] EXCEPT !.pc = "add", !.id = i, !.info = n]
  <2>2. /\ j \in Job /\ j.pc = "add" /\ j.id = i /\ j.info = n
        /\ j.todo = job[o].todo /\ j.ids = job[o].ids /\ j.name = n
    BY <1>1, <1>2 DEF Job, Labels
  <2>3. Update(o, j)
    BY <2>1
  <2> HIDE DEF j
  <2>4. /\ nameOf[i] = None /\ nameOf' = [nameOf EXCEPT ![i] = n]
        /\ exist' = exist \cup {i} /\ attached' = attached
    BY <2>1 DEF NewTag
  <2>5. /\ job' \in [Objects -> Job] /\ job'[o] = j
        /\ \A p \in Objects \ {o} : job'[p] = job[p]
    BY <2>2, <2>3 DEF IInv, TypeOK, Update
  <2>6. Grows /\ nameOf' \in [Ids -> Names \cup {None}] /\ nameOf'[i] = n
    BY <1>2, <2>4 DEF Grows, IInv, TypeOK
  <2>7. TypeOK'
    BY <1>1, <2>4, <2>5, <2>6 DEF IInv, TypeOK, cache
  <2>8. ASSUME NEW p \in Objects \ {o}
        PROVE  GoodJob(p, job[p])'
    <3>1. job'[p] = job[p] /\ job[p] \in Job /\ GoodJob(p, job[p])
      BY <2>5 DEF IInv, TypeOK
    <3>2. \A h \in job[p].ids : nameOf'[h] \in Wanted[p]
      BY <3>1, <2>6, WantedNames DEF GoodJob, Grows, Job
    <3>3. job[p].pc \in Adding => nameOf'[job[p].id] = job[p].info
      BY <3>1, <2>6, TagsAssumption DEF GoodJob, Grows
    <3> QED BY <3>1, <3>2, <3>3 DEF GoodJob
  <2>9. GoodJob(o, job[o])'
    <3>1. \A h \in job[o].ids : nameOf'[h] \in Wanted[o]
      BY <1>1, <2>6, WantedNames DEF GoodJob, Grows, Job
    <3> QED BY <1>1, <1>2, <2>1, <2>2, <2>5, <2>6, <3>1 DEF GoodJob
  <2>10. CacheTrue'
    BY <1>1, <1>2, <2>6, TagsAssumption DEF IInv, TypeOK, CacheTrue, Grows, cache
  <2>11. NoForeignTags' /\ \A h \in exist' : nameOf'[h] # None
    BY <1>2, <2>4, <2>6, WantedNames DEF IInv, NoForeignTags, Grows
  <2> QED BY <2>7, <2>8, <2>9, <2>10, <2>11 DEF IInv
<1> QED BY <1>3, <1>4

(* What a command's own locals are known to be. *)
LEMMA Locals ==
    ASSUME IInv, NEW o \in Objects
    PROVE  /\ job[o] \in Job /\ GoodJob(o, job[o])
           /\ nameOf \in [Ids -> Names \cup {None}] /\ exist \subseteq Ids
           /\ attached \in [Ids -> SUBSET (Objects \cup {Foreign})]
           /\ nameToId \in [Names -> Ids \cup {None}]
           /\ idToName \in [Ids -> Names \cup {None}]
BY DEF IInv, TypeOK

LEMMA FindCachedStep == ASSUME IInv, NEW o \in Objects, FindCached(o) PROVE IInv'
<1> DEFINE i == nameToId[job[o].name]
<1>1. job[o].pc = "find" /\ UNCHANGED <<vcenter, cache>>
  BY DEF FindCached, At
<1>2. job[o].name \in Names
  BY <1>1, Locals, WantedNames DEF GoodJob, Seeking, Holding
<1>3. CASE i # None
  <2>1. i \in Ids /\ nameOf[i] = job[o].name /\ Got(o, i)
    BY <1>2, <1>3, Locals DEF FindCached, IInv, CacheTrue
  <2> QED BY <1>1, <2>1, GotGood, LocalStep DEF Seeking
<1>4. CASE i = None
  <2>1. Goto(o, "list") /\ "list" \in (Labels \ Adding) \ Holding
    BY <1>4 DEF FindCached, Labels, Adding, Holding
  <2> QED BY <1>1, <2>1, GotoGood, LocalStep DEF Goto, Seeking
<1> QED BY <1>3, <1>4

LEMMA ListTagsStep == ASSUME IInv, NEW o \in Objects, ListTags(o) PROVE IInv'
<1> DEFINE j == [job[o] EXCEPT !.pc = "scan", !.scan = exist]
<1>1. job[o].pc = "list" /\ Update(o, j) /\ UNCHANGED <<vcenter, cache>>
  BY DEF ListTags, At
<1>2. /\ j \in Job /\ j.pc = "scan" /\ j.todo = job[o].todo /\ j.ids = job[o].ids
      /\ j.name = job[o].name
  BY Locals, ZenonT(30) DEF Job, Labels
<1> HIDE DEF j
<1>3. GoodJob(o, j)
  BY <1>1, <1>2, Locals DEF GoodJob, Seeking, Adding, Holding
<1> QED BY <1>1, <1>2, <1>3, LocalStep

LEMMA ScanTagStep == ASSUME IInv, NEW o \in Objects, NEW i \in Ids, ScanTag(o, i) PROVE IInv'
<1>1. job[o].pc = "scan" /\ UNCHANGED <<vcenter, cache>>
  BY DEF ScanTag, At
<1>2. job[o].name \in Names
  BY <1>1, Locals, WantedNames DEF GoodJob, Seeking, Holding
<1>3. CASE idToName[i] = job[o].name
  <2>1. nameOf[i] = job[o].name /\ Got(o, i)
    BY <1>2, <1>3, Locals, TagsAssumption DEF ScanTag, IInv, CacheTrue
  <2> QED BY <1>1, <2>1, GotGood, LocalStep DEF Seeking
<1>4. CASE idToName[i] # job[o].name /\ idToName[i] = None
  <2> DEFINE j == [job[o] EXCEPT !.pc = "describe", !.id = i]
  <2>1. Update(o, j)
    BY <1>4 DEF ScanTag
  <2>2. /\ j \in Job /\ j.pc = "describe" /\ j.id = i
        /\ j.todo = job[o].todo /\ j.ids = job[o].ids /\ j.name = job[o].name
    BY Locals, ZenonT(30) DEF Job, Labels
  <2> HIDE DEF j
  <2>3. GoodJob(o, j)
    BY <1>1, <2>2, Locals DEF GoodJob, Seeking, Adding, Holding
  <2> QED BY <1>1, <2>1, <2>2, <2>3, LocalStep
<1>5. CASE idToName[i] # job[o].name /\ idToName[i] # None
  <2> DEFINE j == [job[o] EXCEPT !.scan = @ \ {i}]
  <2>1. Update(o, j)
    BY <1>5 DEF ScanTag
  <2>2. /\ j \in Job /\ j.pc = "scan" /\ j.todo = job[o].todo /\ j.ids = job[o].ids
        /\ j.name = job[o].name
    BY <1>1, Locals DEF Job
  <2> HIDE DEF j
  <2>3. GoodJob(o, j)
    BY <1>1, <2>2, Locals DEF GoodJob, Seeking, Adding, Holding
  <2> QED BY <1>1, <2>1, <2>2, <2>3, LocalStep
<1> QED BY <1>3, <1>4, <1>5

LEMMA DescribeTagStep == ASSUME IInv, NEW o \in Objects, DescribeTag(o) PROVE IInv'
<1> DEFINE i == job[o].id
<1>1. job[o].pc = "describe" /\ UNCHANGED <<vcenter, cache>>
  BY DEF DescribeTag, At
<1>2. i \in Ids
  BY <1>1, Locals DEF GoodJob, Holding
<1>3. CASE TagInfo(i) # None
  <2> DEFINE j == [job[o] EXCEPT !.pc = "add", !.info = TagInfo(i)]
  <2>1. TagInfo(i) = nameOf[i] /\ nameOf[i] \in Names
    BY <1>2, <1>3, Locals DEF TagInfo
  <2>2. Update(o, j)
    BY <1>3 DEF DescribeTag
  <2>3. /\ j \in Job /\ j.pc = "add" /\ j.id = i /\ j.info = nameOf[i]
        /\ j.todo = job[o].todo /\ j.ids = job[o].ids /\ j.name = job[o].name
    BY <2>1, Locals, ZenonT(30) DEF Job, Labels
  <2> HIDE DEF j, i
  <2>4. GoodJob(o, j)
    BY <1>1, <1>2, <2>1, <2>3, Locals DEF GoodJob, Seeking, Holding
  <2> QED BY <1>1, <2>2, <2>3, <2>4, LocalStep
<1>4. CASE TagInfo(i) = None
  <2> DEFINE j == [job[o] EXCEPT !.pc = "scan", !.scan = @ \ {i}, !.id = None]
  <2>1. Update(o, j)
    BY <1>4 DEF DescribeTag
  <2>2. /\ j \in Job /\ j.pc = "scan" /\ j.todo = job[o].todo /\ j.ids = job[o].ids
        /\ j.name = job[o].name
    BY Locals, ZenonT(30) DEF Job, Labels
  <2> HIDE DEF j
  <2>3. GoodJob(o, j)
    BY <1>1, <2>2, Locals DEF GoodJob, Seeking, Adding, Holding
  <2> QED BY <1>1, <2>1, <2>2, <2>3, LocalStep
<1> QED BY <1>3, <1>4

LEMMA ScanEndsStep == ASSUME IInv, NEW o \in Objects, ScanEnds(o) PROVE IInv'
<1>1. job[o].pc = "scan" /\ UNCHANGED <<vcenter, cache>>
  BY DEF ScanEnds, At
<1>2. CASE job[o].tries + 1 = MaxTries
  <2>1. Goto(o, "failed") /\ "failed" \in ((Labels \ Adding) \ Seeking) \ Holding
    BY <1>2 DEF ScanEnds, Labels, Ended, Adding, Seeking, Holding
  <2> QED BY <1>1, <2>1, GotoGood, LocalStep DEF Goto
<1>3. CASE job[o].tries + 1 # MaxTries
  <2> DEFINE j == [job[o] EXCEPT !.pc = "create", !.tries = @ + 1]
  <2>1. Update(o, j)
    BY <1>3 DEF ScanEnds
  <2>2. job[o].tries + 1 \in 0 .. (MaxTries - 1)
    <3>1. job[o].tries \in 0 .. (MaxTries - 1)
      BY Locals DEF Job
    <3>2. MaxTries \in Nat \ {0}
      BY TagsAssumption
    <3> QED BY <1>3, <3>1, <3>2
  <2>3. /\ j \in Job /\ j.pc = "create" /\ j.todo = job[o].todo /\ j.ids = job[o].ids
        /\ j.name = job[o].name
    BY <2>2, Locals, ZenonT(30) DEF Job, Labels
  <2> HIDE DEF j
  <2>4. GoodJob(o, j)
    BY <1>1, <2>3, Locals DEF GoodJob, Seeking, Adding, Holding
  <2> QED BY <1>1, <2>1, <2>3, <2>4, LocalStep
<1> QED BY <1>2, <1>3

LEMMA AddTagStep == ASSUME IInv, NEW o \in Objects, AddTag(o) PROVE IInv'
<1>1. /\ job[o].pc = "add" /\ Goto(o, "addreverse") /\ UNCHANGED <<vcenter, idToName>>
      /\ nameToId' = [nameToId EXCEPT ![job[o].info] = job[o].id]
  BY DEF AddTag, At
<1>2. /\ job[o].id \in Ids /\ job[o].info \in Names
      /\ nameOf[job[o].id] = job[o].info
  BY <1>1, Locals DEF GoodJob, Adding, Holding
<1> DEFINE j == [job[o] EXCEPT !.pc = "addreverse"]
<1>3. j \in Job /\ GoodJob(o, j) /\ Update(o, j)
  BY <1>1, GotoGood DEF Labels, Seeking, Adding, Holding, Goto
<1> HIDE DEF j
<1>4. /\ job' \in [Objects -> Job]
      /\ \A p \in Objects : GoodJob(p, job[p])'
  BY <1>1, <1>3, JobStep DEF vcenter
<1>5. CacheTrue'
  BY <1>1, <1>2, Locals DEF IInv, CacheTrue, vcenter
<1>6. TypeOK'
  BY <1>1, <1>2, <1>4 DEF IInv, TypeOK, vcenter
<1> QED BY <1>1, <1>4, <1>5, <1>6 DEF IInv, NoForeignTags, vcenter

LEMMA AddTagReverseStep == ASSUME IInv, NEW o \in Objects, AddTagReverse(o) PROVE IInv'
<1> DEFINE i == job[o].id
<1>1. /\ job[o].pc = "addreverse" /\ UNCHANGED <<vcenter, nameToId>>
      /\ idToName' = [idToName EXCEPT ![i] = job[o].info]
  BY DEF AddTagReverse, At
<1>2. i \in Ids /\ job[o].info \in Names /\ nameOf[i] = job[o].info
  BY <1>1, Locals DEF GoodJob, Adding, Holding
<1>3. \E k \in Job : Update(o, k) /\ GoodJob(o, k)
  <2>1. CASE job[o].info = job[o].name
    BY <1>1, <1>2, <2>1, GotGood DEF AddTagReverse, Seeking
  <2>2. CASE job[o].info # job[o].name
    <3> DEFINE j == [job[o] EXCEPT !.pc = "scan", !.scan = @ \ {i},
                                   !.id = None, !.info = None]
    <3>1. Update(o, j)
      BY <2>2 DEF AddTagReverse
    <3>2. /\ j \in Job /\ j.pc = "scan" /\ j.todo = job[o].todo
          /\ j.ids = job[o].ids /\ j.name = job[o].name
      BY Locals, ZenonT(30) DEF Job, Labels
    <3> HIDE DEF j
    <3>3. GoodJob(o, j)
      BY <1>1, <3>2, Locals DEF GoodJob, Seeking, Adding, Holding
    <3> QED BY <3>1, <3>2, <3>3
  <2> QED BY <2>1, <2>2
<1>4. /\ job' \in [Objects -> Job]
      /\ \A p \in Objects : GoodJob(p, job[p])'
  BY <1>1, <1>3, JobStep DEF vcenter
<1>5. CacheTrue'
  BY <1>1, <1>2, Locals DEF IInv, CacheTrue, vcenter
<1>6. TypeOK'
  BY <1>1, <1>2, <1>4 DEF IInv, TypeOK, vcenter
<1> QED BY <1>1, <1>4, <1>5, <1>6 DEF IInv, NoForeignTags, vcenter

LEMMA AttachStep == ASSUME IInv, NEW o \in Objects, Attach(o) PROVE IInv'
<1>1. /\ Goto(o, "tagged") /\ UNCHANGED <<nameOf, exist, cache>>
      /\ attached' = [i \in Ids |-> IF i \in job[o].ids \cap exist
                                    THEN attached[i] \cup {o} ELSE attached[i]]
  BY DEF Attach, AttachTags
<1>2. "tagged" \in ((Labels \ Seeking) \ Adding) \ Holding
  BY DEF Labels, Seeking, Adding, Holding
<1> DEFINE j == [job[o] EXCEPT !.pc = "tagged"]
<1>3. j \in Job /\ GoodJob(o, j) /\ Update(o, j)
  BY <1>1, <1>2, GotoGood DEF Goto
<1> HIDE DEF j
<1>4. /\ job' \in [Objects -> Job]
      /\ \A p \in Objects : GoodJob(p, job[p])'
  BY <1>1, <1>3, JobStep
<1>5. NoForeignTags'
  BY <1>1, Locals DEF IInv, NoForeignTags, GoodJob
<1>6. attached' \in [Ids -> SUBSET (Objects \cup {Foreign})]
  BY <1>1, Locals
<1> QED BY <1>1, <1>4, <1>5, <1>6 DEF IInv, TypeOK, CacheTrue, cache

-----------------------------------------------------------------------------
(* Destroying an object neither names tags nor collects them. *)

After(o, j) ==
    /\ j.todo = job[o].todo /\ j.ids = job[o].ids
    /\ j.pc \notin Seeking
    /\ j.pc \in Holding => j.id \in Ids

(* Steps after "tagged" that change vCenter or the cache only by removal. *)
LEMMA RemovalStep ==
    ASSUME IInv, NEW o \in Objects, NEW j \in Job, Update(o, j),
           After(o, j),
           nameOf' = nameOf, exist' \subseteq exist,
           attached' \in [Ids -> SUBSET (Objects \cup {Foreign})],
           \A i \in Ids : attached'[i] \subseteq attached[i],
           nameToId' \in [Names -> Ids \cup {None}],
           \A n \in Names : nameToId'[n] \in {nameToId[n], None},
           idToName' \in [Ids -> Names \cup {None}],
           \A i \in Ids : idToName'[i] \in {idToName[i], None}
    PROVE  IInv'
<1>1. GoodJob(o, j)
  BY Locals DEF GoodJob, After, Seeking, Adding
<1>2. /\ job' \in [Objects -> Job]
      /\ \A p \in Objects : GoodJob(p, job[p])'
  BY <1>1, JobStep
<1>3. TypeOK'
  BY <1>2 DEF IInv, TypeOK
<1>4. CacheTrue'
  BY DEF IInv, CacheTrue
<1> QED BY <1>2, <1>3, <1>4 DEF IInv, NoForeignTags

LEMMA ListAttachedStep == ASSUME IInv, NEW o \in Objects, ListAttached(o) PROVE IInv'
<1> DEFINE tags == {i \in exist : o \in attached[i]}
           j == [job[o] EXCEPT !.pc = "destroy", !.remained = tags]
<1>1. Update(o, j) /\ UNCHANGED <<vcenter, cache>>
  BY DEF ListAttached, AttachedTags
<1>2. tags \subseteq Ids
  BY Locals
<1> HIDE DEF tags
<1>3. j \in Job /\ j.pc = "destroy" /\ j.todo = job[o].todo /\ j.ids = job[o].ids
  BY <1>2, Locals, ZenonT(30) DEF Job, Labels
<1>4. After(o, j)
  BY <1>3 DEF After, Seeking, Holding
<1> HIDE DEF j
<1> QED BY <1>1, <1>3, <1>4, Locals, RemovalStep DEF vcenter, cache

LEMMA DestroyStep == ASSUME IInv, NEW o \in Objects, Destroy(o) PROVE IInv'
<1> DEFINE j == [job[o] EXCEPT !.pc = "check", !.pass = job[o].remained]
<1>1. /\ Update(o, j) /\ UNCHANGED <<nameOf, exist, cache>>
      /\ attached' = [i \in Ids |-> attached[i] \ {o}]
  BY DEF Destroy
<1>2. /\ j \in Job /\ After(o, j)
  <2>1. j \in Job /\ j.pc = "check" /\ j.todo = job[o].todo /\ j.ids = job[o].ids
    BY Locals, ZenonT(30) DEF Job, Labels
  <2>2. After(o, j)
    BY <2>1 DEF After, Seeking, Holding
  <2> QED BY <2>1, <2>2
<1> HIDE DEF j
<1>3. /\ attached' \in [Ids -> SUBSET (Objects \cup {Foreign})]
      /\ \A i \in Ids : attached'[i] \subseteq attached[i]
  BY <1>1, Locals
<1> QED BY <1>1, <1>2, <1>3, Locals, RemovalStep DEF cache

LEMMA CheckUnusedStep ==
    ASSUME IInv, NEW o \in Objects, NEW i \in Ids, CheckUnused(o, i)
    PROVE  IInv'
<1> DEFINE c == [job[o] EXCEPT !.pass = @ \ {i}]
           j1 == [c EXCEPT !.remained = @ \ {i}]
           j2 == [c EXCEPT !.pc = "delete", !.id = i]
<1>1. /\ Update(o, j1) \/ Update(o, c) \/ Update(o, j2)
      /\ job[o].pc = "check" /\ UNCHANGED <<vcenter, cache>>
  BY DEF CheckUnused, At
<1>2. /\ c \in Job /\ After(o, c)
  BY <1>1, Locals DEF Job, After, Seeking, Holding
<1>3. /\ j1 \in Job /\ After(o, j1)
  BY <1>1, Locals, ZenonT(30) DEF Job, After, Seeking, Holding
<1>4. /\ j2 \in Job /\ After(o, j2)
  BY Locals, ZenonT(30) DEF Job, Labels, After, Seeking, Holding
<1> HIDE DEF c, j1, j2
<1> QED BY <1>1, <1>2, <1>3, <1>4, Locals, RemovalStep DEF vcenter, cache

LEMMA DeleteTagStep == ASSUME IInv, NEW o \in Objects, DeleteTag(o) PROVE IInv'
<1> DEFINE j == [job[o] EXCEPT !.pc = "pop"]
<1>1. /\ Update(o, j) /\ UNCHANGED <<nameOf, cache>>
      /\ exist' = exist \ {job[o].id}
      /\ attached' = [attached EXCEPT ![job[o].id] = {}]
      /\ job[o].id \in Ids
  BY Locals DEF DeleteTag, RemoveTag, At, Goto, GoodJob, Holding
<1>2. /\ j \in Job /\ After(o, j)
  BY <1>1, Locals DEF Job, Labels, After, Seeking, Holding
<1> HIDE DEF j
<1>3. /\ attached' \in [Ids -> SUBSET (Objects \cup {Foreign})]
      /\ \A i \in Ids : attached'[i] \subseteq attached[i]
  BY <1>1, Locals
<1> QED BY <1>1, <1>2, <1>3, Locals, RemovalStep DEF cache

LEMMA DeletedJob ==
    ASSUME IInv, NEW o \in Objects, Deleted(o)
    PROVE  \E j \in Job : Update(o, j) /\ After(o, j)
<1> DEFINE j == [job[o] EXCEPT !.pc = "check", !.remained = @ \ {job[o].id},
                               !.id = None, !.info = None]
<1>1. /\ j \in Job /\ After(o, j)
  <2>1. j \in Job /\ j.pc = "check" /\ j.todo = job[o].todo /\ j.ids = job[o].ids
    BY Locals, ZenonT(30) DEF Job, Labels
  <2>2. After(o, j)
    BY <2>1 DEF After, Seeking, Holding
  <2> QED BY <2>1, <2>2
<1>2. Update(o, j)
  BY DEF Deleted
<1> HIDE DEF j
<1> QED BY <1>1, <1>2

LEMMA PopTagStep == ASSUME IInv, NEW o \in Objects, PopTag(o) PROVE IInv'
<1> DEFINE i == job[o].id
           j == [job[o] EXCEPT !.pc = "forget", !.info = idToName[i]]
<1>1. /\ UNCHANGED <<vcenter, nameToId>>
      /\ idToName' = [idToName EXCEPT ![i] = None]
      /\ idToName[i] = None => Deleted(o)
      /\ idToName[i] # None => Update(o, j)
      /\ i \in Ids
  BY Locals DEF PopTag, At, GoodJob, Holding
<1>2. /\ idToName' \in [Ids -> Names \cup {None}]
      /\ \A h \in Ids : idToName'[h] \in {idToName[h], None}
  BY <1>1, Locals
<1>3. \E k \in Job : Update(o, k) /\ After(o, k)
  <2>1. CASE idToName[i] = None
    BY <1>1, <2>1, DeletedJob
  <2>2. CASE idToName[i] # None
    <3>1. idToName[i] \in Names
      BY <1>1, <2>2, Locals
    <3>2. j \in Job
      <4>1. ASSUME NEW q \in Job, NEW n \in Names
            PROVE  [q EXCEPT !.pc = "forget", !.info = n] \in Job
        BY DEF Job, Labels
      <4>2. job[o] \in Job
        BY Locals
      <4> HIDE DEF i
      <4> QED BY <3>1, <4>1, <4>2, Zenon
    <3>3. j.pc = "forget" /\ j.todo = job[o].todo /\ j.ids = job[o].ids
      BY Locals DEF Job
    <3>4. After(o, j)
      BY <3>3 DEF After, Seeking, Holding
    <3> HIDE DEF j
    <3> QED BY <1>1, <2>2, <3>2, <3>4
  <2> QED BY <2>1, <2>2
<1> QED BY <1>1, <1>2, <1>3, Locals, RemovalStep DEF vcenter

LEMMA ForgetNameStep == ASSUME IInv, NEW o \in Objects, ForgetName(o) PROVE IInv'
<1> DEFINE n == job[o].info
           j == [job[o] EXCEPT !.pc = "crashed"]
<1>1. /\ UNCHANGED <<vcenter, idToName>>
      /\ nameToId' = [nameToId EXCEPT ![n] = None]
      /\ Update(o, j) \/ Deleted(o)
  BY DEF ForgetName, Goto
<1>2. /\ nameToId' \in [Names -> Ids \cup {None}]
      /\ \A m \in Names : nameToId'[m] \in {nameToId[m], None}
  BY <1>1, Locals
<1>3. /\ j \in Job /\ After(o, j)
  BY Locals DEF Job, Labels, Ended, After, Seeking, Holding
<1> HIDE DEF j
<1>4. \E k \in Job : Update(o, k) /\ After(o, k)
  BY <1>1, <1>3, DeletedJob
<1> QED BY <1>1, <1>2, <1>4, Locals, RemovalStep DEF vcenter

LEMMA PassEndsStep == ASSUME IInv, NEW o \in Objects, PassEnds(o) PROVE IInv'
<1> DEFINE j1 == [job[o] EXCEPT !.pc = "gone"]
           j2 == [job[o] EXCEPT !.pass = job[o].remained, !.passes = @ + 1]
<1>1. job[o].pc = "check" /\ UNCHANGED <<vcenter, cache>>
  BY DEF PassEnds, At
<1>2. CASE job[o].remained = {} \/ job[o].passes + 1 = MaxPasses
  <2>1. Update(o, j1)
    BY <1>2 DEF PassEnds, Goto
  <2>2. /\ j1 \in Job /\ After(o, j1)
    BY Locals DEF Job, Labels, Ended, After, Seeking, Holding
  <2> HIDE DEF j1
  <2> QED BY <1>1, <2>1, <2>2, Locals, RemovalStep DEF vcenter, cache
<1>3. CASE ~(job[o].remained = {} \/ job[o].passes + 1 = MaxPasses)
  <2>1. Update(o, j2)
    BY <1>3 DEF PassEnds
  <2>2. job[o].passes + 1 \in 0 .. (MaxPasses - 1)
    <3>1. job[o].passes \in 0 .. (MaxPasses - 1)
      BY Locals DEF Job
    <3>2. MaxPasses \in Nat \ {0}
      BY TagsAssumption
    <3>3. job[o].passes + 1 # MaxPasses
      BY <1>3
    <3> QED BY <3>1, <3>2, <3>3
  <2>3. /\ j2 \in Job /\ After(o, j2)
    BY <1>1, <2>2, Locals, ZenonT(30) DEF Job, After, Seeking, Holding
  <2> HIDE DEF j2
  <2> QED BY <1>1, <2>1, <2>3, Locals, RemovalStep DEF vcenter, cache
<1> QED BY <1>2, <1>3

-----------------------------------------------------------------------------
(* The other process only adds names and takes its own tags away. *)
LEMMA ForeignStep == ASSUME IInv, Other PROVE IInv'
<1>1. ASSUME NEW i \in Ids, NEW n \in Names, ForeignCreates(i, n) PROVE IInv'
  <2>1. /\ nameOf[i] = None /\ nameOf' = [nameOf EXCEPT ![i] = n]
        /\ exist' = exist \cup {i} /\ attached' = [attached EXCEPT ![i] = {Foreign}]
        /\ UNCHANGED <<cache, job>>
    BY <1>1 DEF ForeignCreates, NewTag
  <2>2. Grows /\ nameOf' \in [Ids -> Names \cup {None}] /\ nameOf'[i] = n /\ n # None
    BY <2>1, TagsAssumption DEF Grows, IInv, TypeOK
  <2>3. TypeOK'
    BY <2>1, <2>2 DEF IInv, TypeOK, cache
  <2>4. ASSUME NEW p \in Objects
        PROVE  GoodJob(p, job[p])'
    <3>1. \A h \in job[p].ids : nameOf'[h] \in Wanted[p]
      BY <2>2, Locals, WantedNames DEF GoodJob, Grows, Job
    <3>2. job[p].pc \in Adding => nameOf'[job[p].id] = job[p].info
      BY <2>2, Locals, TagsAssumption DEF GoodJob, Grows
    <3> QED BY <2>1, <3>1, <3>2, Locals DEF GoodJob
  <2>5. CacheTrue'
    BY <2>1, <2>2, TagsAssumption DEF IInv, TypeOK, CacheTrue, Grows, cache
  <2>6. NoForeignTags' /\ \A h \in exist' : nameOf'[h] # None
    BY <2>1, <2>2, WantedNames, TagsAssumption DEF IInv, TypeOK, NoForeignTags, Grows
  <2> QED BY <2>3, <2>4, <2>5, <2>6 DEF IInv
<1>2. ASSUME NEW i \in Ids, ForeignDeletes(i) PROVE IInv'
  <2>1. /\ exist' = exist \ {i} /\ attached' = [attached EXCEPT ![i] = {}]
        /\ UNCHANGED <<nameOf, cache, job>>
    BY <1>2 DEF ForeignDeletes, RemoveTag
  <2>2. TypeOK'
    BY <2>1 DEF IInv, TypeOK, cache
  <2>3. ASSUME NEW p \in Objects
        PROVE  GoodJob(p, job[p])'
    BY <2>1, Locals DEF GoodJob
  <2>4. NoForeignTags' /\ CacheTrue' /\ \A h \in exist' : nameOf'[h] # None
    BY <2>1 DEF IInv, TypeOK, NoForeignTags, CacheTrue, cache
  <2> QED BY <2>2, <2>3, <2>4 DEF IInv
<1>3. ASSUME NEW i \in Ids, ForeignAttaches(i) \/ ForeignLeaves(i) PROVE IInv'
  <2>1. /\ \/ attached' = [attached EXCEPT ![i] = @ \cup {Foreign}]
           \/ attached' = [attached EXCEPT ![i] = @ \ {Foreign}]
        /\ UNCHANGED <<nameOf, exist, cache, job>>
    BY <1>3 DEF ForeignAttaches, ForeignLeaves
  <2>2. TypeOK'
    BY <2>1 DEF IInv, TypeOK, cache
  <2>3. ASSUME NEW p \in Objects
        PROVE  GoodJob(p, job[p])'
    BY <2>1, Locals DEF GoodJob
  <2>4. NoForeignTags' /\ CacheTrue' /\ \A h \in exist' : nameOf'[h] # None
    BY <2>1, TagsAssumption DEF IInv, TypeOK, NoForeignTags, CacheTrue, cache
  <2> QED BY <2>2, <2>3, <2>4 DEF IInv
<1> QED BY <1>1, <1>2, <1>3 DEF Other

LEMMA InitInv == Init => IInv
<1> SUFFICES ASSUME Init PROVE IInv
  OBVIOUS
<1> DEFINE j == [pc |-> "new", todo |-> {}, name |-> None, ids |-> {}, id |-> None,
                 info |-> None, scan |-> {}, tries |-> 0, remained |-> {},
                 pass |-> {}, passes |-> 0]
<1>1. 0 \in 0 .. (MaxTries - 1) /\ 0 \in 0 .. (MaxPasses - 1)
  BY TagsAssumption
<1>2. j \in Job /\ j.pc = "new" /\ j.todo = {} /\ j.ids = {}
  BY <1>1 DEF Job, Labels
<1>3. \A o \in Objects : job[o] = j
  BY DEF Init
<1>4. job = [o \in Objects |-> j]
  BY DEF Init
<1> HIDE DEF j
<1>5. TypeOK
  BY <1>2, <1>4 DEF Init, TypeOK
<1>6. \A o \in Objects : GoodJob(o, job[o])
  BY <1>2, <1>3 DEF GoodJob, Seeking, Adding, Holding
<1>7. CacheTrue /\ NoForeignTags
  BY DEF Init, CacheTrue, NoForeignTags
<1> QED BY <1>5, <1>6, <1>7 DEF IInv, Init

LEMMA NextInv == IInv /\ [Next]_vars => IInv'
<1> SUFFICES ASSUME IInv, [Next]_vars PROVE IInv'
  OBVIOUS
<1>1. ASSUME NEW o \in Objects, Begin(o) \/ ListAttached(o) \/ Working(o) PROVE IInv'
  BY <1>1, BeginStep, ListAttachedStep, CreateTagStep, FindCachedStep, ListTagsStep,
     ScanTagStep, DescribeTagStep, ScanEndsStep, AddTagStep, AddTagReverseStep, AttachStep,
     DestroyStep,     CheckUnusedStep, DeleteTagStep, PopTagStep, ForgetNameStep, PassEndsStep
     DEF Working
<1>2. CASE Other
  BY <1>2, ForeignStep
<1>3. CASE UNCHANGED vars
  BY <1>3 DEF vars, IInv, TypeOK, CacheTrue, GoodJob, NoForeignTags
<1> QED BY <1>1, <1>2, <1>3 DEF Next, Commands

LEMMA Inductive == Spec => []IInv
BY InitInv, NextInv, PTL DEF Spec

(* The two dictionaries, the commands' locals and what vCenter holds keep   *)
(* their types; no command exceeds its retries or its passes.              *)
THEOREM TypeCorrect == Spec => []TypeOK
<1>1. IInv => TypeOK
  BY DEF IInv
<1> QED BY <1>1, Inductive, PTL

(* No object is given a tag that belongs to another name, however stale the *)
(* shared cache is and whoever is writing to it.                           *)
THEOREM NoWrongTags == Spec => []NoForeignTags
<1>1. IInv => NoForeignTags
  BY DEF IInv
<1> QED BY <1>1, Inductive, PTL

-----------------------------------------------------------------------------
(* A tag that no object carries is on some command's way: collected to be   *)
(* attached, still to be checked by the pass of delete_unused_tags, or      *)
(* about to be deleted.  A command need not come back to a tag it found in  *)
(* use: the object that carried it is then destroyed by a command that has  *)
(* the tag on its own list.                                                *)

Failing == {"failed", "crashed"}
Sweeping == {"check", "delete", "pop", "forget"}

Handles(j, i) ==
    \/ j.pc \in Seeking \cup {"attach"} /\ i \in j.ids
    \/ j.pc \in Adding /\ j.id = i /\ j.info = j.name
    \/ j.pc \in Sweeping /\ i \in j.pass
    \/ j.pc = "delete" /\ j.id = i

Fresh == \A i \in Ids \ exist : attached[i] = {}

Listed == \A o \in Objects :
    job[o].pc = "destroy" => AttachedTags(o) \subseteq job[o].remained

Handled == \A i \in exist : attached[i] = {} => \E o \in Objects : Handles(job[o], i)

Attended ==
    /\ Fresh
    /\ Listed
    /\ (\A o \in Objects : job[o].pc \notin Failing) => Handled

Steady == IInv /\ Attended

Moves(o) == \A p \in Objects \ {o} : job'[p] = job[p]

LEMMA Moved ==
    ASSUME IInv, NEW o \in Objects, NEW j, Update(o, j)
    PROVE  job'[o] = j /\ Moves(o)
BY DEF IInv, TypeOK, Update, Moves

(* A step of one command, which may drop a tag only when the tag is gone or *)
(* carried by an object.                                                   *)
LEMMA HandsOver ==
    ASSUME Steady, NEW o \in Objects, Moves(o), job[o].pc \notin Failing,
           job'[o].pc \notin Failing =>
               \A i \in exist' : attached'[i] = {} =>
                   \/ Handles(job'[o], i)
                   \/ i \in exist /\ attached[i] = {} /\ ~Handles(job[o], i)
    PROVE  (\A p \in Objects : job'[p].pc \notin Failing) => Handled'
<1> SUFFICES ASSUME \A p \in Objects : job'[p].pc \notin Failing,
                    NEW i \in exist', attached'[i] = {}
             PROVE  \E p \in Objects : Handles(job'[p], i)
  BY DEF Handled
<1>1. CASE Handles(job'[o], i)
  BY <1>1
<1>2. CASE i \in exist /\ attached[i] = {} /\ ~Handles(job[o], i)
  <2>1. \A p \in Objects : job[p].pc \notin Failing
    BY DEF Moves
  <2>2. PICK p \in Objects : Handles(job[p], i)
    BY <1>2, <2>1 DEF Steady, Attended, Handled
  <2>3. job'[p] = job[p]
    BY <1>2, <2>2 DEF Moves
  <2> QED BY <2>2, <2>3
<1> QED BY <1>1, <1>2

(* Steps that touch the locals of one command, and perhaps the cache. *)
LEMMA LocalKeeps ==
    ASSUME Steady, NEW o \in Objects, Moves(o), UNCHANGED vcenter,
           job[o].pc \notin Failing,
           job'[o].pc = "destroy" => AttachedTags(o) \subseteq job'[o].remained,
           \/ job'[o].pc \in Failing
           \/ \A i \in exist : attached[i] = {} /\ Handles(job[o], i)
                                    => Handles(job'[o], i)
    PROVE  Attended'
<1>1. exist' = exist /\ attached' = attached
  BY DEF vcenter
<1>2. Fresh'
  BY <1>1 DEF Steady, Attended, Fresh
<1>3. Listed'
  <2> SUFFICES ASSUME NEW p \in Objects, job'[p].pc = "destroy"
               PROVE  AttachedTags(p)' \subseteq job'[p].remained
    BY DEF Listed
  <2>1. AttachedTags(p)' = AttachedTags(p)
    BY <1>1 DEF AttachedTags
  <2>2. CASE p = o
    BY <2>1, <2>2
  <2>3. CASE p # o
    BY <2>1, <2>3 DEF Moves, Steady, Attended, Listed
  <2> QED BY <2>2, <2>3
<1>4. (\A p \in Objects : job'[p].pc \notin Failing) => Handled'
  BY <1>1, HandsOver
<1> QED BY <1>2, <1>3, <1>4 DEF Attended

(* A command on its way to the next name keeps what it has collected. *)
LEMMA SeekingKeeps ==
    ASSUME Steady, NEW o \in Objects, Moves(o), UNCHANGED vcenter,
           job[o].pc \in Seeking,
           job'[o].pc \in Seeking \cup {"attach"}, job[o].ids \subseteq job'[o].ids,
           job[o].pc \in Adding /\ job[o].info = job[o].name =>
               \/ job[o].id \in job'[o].ids
               \/ /\ job'[o].pc \in Adding
                  /\ job'[o].id = job[o].id /\ job'[o].info = job'[o].name
    PROVE  Attended'
<1>1. job[o].pc \notin Failing \cup Sweeping /\ job'[o].pc # "destroy"
  BY DEF Seeking, Failing, Sweeping
<1>2. \A i \in exist : Handles(job[o], i) => Handles(job'[o], i)
  BY <1>1 DEF Handles, Sweeping
<1> QED BY <1>1, <1>2, LocalKeeps

LEMMA GotMoves ==
    ASSUME IInv, NEW o \in Objects, NEW i, Got(o, i)
    PROVE  /\ Moves(o)
           /\ job'[o].pc \in {"create", "attach"}
           /\ job'[o].ids = job[o].ids \cup {i}
<1> DEFINE j == [job[o] EXCEPT !.ids = @ \cup {i}, !.todo = @ \ {job[o].name},
                               !.id = None, !.info = None, !.scan = {}]
<1>1. job[o] \in Job
  BY Locals
<1>2. NextName(o, j)
  BY DEF Got
<1>3. CASE j.todo = {}
  <2>1. Update(o, [j EXCEPT !.pc = "attach", !.name = None])
    BY <1>2, <1>3 DEF NextName
  <2>2. job'[o] = [j EXCEPT !.pc = "attach", !.name = None] /\ Moves(o)
    BY <2>1, Moved
  <2> QED BY <1>1, <2>2 DEF Job
<1>4. CASE j.todo # {}
  <2>1. PICK n \in j.todo : Update(o, [j EXCEPT !.pc = "create", !.name = n, !.tries = 0])
    BY <1>2, <1>4 DEF NextName
  <2>2. /\ job'[o] = [j EXCEPT !.pc = "create", !.name = n, !.tries = 0]
        /\ Moves(o)
    BY <2>1, Moved
  <2> QED BY <1>1, <2>2 DEF Job
<1> QED BY <1>3, <1>4

LEMMA BeginKeeps == ASSUME Steady, NEW o \in Objects, Begin(o) PROVE Attended'
<1> DEFINE j == [job[o] EXCEPT !.todo = Wanted[o]]
<1>1. job[o] \in Job /\ IInv
  BY Locals DEF Steady
<1>2. job[o].pc = "new" /\ UNCHANGED vcenter /\ NextName(o, j)
  BY DEF Begin, At
<1>3. Moves(o) /\ job'[o].pc \in {"create", "attach"}
  <2>1. CASE j.todo = {}
    <3>1. Update(o, [j EXCEPT !.pc = "attach", !.name = None])
      BY <1>2, <2>1 DEF NextName
    <3>2. job'[o] = [j EXCEPT !.pc = "attach", !.name = None] /\ Moves(o)
      BY <1>1, <3>1, Moved
    <3> QED BY <1>1, <3>2 DEF Job
  <2>2. CASE j.todo # {}
    <3>1. PICK n \in j.todo : Update(o, [j EXCEPT !.pc = "create", !.name = n, !.tries = 0])
      BY <1>2, <2>2 DEF NextName
    <3>2. /\ job'[o] = [j EXCEPT !.pc = "create", !.name = n, !.tries = 0]
          /\ Moves(o)
      BY <1>1, <3>1, Moved
    <3> QED BY <1>1, <3>2 DEF Job
  <2> QED BY <2>1, <2>2
<1>4. \A i \in exist : ~Handles(job[o], i)
  BY <1>2 DEF Handles, Seeking, Adding, Sweeping
<1> QED BY <1>2, <1>3, <1>4, LocalKeeps DEF Failing

LEMMA CreateTagKeeps == ASSUME Steady, NEW o \in Objects, CreateTag(o) PROVE Attended'
<1> DEFINE n == job[o].name
<1>1. job[o] \in Job /\ IInv /\ job[o].pc = "create"
  BY Locals DEF Steady, CreateTag, At
<1>2. CASE Taken(n)
  <2>1. Update(o, [job[o] EXCEPT !.pc = "find"]) /\ UNCHANGED vcenter
    BY <1>2 DEF CreateTag, Goto
  <2>2. Moves(o) /\ job'[o].pc = "find" /\ job'[o].ids = job[o].ids
    BY <1>1, <2>1, Moved DEF Job
  <2> QED BY <1>1, <2>1, <2>2, SeekingKeeps DEF Seeking, Adding
<1>3. CASE ~Taken(n)
  <2>1. PICK i \in Ids :
            /\ NewTag(i, n)
            /\ Update(o, [job[o] EXCEPT !.pc = "add", !.id = i, !.info = n])
            /\ UNCHANGED attached
    BY <1>3 DEF CreateTag
  <2>2. /\ Moves(o) /\ job'[o].pc = "add" /\ job'[o].id = i
        /\ job'[o].info = job'[o].name /\ job'[o].ids = job[o].ids
    <3>1. /\ job'[o] = [job[o] EXCEPT !.pc = "add", !.id = i, !.info = n]
          /\ Moves(o)
      BY <1>1, <2>1, Moved
    <3> QED BY <1>1, <3>1 DEF Job
  <2>3. exist' = exist \cup {i} /\ attached' = attached /\ i \notin exist
    BY <1>1, <2>1 DEF NewTag, IInv
  <2>4. Fresh' /\ attached[i] = {}
    BY <2>3 DEF Steady, Attended, Fresh
  <2>5. Listed'
    <3> SUFFICES ASSUME NEW p \in Objects, job'[p].pc = "destroy"
                 PROVE  AttachedTags(p)' \subseteq job'[p].remained
      BY DEF Listed
    <3>1. AttachedTags(p)' = AttachedTags(p)
      BY <2>3, <2>4 DEF AttachedTags
    <3>2. job'[p] = job[p]
      BY <2>2 DEF Moves
    <3> QED BY <3>1, <3>2 DEF Steady, Attended, Listed
  <2>6. \A h \in exist : Handles(job[o], h) => Handles(job'[o], h)
    BY <1>1, <2>2 DEF Handles, Seeking, Adding, Sweeping
  <2>7. Handles(job'[o], i)
    BY <2>2 DEF Handles, Adding
  <2>8. \A h \in exist' : attached'[h] = {} =>
            \/ Handles(job'[o], h)
            \/ h \in exist /\ attached[h] = {} /\ ~Handles(job[o], h)
    BY <2>3, <2>6, <2>7
  <2>9. (\A p \in Objects : job'[p].pc \notin Failing) => Handled'
    BY <1>1, <2>2, <2>8, HandsOver DEF Failing
  <2> QED BY <2>4, <2>5, <2>9 DEF Attended
<1> QED BY <1>2, <1>3

LEMMA FindCachedKeeps == ASSUME Steady, NEW o \in Objects, FindCached(o) PROVE Attended'
<1> DEFINE i == nameToId[job[o].name]
<1>1. job[o] \in Job /\ IInv /\ job[o].pc = "find" /\ UNCHANGED vcenter
  BY Locals DEF Steady, FindCached, At
<1>2. CASE i # None
  <2>1. Got(o, i)
    BY <1>2 DEF FindCached
  <2>2. /\ Moves(o) /\ job'[o].pc \in {"create", "attach"}
        /\ job[o].ids \subseteq job'[o].ids
    BY <1>1, <2>1, GotMoves
  <2> QED BY <1>1, <2>2, SeekingKeeps DEF Seeking, Adding
<1>3. CASE i = None
  <2>1. Update(o, [job[o] EXCEPT !.pc = "list"])
    BY <1>3 DEF FindCached, Goto
  <2>2. Moves(o) /\ job'[o].pc = "list" /\ job'[o].ids = job[o].ids
    BY <1>1, <2>1, Moved DEF Job
  <2> QED BY <1>1, <2>2, SeekingKeeps DEF Seeking, Adding
<1> QED BY <1>2, <1>3

LEMMA ListTagsKeeps == ASSUME Steady, NEW o \in Objects, ListTags(o) PROVE Attended'
<1>1. job[o] \in Job /\ IInv /\ job[o].pc = "list" /\ UNCHANGED vcenter
  BY Locals DEF Steady, ListTags, At
<1>2. job'[o] = [job[o] EXCEPT !.pc = "scan", !.scan = exist] /\ Moves(o)
  BY <1>1, Moved DEF ListTags
<1>3. job'[o].pc = "scan" /\ job'[o].ids = job[o].ids
  BY <1>1, <1>2 DEF Job
<1> QED BY <1>1, <1>2, <1>3, SeekingKeeps DEF Seeking, Adding

LEMMA ScanTagKeeps ==
    ASSUME Steady, NEW o \in Objects, NEW i \in Ids, ScanTag(o, i)
    PROVE  Attended'
<1>1. job[o] \in Job /\ IInv /\ job[o].pc = "scan" /\ UNCHANGED vcenter
  BY Locals DEF Steady, ScanTag, At
<1>2. CASE idToName[i] = job[o].name
  <2>1. Got(o, i)
    BY <1>2 DEF ScanTag
  <2>2. /\ Moves(o) /\ job'[o].pc \in {"create", "attach"}
        /\ job[o].ids \subseteq job'[o].ids
    BY <1>1, <2>1, GotMoves
  <2> QED BY <1>1, <2>2, SeekingKeeps DEF Seeking, Adding
<1>3. CASE idToName[i] # job[o].name
  <2>1. \/ Update(o, [job[o] EXCEPT !.pc = "describe", !.id = i])
        \/ Update(o, [job[o] EXCEPT !.scan = @ \ {i}])
    BY <1>3 DEF ScanTag
  <2>2. /\ Moves(o)
        /\ \/ job'[o] = [job[o] EXCEPT !.pc = "describe", !.id = i]
           \/ job'[o] = [job[o] EXCEPT !.scan = @ \ {i}]
    BY <1>1, <2>1, Moved
  <2>3. job'[o].pc \in {"describe", "scan"} /\ job'[o].ids = job[o].ids
    BY <1>1, <2>2 DEF Job
  <2> QED BY <1>1, <2>2, <2>3, SeekingKeeps DEF Seeking, Adding
<1> QED BY <1>2, <1>3

LEMMA DescribeTagKeeps == ASSUME Steady, NEW o \in Objects, DescribeTag(o) PROVE Attended'
<1> DEFINE i == job[o].id
<1>1. job[o] \in Job /\ IInv /\ job[o].pc = "describe" /\ UNCHANGED vcenter
  BY Locals DEF Steady, DescribeTag, At
<1>2. \/ Update(o, [job[o] EXCEPT !.pc = "add", !.info = TagInfo(i)])
      \/ Update(o, [job[o] EXCEPT !.pc = "scan", !.scan = @ \ {i}, !.id = None])
  BY DEF DescribeTag
<1>3. /\ Moves(o)
      /\ \/ job'[o] = [job[o] EXCEPT !.pc = "add", !.info = TagInfo(i)]
         \/ job'[o] = [job[o] EXCEPT !.pc = "scan", !.scan = @ \ {i}, !.id = None]
  BY <1>1, <1>2, Moved
<1>4. job'[o].pc \in {"add", "scan"} /\ job'[o].ids = job[o].ids
  BY <1>1, <1>3 DEF Job
<1> QED BY <1>1, <1>3, <1>4, SeekingKeeps DEF Seeking, Adding

LEMMA ScanEndsKeeps == ASSUME Steady, NEW o \in Objects, ScanEnds(o) PROVE Attended'
<1>1. job[o] \in Job /\ IInv /\ job[o].pc = "scan" /\ UNCHANGED vcenter
  BY Locals DEF Steady, ScanEnds, At
<1>2. \/ Update(o, [job[o] EXCEPT !.pc = "failed"])
      \/ Update(o, [job[o] EXCEPT !.pc = "create", !.tries = @ + 1])
  BY DEF ScanEnds, Goto
<1>3. /\ Moves(o)
      /\ \/ job'[o] = [job[o] EXCEPT !.pc = "failed"]
         \/ job'[o] = [job[o] EXCEPT !.pc = "create", !.tries = @ + 1]
  BY <1>1, <1>2, Moved
<1>4. \/ job'[o].pc = "failed"
      \/ job'[o].pc = "create" /\ job'[o].ids = job[o].ids
  BY <1>1, <1>3 DEF Job
<1>5. CASE job'[o].pc = "failed"
  BY <1>1, <1>3, <1>5, LocalKeeps DEF Failing
<1>6. CASE job'[o].pc = "create" /\ job'[o].ids = job[o].ids
  BY <1>1, <1>3, <1>6, SeekingKeeps DEF Seeking, Adding
<1> QED BY <1>4, <1>5, <1>6

LEMMA AddTagKeeps == ASSUME Steady, NEW o \in Objects, AddTag(o) PROVE Attended'
<1>1. job[o] \in Job /\ IInv /\ job[o].pc = "add" /\ UNCHANGED vcenter
  BY Locals DEF Steady, AddTag, At
<1>2. job'[o] = [job[o] EXCEPT !.pc = "addreverse"] /\ Moves(o)
  BY <1>1, Moved DEF AddTag, Goto
<1>3. /\ job'[o].pc = "addreverse" /\ job'[o].ids = job[o].ids
      /\ job'[o].id = job[o].id /\ job'[o].info = job[o].info
      /\ job'[o].name = job[o].name
  BY <1>1, <1>2 DEF Job
<1> QED BY <1>1, <1>2, <1>3, SeekingKeeps DEF Seeking, Adding

LEMMA AddTagReverseKeeps ==
    ASSUME Steady, NEW o \in Objects, AddTagReverse(o)
    PROVE  Attended'
<1> DEFINE i == job[o].id
<1>1. job[o] \in Job /\ IInv /\ job[o].pc = "addreverse" /\ UNCHANGED vcenter
  BY Locals DEF Steady, AddTagReverse, At
<1>2. CASE job[o].info = job[o].name
  <2>1. Got(o, i)
    BY <1>2 DEF AddTagReverse
  <2>2. /\ Moves(o) /\ job'[o].pc \in {"create", "attach"}
        /\ job'[o].ids = job[o].ids \cup {i}
    BY <1>1, <2>1, GotMoves
  <2> QED BY <1>1, <2>2, SeekingKeeps DEF Seeking
<1>3. CASE job[o].info # job[o].name
  <2>1. Update(o, [job[o] EXCEPT !.pc = "scan", !.scan = @ \ {i},
                                 !.id = None, !.info = None])
    BY <1>3 DEF AddTagReverse
  <2>2. /\ job'[o] = [job[o] EXCEPT !.pc = "scan", !.scan = @ \ {i},
                                    !.id = None, !.info = None]
        /\ Moves(o)
    BY <1>1, <2>1, Moved
  <2>3. job'[o].pc = "scan" /\ job'[o].ids = job[o].ids
    BY <1>1, <2>2 DEF Job
  <2> QED BY <1>1, <1>3, <2>2, <2>3, SeekingKeeps DEF Seeking
<1> QED BY <1>2, <1>3

(* Every tag collected that still exists is carried by the object. *)
LEMMA AttachKeeps == ASSUME Steady, NEW o \in Objects, Attach(o) PROVE Attended'
<1>1. job[o] \in Job /\ IInv /\ job[o].pc = "attach" /\ exist' = exist
  BY Locals DEF Steady, Attach, At
<1>2. attached' = [i \in Ids |-> IF i \in job[o].ids \cap exist
                                 THEN attached[i] \cup {o} ELSE attached[i]]
  BY DEF Attach, AttachTags
<1>3. job'[o] = [job[o] EXCEPT !.pc = "tagged"] /\ Moves(o)
  BY <1>1, Moved DEF Attach, Goto
<1>4. job'[o].pc = "tagged"
  BY <1>1, <1>3 DEF Job
<1>5. Fresh'
  BY <1>1, <1>2 DEF Steady, Attended, Fresh
<1>6. Listed'
  <2> SUFFICES ASSUME NEW p \in Objects, job'[p].pc = "destroy"
               PROVE  AttachedTags(p)' \subseteq job'[p].remained
    BY DEF Listed
  <2>1. p # o /\ job'[p] = job[p]
    BY <1>3, <1>4 DEF Moves
  <2>2. AttachedTags(p)' = AttachedTags(p)
    BY <1>1, <1>2, <2>1, Locals DEF AttachedTags
  <2> QED BY <2>1, <2>2 DEF Steady, Attended, Listed
<1>7. \A i \in exist : attached'[i] = {} => attached[i] = {} /\ ~Handles(job[o], i)
  BY <1>1, <1>2, Locals DEF Handles, Seeking, Adding, Sweeping
<1>8. (\A p \in Objects : job'[p].pc \notin Failing) => Handled'
  BY <1>1, <1>3, <1>7, HandsOver DEF Failing
<1> QED BY <1>5, <1>6, <1>8 DEF Attended

LEMMA ListAttachedKeeps == ASSUME Steady, NEW o \in Objects, ListAttached(o) PROVE Attended'
<1>1. job[o] \in Job /\ IInv /\ job[o].pc = "tagged" /\ UNCHANGED vcenter
  BY Locals DEF Steady, ListAttached, At
<1>2. /\ job'[o] = [job[o] EXCEPT !.pc = "destroy", !.remained = AttachedTags(o)]
      /\ Moves(o)
  BY <1>1, Moved DEF ListAttached
<1>3. job'[o].remained = AttachedTags(o)
  BY <1>1, <1>2 DEF Job
<1>4. \A i \in exist : ~Handles(job[o], i)
  BY <1>1 DEF Handles, Seeking, Adding, Sweeping
<1> QED BY <1>1, <1>2, <1>3, <1>4, LocalKeeps DEF Failing

(* The tags that lose their last object are on the list of its command. *)
LEMMA DestroyKeeps == ASSUME Steady, NEW o \in Objects, Destroy(o) PROVE Attended'
<1>1. /\ job[o] \in Job /\ IInv /\ job[o].pc = "destroy" /\ exist' = exist
      /\ attached' = [i \in Ids |-> attached[i] \ {o}]
  BY Locals DEF Steady, Destroy, At
<1>2. /\ job'[o] = [job[o] EXCEPT !.pc = "check", !.pass = job[o].remained]
      /\ Moves(o)
  BY <1>1, Moved DEF Destroy
<1>3. job'[o].pc = "check" /\ job'[o].pass = job[o].remained
  BY <1>1, <1>2 DEF Job
<1>4. Fresh'
  BY <1>1 DEF Steady, Attended, Fresh
<1>5. Listed'
  <2> SUFFICES ASSUME NEW p \in Objects, job'[p].pc = "destroy"
               PROVE  AttachedTags(p)' \subseteq job'[p].remained
    BY DEF Listed
  <2>1. p # o /\ job'[p] = job[p]
    BY <1>2, <1>3 DEF Moves
  <2>2. AttachedTags(p)' = AttachedTags(p)
    BY <1>1, <2>1, Locals DEF AttachedTags
  <2> QED BY <2>1, <2>2 DEF Steady, Attended, Listed
<1>6. \A i \in exist : ~Handles(job[o], i)
  BY <1>1 DEF Handles, Seeking, Adding, Sweeping
<1>7. ASSUME NEW i \in exist, attached'[i] = {}, attached[i] # {}
      PROVE  Handles(job'[o], i)
  <2>1. o \in attached[i]
    BY <1>1, <1>7, Locals
  <2>2. i \in job[o].remained
    BY <1>1, <2>1 DEF Steady, Attended, Listed, AttachedTags
  <2> QED BY <1>3, <2>2 DEF Handles, Sweeping
<1>8. (\A p \in Objects : job'[p].pc \notin Failing) => Handled'
  BY <1>1, <1>2, <1>6, <1>7, HandsOver DEF Failing
<1> QED BY <1>4, <1>5, <1>8 DEF Attended

(* Checking a tag drops it when it is gone or in use, or goes on to delete it. *)
LEMMA CheckUnusedKeeps ==
    ASSUME Steady, NEW o \in Objects, NEW i \in Ids, CheckUnused(o, i)
    PROVE  Attended'
<1> DEFINE c == [job[o] EXCEPT !.pass = @ \ {i}]
<1>1. job[o] \in Job /\ IInv /\ job[o].pc = "check" /\ UNCHANGED vcenter
  BY Locals DEF Steady, CheckUnused, At
<1>2. CASE i \in exist /\ ~InUse(i)
  <2>1. Update(o, [c EXCEPT !.pc = "delete", !.id = i])
    BY <1>2 DEF CheckUnused
  <2>2. job'[o] = [c EXCEPT !.pc = "delete", !.id = i] /\ Moves(o)
    BY <1>1, <2>1, Moved
  <2>3. job'[o].pc = "delete" /\ job'[o].id = i /\ job'[o].pass = job[o].pass \ {i}
    BY <1>1, <2>2 DEF Job
  <2>4. \A h \in exist : Handles(job[o], h) => Handles(job'[o], h)
    BY <1>1, <2>3 DEF Handles, Seeking, Adding, Sweeping
  <2> QED BY <1>1, <2>2, <2>3, <2>4, LocalKeeps DEF Failing
<1>3. CASE ~(i \in exist /\ ~InUse(i))
  <2>1. Update(o, c) \/ Update(o, [c EXCEPT !.remained = @ \ {i}])
    BY <1>3 DEF CheckUnused
  <2>2. /\ job'[o] = c \/ job'[o] = [c EXCEPT !.remained = @ \ {i}]
        /\ Moves(o)
    BY <1>1, <2>1, Moved
  <2>3. job'[o].pc = "check" /\ job'[o].pass = job[o].pass \ {i}
    BY <1>1, <2>2 DEF Job
  <2>4. \A h \in exist : attached[h] = {} /\ Handles(job[o], h) => Handles(job'[o], h)
    BY <1>1, <1>3, <2>3 DEF Handles, Seeking, Adding, Sweeping, InUse
  <2> QED BY <1>1, <2>2, <2>3, <2>4, LocalKeeps DEF Failing
<1> QED BY <1>2, <1>3

LEMMA DeleteTagKeeps == ASSUME Steady, NEW o \in Objects, DeleteTag(o) PROVE Attended'
<1> DEFINE i == job[o].id
<1>1. /\ job[o] \in Job /\ IInv /\ job[o].pc = "delete" /\ i \in Ids
      /\ exist' = exist \ {i} /\ attached' = [attached EXCEPT ![i] = {}]
  BY Locals DEF Steady, DeleteTag, RemoveTag, At, GoodJob, Holding
<1>2. job'[o] = [job[o] EXCEPT !.pc = "pop"] /\ Moves(o)
  BY <1>1, Moved DEF DeleteTag, Goto
<1>3. job'[o].pc = "pop" /\ job'[o].pass = job[o].pass
  BY <1>1, <1>2 DEF Job
<1>4. Fresh'
  BY <1>1, Locals DEF Steady, Attended, Fresh
<1>5. Listed'
  <2> SUFFICES ASSUME NEW p \in Objects, job'[p].pc = "destroy"
               PROVE  AttachedTags(p)' \subseteq job'[p].remained
    BY DEF Listed
  <2>1. p # o /\ job'[p] = job[p]
    BY <1>2, <1>3 DEF Moves
  <2>2. AttachedTags(p)' \subseteq AttachedTags(p)
    BY <1>1, Locals DEF AttachedTags
  <2> QED BY <2>1, <2>2 DEF Steady, Attended, Listed
<1>6. \A h \in exist' : Handles(job[o], h) => Handles(job'[o], h)
  BY <1>1, <1>3 DEF Handles, Seeking, Adding, Sweeping
<1>7. \A h \in exist' : h \in exist /\ attached'[h] = attached[h]
  BY <1>1, Locals
<1>8. (\A p \in Objects : job'[p].pc \notin Failing) => Handled'
  BY <1>1, <1>2, <1>6, <1>7, HandsOver DEF Failing
<1> QED BY <1>4, <1>5, <1>8 DEF Attended

(* After the deletion the pass goes on where it was. *)
LEMMA SweepingKeeps ==
    ASSUME Steady, NEW o \in Objects, Moves(o), UNCHANGED vcenter,
           job[o].pc \in {"pop", "forget"},
           \/ job'[o].pc = "crashed"
           \/ job'[o].pc \in {"check", "forget"} /\ job'[o].pass = job[o].pass
    PROVE  Attended'
<1>1. \/ job'[o].pc \in Failing
      \/ \A h \in exist : Handles(job[o], h) => Handles(job'[o], h)
  BY DEF Handles, Seeking, Adding, Sweeping, Failing
<1> QED BY <1>1, LocalKeeps DEF Failing

LEMMA DeletedMoves ==
    ASSUME IInv, NEW o \in Objects, Deleted(o)
    PROVE  Moves(o) /\ job'[o].pc = "check" /\ job'[o].pass = job[o].pass
<1>1. /\ job'[o] = [job[o] EXCEPT !.pc = "check", !.remained = @ \ {job[o].id},
                                  !.id = None, !.info = None]
      /\ Moves(o)
  BY Moved DEF Deleted
<1> QED BY <1>1, Locals DEF Job

LEMMA PopTagKeeps == ASSUME Steady, NEW o \in Objects, PopTag(o) PROVE Attended'
<1> DEFINE i == job[o].id
<1>1. job[o] \in Job /\ IInv /\ job[o].pc = "pop" /\ UNCHANGED vcenter
  BY Locals DEF Steady, PopTag, At
<1>2. CASE idToName[i] = None
  <2>1. Deleted(o)
    BY <1>2 DEF PopTag
  <2> QED BY <1>1, <2>1, DeletedMoves, SweepingKeeps
<1>3. CASE idToName[i] # None
  <2>1. job'[o] = [job[o] EXCEPT !.pc = "forget", !.info = idToName[i]] /\ Moves(o)
    BY <1>1, <1>3, Moved DEF PopTag
  <2>2. job'[o].pc = "forget" /\ job'[o].pass = job[o].pass
    BY <1>1, <2>1 DEF Job
  <2> QED BY <1>1, <2>1, <2>2, SweepingKeeps
<1> QED BY <1>2, <1>3

LEMMA ForgetNameKeeps == ASSUME Steady, NEW o \in Objects, ForgetName(o) PROVE Attended'
<1>1. job[o] \in Job /\ IInv /\ job[o].pc = "forget" /\ UNCHANGED vcenter
  BY Locals DEF Steady, ForgetName, At
<1>2. CASE nameToId[job[o].info] # None
  <2>1. Deleted(o)
    BY <1>2 DEF ForgetName
  <2> QED BY <1>1, <2>1, DeletedMoves, SweepingKeeps
<1>3. CASE nameToId[job[o].info] = None
  <2>1. job'[o] = [job[o] EXCEPT !.pc = "crashed"] /\ Moves(o)
    BY <1>1, <1>3, Moved DEF ForgetName, Goto
  <2>2. job'[o].pc = "crashed"
    BY <1>1, <2>1 DEF Job
  <2> QED BY <1>1, <2>1, <2>2, SweepingKeeps
<1> QED BY <1>2, <1>3

(* Whether the time is over or another pass begins: nothing is left of this one. *)
LEMMA PassEndsKeeps == ASSUME Steady, NEW o \in Objects, PassEnds(o) PROVE Attended'
<1>1. /\ job[o] \in Job /\ IInv /\ job[o].pc = "check" /\ job[o].pass = {}
      /\ UNCHANGED vcenter
  BY Locals DEF Steady, PassEnds, At
<1>2. \/ Update(o, [job[o] EXCEPT !.pc = "gone"])
      \/ Update(o, [job[o] EXCEPT !.pass = job[o].remained, !.passes = @ + 1])
  BY DEF PassEnds, Goto
<1>3. /\ Moves(o)
      /\ \/ job'[o] = [job[o] EXCEPT !.pc = "gone"]
         \/ job'[o] = [job[o] EXCEPT !.pass = job[o].remained, !.passes = @ + 1]
  BY <1>1, <1>2, Moved
<1>4. job'[o].pc \in {"gone", "check"}
  BY <1>1, <1>3 DEF Job
<1>5. \A h \in exist : ~Handles(job[o], h)
  BY <1>1 DEF Handles, Seeking, Adding, Sweeping
<1> QED BY <1>1, <1>3, <1>4, <1>5, LocalKeeps DEF Failing

(* The other process has its own tags only, and adds none of this one's. *)
LEMMA ForeignKeeps == ASSUME Steady, Other PROVE Attended'
<1>1. IInv /\ Fresh /\ Listed /\ Foreign \notin Objects
  BY TagsAssumption DEF Steady, Attended
<1>2. ASSUME NEW i \in Ids, NEW n \in Names, ForeignCreates(i, n) PROVE Attended'
  <2>1. /\ nameOf[i] = None /\ exist' = exist \cup {i} /\ job' = job
        /\ attached' = [attached EXCEPT ![i] = {Foreign}]
    BY <1>2 DEF ForeignCreates, NewTag
  <2>2. i \notin exist
    BY <1>1, <2>1 DEF IInv
  <2>3. \A o \in Objects : AttachedTags(o)' = AttachedTags(o)
    BY <1>1, <2>1, <2>2, Locals DEF AttachedTags, IInv, TypeOK
  <2>4. Fresh' /\ Listed'
    BY <1>1, <2>1, <2>3 DEF Fresh, Listed, IInv, TypeOK
  <2>5. Handled => Handled'
    BY <1>1, <2>1 DEF Handled, IInv, TypeOK
  <2> QED BY <2>1, <2>4, <2>5 DEF Steady, Attended
<1>3. ASSUME NEW i \in Ids, ForeignDeletes(i) PROVE Attended'
  <2>1. /\ exist' = exist \ {i} /\ attached' = [attached EXCEPT ![i] = {}] /\ job' = job
    BY <1>3 DEF ForeignDeletes, RemoveTag
  <2>2. \A o \in Objects : AttachedTags(o)' \subseteq AttachedTags(o)
    BY <1>1, <2>1 DEF AttachedTags, IInv, TypeOK
  <2>3. Fresh' /\ Listed'
    BY <1>1, <2>1, <2>2 DEF Fresh, Listed, IInv, TypeOK
  <2>4. Handled => Handled'
    BY <1>1, <2>1 DEF Handled, IInv, TypeOK
  <2> QED BY <2>1, <2>3, <2>4 DEF Steady, Attended
<1>4. ASSUME NEW i \in Ids, ForeignAttaches(i) \/ ForeignLeaves(i) PROVE Attended'
  <2>1. /\ \/ /\ i \in exist
              /\ attached' = [attached EXCEPT ![i] = @ \cup {Foreign}]
           \/ /\ Foreign \in attached[i] /\ attached[i] # {Foreign}
              /\ attached' = [attached EXCEPT ![i] = @ \ {Foreign}]
        /\ UNCHANGED <<exist, job>>
    BY <1>4 DEF ForeignAttaches, ForeignLeaves
  <2>2. \A o \in Objects : AttachedTags(o)' = AttachedTags(o)
    BY <1>1, <2>1 DEF AttachedTags, IInv, TypeOK
  <2>3. Fresh' /\ Listed'
    BY <1>1, <2>1, <2>2 DEF Fresh, Listed, IInv, TypeOK
  <2>4. \A h \in exist : attached'[h] = {} => attached[h] = {}
    BY <1>1, <2>1 DEF IInv, TypeOK
  <2>5. Handled => Handled'
    BY <2>1, <2>4 DEF Handled
  <2> QED BY <2>1, <2>3, <2>5 DEF Steady, Attended
<1> QED BY <1>2, <1>3, <1>4 DEF Other

LEMMA NextKeeps == Steady /\ [Next]_vars => Attended'
<1> SUFFICES ASSUME Steady, [Next]_vars PROVE Attended'
  OBVIOUS
<1>1. ASSUME NEW o \in Objects, Begin(o) \/ ListAttached(o) \/ Working(o)
      PROVE  Attended'
  BY <1>1, BeginKeeps, ListAttachedKeeps, CreateTagKeeps, FindCachedKeeps,
     ListTagsKeeps, ScanTagKeeps, DescribeTagKeeps, ScanEndsKeeps, AddTagKeeps,
     AddTagReverseKeeps, AttachKeeps, DestroyKeeps, CheckUnusedKeeps, DeleteTagKeeps,
     PopTagKeeps, ForgetNameKeeps, PassEndsKeeps DEF Working
<1>2. CASE Other
  BY <1>2, ForeignKeeps
<1>3. CASE UNCHANGED vars
  BY <1>3 DEF vars, Steady, Attended, Fresh, Listed, Handled, AttachedTags
<1> QED BY <1>1, <1>2, <1>3 DEF Next, Commands

(* When every object of this process is gone, each tag that is left belongs *)
(* to an object of another: of the commands that share a tag the last finds *)
(* it unused, in whatever order their calls reach vCenter.                  *)
THEOREM NoTagLeaks == Spec => []NoTagLeak
<1>1. Init => Attended
  BY DEF Init, Attended, Fresh, Listed, Handled
<1>2. Spec => []Attended
  <2>1. IInv /\ Attended /\ [Next]_vars => Attended'
    BY NextKeeps DEF Steady
  <2>2. Init /\ []IInv /\ [][Next]_vars => []Attended
    BY <1>1, <2>1, PTL
  <2> QED BY <2>2, Inductive, PTL DEF Spec
<1>3. Attended => NoTagLeak
  <2> SUFFICES ASSUME Attended, \A o \in Objects : job[o].pc \in {"new", "gone"},
                      NEW i \in exist, attached[i] = {}
               PROVE  FALSE
    BY DEF NoTagLeak
  <2>1. PICK o \in Objects : Handles(job[o], i)
    BY DEF Attended, Handled, Failing
  <2> QED BY <2>1 DEF Handles, Seeking, Adding, Sweeping
<1> QED BY <1>2, <1>3, PTL
=============================================================================
