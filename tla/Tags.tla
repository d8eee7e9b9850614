-------------------------------- MODULE Tags --------------------------------
(***************************************************************************)
(* handlers/vsphere_sdk_handler.py and handlers/tag_cache.py: the tags of   *)
(* one category, put on every object the driver creates and removed with    *)
(* the last object that carries them.                                      *)
(*                                                                         *)
(* An object is tagged by the command that creates it (assign_tags) and     *)
(* untagged by the one that destroys it (get_attached_tags, destroy,        *)
(* delete_unused_tags); commands for different objects run in threads of    *)
(* one process and share its TagsCache, which has no lock.  The driver may  *)
(* also run in another virtual environment, with a cache of its own: the    *)
(* process `Foreign`, which creates and deletes tags as this one does.      *)
(* Tags and associations live in vCenter (external).  Every REST call and   *)
(* every access to one dictionary of the cache is a step.  Associations go  *)
(* with their object at once: that vCenter may lag behind, which the passes *)
(* of delete_unused_tags also wait for, is left out.                        *)
(***************************************************************************)
EXTENDS Naturals, FiniteSets

CONSTANTS
    Objects,
    Names,      \* tag names
    Ids,        \* every tag ever created gets a new identifier
    Wanted,     \* the names each object is to be tagged with
    MaxTries,   \* of _get_or_create_tag (5 in the code)
    MaxPasses,  \* over the remaining tags before delete_unused_tags gives up
    Foreign,    \* the other process
    None

ASSUME TagsAssumption ==
    /\ Wanted \in [Objects -> (SUBSET Names) \ {{}}]
    /\ MaxTries \in Nat \ {0}
    /\ MaxPasses \in Nat \ {0}
    /\ Foreign \notin Objects
    /\ None \notin Names \cup Ids

VARIABLES
    nameOf,     \* vCenter: name of each tag ever created
    exist,      \* vCenter: the tags that exist
    attached,   \* vCenter: the objects of each tag
    nameToId,   \* _tag_name_to_id of the category
    idToName,   \* _tag_id_to_name
    job         \* per object: locals of the command that handles it

vars == <<nameOf, exist, attached, nameToId, idToName, job>>
vcenter == <<nameOf, exist, attached>>
cache == <<nameToId, idToName>>

Ended == {"gone", "failed", "crashed"}
Labels == {"new", "create", "find", "list", "scan", "describe", "add", "addreverse",
           "attach", "tagged", "destroy", "check", "delete", "pop", "forget"} \cup Ended

Job == [pc : Labels,
        todo : SUBSET Names,        \* names without a tag id yet
        name : Names \cup {None},   \* the one being looked for
        ids : SUBSET Ids,           \* tag_ids
        id : Ids \cup {None},       \* tag created, described or deleted
        info : Names \cup {None},   \* its name, as vCenter or the cache says
        scan : SUBSET Ids,          \* tags of the category still to look at
        tries : 0 .. (MaxTries - 1),
        remained : SUBSET Ids,      \* remained_tags
        pass : SUBSET Ids,          \* those this pass has not checked yet
        passes : 0 .. (MaxPasses - 1)]

TypeOK ==
    /\ nameOf \in [Ids -> Names \cup {None}]
    /\ exist \subseteq Ids
    /\ attached \in [Ids -> SUBSET (Objects \cup {Foreign})]
    /\ nameToId \in [Names -> Ids \cup {None}]
    /\ idToName \in [Ids -> Names \cup {None}]
    /\ job \in [Objects -> Job]

Init ==
    /\ nameOf = [i \in Ids |-> None]
    /\ exist = {}
    /\ attached = [i \in Ids |-> {}]
    /\ nameToId = [n \in Names |-> None]
    /\ idToName = [i \in Ids |-> None]
    /\ job = [o \in Objects |->
                 [pc |-> "new", todo |-> {}, name |-> None, ids |-> {}, id |-> None,
                  info |-> None, scan |-> {}, tries |-> 0, remained |-> {},
                  pass |-> {}, passes |-> 0]]

At(o, label) == job[o].pc = label
Update(o, j) == job' = [job EXCEPT ![o] = j]
Goto(o, label) == Update(o, [job[o] EXCEPT !.pc = label])

(* The REST calls, as the cases they answer with tell them apart.           *)
Taken(n) == \E i \in exist : nameOf[i] = n                  \* create_tag
TagInfo(i) == IF i \in exist THEN nameOf[i] ELSE None       \* get_tag_info
AttachedTags(o) == {i \in exist : o \in attached[i]}       \* list_attached_tags
InUse(i) == attached[i] # {}                                \* list_attached_objects

(* attach_multiple_tags_to_object: tags that are gone are left out; the     *)
(* body of the reply, which lists them, is not read.                       *)
AttachTags(o, tags) ==
    attached' = [i \in Ids |-> IF i \in tags \cap exist THEN attached[i] \cup {o}
                               ELSE attached[i]]

(* delete_tag *)
RemoveTag(i) ==
    /\ exist' = exist \ {i}
    /\ attached' = [attached EXCEPT ![i] = {}]

(* A tag comes into being under an identifier never used before. *)
NewTag(i, n) ==
    /\ nameOf[i] = None
    /\ nameOf' = [nameOf EXCEPT ![i] = n]
    /\ exist' = exist \cup {i}

-----------------------------------------------------------------------------
(* assign_tags: an id for every name, then one call that attaches them all. *)

(* Begin the next name with no id yet, or attach. *)
NextName(o, j) ==
    IF j.todo = {} THEN Update(o, [j EXCEPT !.pc = "attach", !.name = None])
    ELSE \E n \in j.todo : Update(o, [j EXCEPT !.pc = "create", !.name = n, !.tries = 0])

Begin(o) ==
    /\ At(o, "new")
    /\ NextName(o, [job[o] EXCEPT !.todo = Wanted[o]])
    /\ UNCHANGED <<vcenter, cache>>

(* _get_or_create_tag: creating is tried first; TagAlreadyExists otherwise. *)
CreateTag(o) ==
    LET n == job[o].name IN
    /\ At(o, "create")
    /\ IF Taken(n)
       THEN Goto(o, "find") /\ UNCHANGED vcenter
       ELSE \E i \in Ids :
               /\ NewTag(i, n)
               /\ Update(o, [job[o] EXCEPT !.pc = "add", !.id = i, !.info = n])
               /\ UNCHANGED attached
    /\ UNCHANGED cache

Got(o, i) ==
    NextName(o, [job[o] EXCEPT !.ids = @ \cup {i}, !.todo = @ \ {job[o].name},
                               !.id = None, !.info = None, !.scan = {}])

(* _get_tag_id: a cached id is not verified. *)
FindCached(o) ==
    LET i == nameToId[job[o].name] IN
    /\ At(o, "find")
    /\ IF i # None THEN Got(o, i) ELSE Goto(o, "list")
    /\ UNCHANGED <<vcenter, cache>>

ListTags(o) ==
    /\ At(o, "list")
    /\ Update(o, [job[o] EXCEPT !.pc = "scan", !.scan = exist])
    /\ UNCHANGED <<vcenter, cache>>

(* get_tag_name: from the cache ...                                        *)
ScanTag(o, i) ==
    /\ At(o, "scan")
    /\ i \in job[o].scan
    /\ IF idToName[i] = job[o].name THEN Got(o, i)
       ELSE IF idToName[i] = None THEN Update(o, [job[o] EXCEPT !.pc = "describe", !.id = i])
       ELSE Update(o, [job[o] EXCEPT !.scan = @ \ {i}])
    /\ UNCHANGED <<vcenter, cache>>

(* ... else from vCenter; a tag that has been removed since has no name.    *)
DescribeTag(o) ==
    LET i == job[o].id IN
    /\ At(o, "describe")
    /\ IF TagInfo(i) # None
       THEN Update(o, [job[o] EXCEPT !.pc = "add", !.info = TagInfo(i)])
       ELSE Update(o, [job[o] EXCEPT !.pc = "scan", !.scan = @ \ {i}, !.id = None])
    /\ UNCHANGED <<vcenter, cache>>

(* TagNameDoesntExists: @retry starts _get_or_create_tag again. *)
ScanEnds(o) ==
    /\ At(o, "scan")
    /\ job[o].scan = {}
    /\ IF job[o].tries + 1 = MaxTries THEN Goto(o, "failed")
       ELSE Update(o, [job[o] EXCEPT !.pc = "create", !.tries = @ + 1])
    /\ UNCHANGED <<vcenter, cache>>

(* Fault: the tag is filed under the name that is looked for. *)
AddUnderSoughtName(o) ==
    /\ At(o, "add")
    /\ nameToId' = [nameToId EXCEPT ![job[o].name] = job[o].id]
    /\ Goto(o, "addreverse")
    /\ UNCHANGED <<vcenter, idToName>>

(* TagsCache.add_tag, one dictionary after the other. *)
AddTag(o) ==
    /\ At(o, "add")
    /\ nameToId' = [nameToId EXCEPT ![job[o].info] = job[o].id]
    /\ Goto(o, "addreverse")
    /\ UNCHANGED <<vcenter, idToName>>

(* Fault: a tag read from vCenter is taken whatever its name. *)
AddTagAnyName(o) ==
    /\ At(o, "addreverse")
    /\ idToName' = [idToName EXCEPT ![job[o].id] = job[o].info]
    /\ Got(o, job[o].id)
    /\ UNCHANGED <<vcenter, nameToId>>

(* Then the scan compares the name; a tag just created has the right one. *)
AddTagReverse(o) ==
    LET i == job[o].id IN
    /\ At(o, "addreverse")
    /\ idToName' = [idToName EXCEPT ![i] = job[o].info]
    /\ IF job[o].info = job[o].name THEN Got(o, i)
       ELSE Update(o, [job[o] EXCEPT !.pc = "scan", !.scan = @ \ {i},
                                     !.id = None, !.info = None])
    /\ UNCHANGED <<vcenter, nameToId>>

Attach(o) ==
    /\ At(o, "attach")
    /\ AttachTags(o, job[o].ids)
    /\ Goto(o, "tagged")
    /\ UNCHANGED <<nameOf, exist, cache>>

-----------------------------------------------------------------------------
(* The command that destroys the object. *)

ListAttached(o) ==
    /\ At(o, "tagged")
    /\ Update(o, [job[o] EXCEPT !.pc = "destroy", !.remained = AttachedTags(o)])
    /\ UNCHANGED <<vcenter, cache>>

(* Fault: the tags are asked for when the object has gone already. *)
DestroyThenList(o) ==
    /\ At(o, "destroy")
    /\ attached' = [i \in Ids |-> attached[i] \ {o}]
    /\ Update(o, [job[o] EXCEPT !.pc = "check", !.remained = {}])
    /\ UNCHANGED <<nameOf, exist, cache>>

(* With the object its associations go.  Then delete_unused_tags begins. *)
Destroy(o) ==
    /\ At(o, "destroy")
    /\ attached' = [i \in Ids |-> attached[i] \ {o}]
    /\ Update(o, [job[o] EXCEPT !.pc = "check", !.pass = job[o].remained])
    /\ UNCHANGED <<nameOf, exist, cache>>

(* list_attached_objects of one tag: TagIdDoesntExists, in use, or unused. *)
CheckUnused(o, i) ==
    /\ At(o, "check")
    /\ i \in job[o].pass
    /\ LET checked == [job[o] EXCEPT !.pass = @ \ {i}] IN
       IF i \notin exist THEN Update(o, [checked EXCEPT !.remained = @ \ {i}])
       ELSE IF InUse(i) THEN Update(o, checked)
       ELSE Update(o, [checked EXCEPT !.pc = "delete", !.id = i])
    /\ UNCHANGED <<vcenter, cache>>

(* Deleting a tag that is gone already is fine. *)
DeleteTag(o) ==
    /\ At(o, "delete")
    /\ RemoveTag(job[o].id)
    /\ Goto(o, "pop")
    /\ UNCHANGED <<nameOf, cache>>

Deleted(o) ==
    Update(o, [job[o] EXCEPT !.pc = "check", !.remained = @ \ {job[o].id},
                             !.id = None, !.info = None])

(* TagsCache.delete_tag: `pop`, guarded against KeyError ... *)
PopTag(o) ==
    LET i == job[o].id IN
    /\ At(o, "pop")
    /\ IF idToName[i] = None THEN Deleted(o)
       ELSE Update(o, [job[o] EXCEPT !.pc = "forget", !.info = idToName[i]])
    /\ idToName' = [idToName EXCEPT ![i] = None]
    /\ UNCHANGED <<vcenter, nameToId>>

(* ... and `del`, which is not. *)
ForgetName(o) ==
    LET n == job[o].info IN
    /\ At(o, "forget")
    /\ IF nameToId[n] = None THEN Goto(o, "crashed") ELSE Deleted(o)
    /\ nameToId' = [nameToId EXCEPT ![n] = None]
    /\ UNCHANGED <<vcenter, idToName>>

(* Fault: tags in use are waited for without a limit. *)
PassEndsUnlimited(o) ==
    /\ At(o, "check")
    /\ job[o].pass = {}
    /\ IF job[o].remained = {}
       THEN Goto(o, "gone")
       ELSE Update(o, [job[o] EXCEPT !.pass = job[o].remained])
    /\ UNCHANGED <<vcenter, cache>>

(* Fault: one pass too many. *)
PassEndsOneMore(o) ==
    /\ At(o, "check")
    /\ job[o].pass = {}
    /\ IF job[o].remained = {} \/ job[o].passes = MaxPasses
       THEN Goto(o, "gone")
       ELSE Update(o, [job[o] EXCEPT !.pass = job[o].remained, !.passes = @ + 1])
    /\ UNCHANGED <<vcenter, cache>>

(* `while remained_tags and time_remains`. *)
PassEnds(o) ==
    /\ At(o, "check")
    /\ job[o].pass = {}
    /\ IF job[o].remained = {} \/ job[o].passes + 1 = MaxPasses
       THEN Goto(o, "gone")
       ELSE Update(o, [job[o] EXCEPT !.pass = job[o].remained, !.passes = @ + 1])
    /\ UNCHANGED <<vcenter, cache>>

-----------------------------------------------------------------------------
(* The other process, whose calls are taken together: its objects come with *)
(* a tag of their own or with one that exists, and go; the last one that    *)
(* carries a tag takes it along.                                            *)

ForeignCreates(i, n) ==
    /\ ~Taken(n)
    /\ NewTag(i, n)
    /\ attached' = [attached EXCEPT ![i] = {Foreign}]
    /\ UNCHANGED <<cache, job>>

ForeignAttaches(i) ==
    /\ i \in exist
    /\ attached' = [attached EXCEPT ![i] = @ \cup {Foreign}]
    /\ UNCHANGED <<nameOf, exist, cache, job>>

ForeignLeaves(i) ==
    /\ Foreign \in attached[i] /\ attached[i] # {Foreign}
    /\ attached' = [attached EXCEPT ![i] = @ \ {Foreign}]
    /\ UNCHANGED <<nameOf, exist, cache, job>>

ForeignDeletes(i) ==
    /\ i \in exist
    /\ attached[i] = {Foreign}
    /\ RemoveTag(i)
    /\ UNCHANGED <<nameOf, cache, job>>

-----------------------------------------------------------------------------
Working(o) ==
    \/ CreateTag(o)
    \/ FindCached(o)
    \/ ListTags(o)
    \/ \E i \in Ids : ScanTag(o, i)
    \/ DescribeTag(o)
    \/ ScanEnds(o)
    \/ AddTag(o)
    \/ AddTagReverse(o)
    \/ Attach(o)
    \/ Destroy(o)
    \/ \E i \in Ids : CheckUnused(o, i)
    \/ DeleteTag(o)
    \/ PopTag(o)
    \/ ForgetName(o)
    \/ PassEnds(o)

Other ==
    \/ \E i \in Ids, n \in Names : ForeignCreates(i, n)
    \/ \E i \in Ids : ForeignAttaches(i) \/ ForeignLeaves(i) \/ ForeignDeletes(i)

Commands == \E o \in Objects : Begin(o) \/ ListAttached(o) \/ Working(o)
Next == Commands \/ Other

(* A command that has begun runs on; nobody has to issue one. *)
Fairness == \A o \in Objects : WF_vars(Working(o))

Spec == Init /\ [][Next]_vars /\ Fairness

-----------------------------------------------------------------------------
\* An object never carries a tag it was not meant to carry, although ids are
\* taken unverified from a cache that other threads write and that outlives
\* the tags (vsphere_sdk_handler.py:179-197, 229-239).
NoForeignTags ==
    \A o \in Objects, i \in Ids : o \in attached[i] => nameOf[i] \in Wanted[o]

\* Once every object of this process is destroyed none of its tags is left:
\* of two commands that share a tag the last one finds it unused, in any
\* order of their calls, unless a command was interrupted by an exception
\* (vsphere_sdk_handler.py:249-263, delete_instance.py:44-54).
NoTagLeak ==
    (\A o \in Objects : job[o].pc \in {"new", "gone"}) =>
        \A i \in exist : attached[i] # {}

\* Every command comes to an end: looking a tag up is retried a bounded number
\* of times, waiting for tags in use has a timeout
\* (vsphere_sdk_handler.py:199-203, 254-262).
CommandsEnd ==
    \A o \in Objects :
        job[o].pc \notin {"new", "tagged"} ~> job[o].pc \in {"tagged"} \cup Ended
=============================================================================
