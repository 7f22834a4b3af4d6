----------------------------- MODULE AllowList -----------------------------
(***************************************************************************)
(* The allow list (core/allow/allow.go) and one saved query in it: the     *)
(* query file, the fragment file it may import, the variables file, the    *)
(* LRU cache in front of them, and the saver goroutine that alone writes   *)
(* what Set hands it over an unbuffered channel.  Lookups and Delete work  *)
(* on the files directly.  Every call of the file system is a step, and    *)
(* those that write may fail.                                              *)
(*                                                                         *)
(* Each writer makes one call; what it saves is identified with the writer.*)
(* Namespaces, names and the second extension (.graphql) are left out.     *)
(***************************************************************************)
CONSTANTS Writers,   \* callers of Set and Delete, one call each
          Readers,   \* callers of GetByName(name, true), again and again
          None       \* no file, no entry, no request

ASSUME AllowAssumption == None \notin Writers

VARIABLES
  call,    \* [Writers -> what the writer calls and saves]
  files,   \* whose version each file holds
  cache,   \* the entry of the query in the LRU cache
  saver,   \* the saver goroutine
  w,       \* where each writer is
  rd,      \* each lookup
  dirty    \* history: a call failed after it had changed a file

vars == <<call, files, cache, saver, w, rd, dirty>>

Version == Writers \cup {None}
Files == {"frag", "gql", "json"}
Item  == [frag : Version, gql : Version, json : Version]
NoItem == [f \in Files |-> None]

Call  == {[op |-> "set", frag |-> f, json |-> j] : f, j \in BOOLEAN}
           \cup {[op |-> "delete", frag |-> FALSE, json |-> FALSE]}

\* An entry and whether no file changed while it was read (history).
Entry == [item : Item, clean : BOOLEAN]

WriterPCs == {"start", "wait", "purge", "findGql", "delGql", "findJson",
              "delJson", "ok", "err"}
ReaderPCs == {"start", "findGql", "readGql", "readFrag", "findJson",
              "readJson", "add", "found", "unknown", "err"}

\* Types, and the saver works for whoever waits for it.
TypeOK ==
  /\ \A x \in Writers : w[x].pc = "wait" <=> saver.of = x
  /\ call \in [Writers -> Call]
  /\ files \in Item
  /\ cache \in Entry \cup {None}
  /\ saver \in [pc : {"idle", "frag", "gql", "json", "reply"}, of : Version,
                ok : BOOLEAN]
  /\ w \in [Writers -> [pc : WriterPCs, found : BOOLEAN]]
  /\ rd \in [Readers -> [pc : ReaderPCs, item : Item, clean : BOOLEAN]]
  /\ dirty \in BOOLEAN

Init ==
  /\ call \in [Writers -> Call]
  /\ files = NoItem
  /\ cache = None
  /\ saver = [pc |-> "idle", of |-> None, ok |-> TRUE]
  /\ w = [x \in Writers |-> [pc |-> "start", found |-> FALSE]]
  /\ rd = [r \in Readers |-> [pc |-> "start", item |-> NoItem, clean |-> TRUE]]
  /\ dirty = FALSE

-----------------------------------------------------------------------------
\* A write to one file; lookups in progress are not clean any more.
Put(f, v) ==
  /\ files' = [files EXCEPT ![f] = v]
  /\ rd' = [r \in Readers |-> [rd[r] EXCEPT !.clean = FALSE]]

(* The saver: fragments, query, variables.  What it does not write stays.  *)
After(x, pc) ==
  CASE pc = "start" -> IF call[x].frag THEN "frag" ELSE "gql"
    [] pc = "frag"  -> "gql"
    [] pc = "gql"   -> IF call[x].json THEN "json" ELSE "reply"
    [] pc = "json"  -> "reply"

\* al.saveChan <- req: the saver takes one request at a time.
Send(x) ==
  /\ w[x].pc = "start" /\ call[x].op = "set"
  /\ saver.pc = "idle"
  /\ saver' = [pc |-> After(x, "start"), of |-> x, ok |-> TRUE]
  /\ w' = [w EXCEPT ![x].pc = "wait"]
  /\ UNCHANGED <<call, files, cache, rd, dirty>>

SaveKeepsFragments ==   \* a variant: a fragment file that exists is kept
  /\ saver.pc \in Files
  /\ IF saver.pc = "frag" /\ files.frag # None
       THEN UNCHANGED <<files, rd>> ELSE Put(saver.pc, saver.of)
  /\ saver' = [saver EXCEPT !.pc = After(saver.of, saver.pc)]
  /\ UNCHANGED <<call, cache, w, dirty>>

Save ==
  /\ saver.pc \in Files
  /\ Put(saver.pc, saver.of)
  /\ saver' = [saver EXCEPT !.pc = After(saver.of, saver.pc)]
  /\ UNCHANGED <<call, cache, w, dirty>>

\* A Put fails; the files already written stay as they are.
SaveFails ==
  /\ saver.pc \in Files
  /\ saver' = [saver EXCEPT !.pc = "reply", !.ok = FALSE]
  /\ dirty' = (dirty \/ saver.pc # After(saver.of, "start"))
  /\ UNCHANGED <<call, files, cache, w, rd>>

\* req.done <- saveErr; the saver goes on with the next request.  Set purges
\* the cache afterwards, and only when the save succeeded.
ReplyOk ==      \* a variant: only a success is sent
  /\ saver.pc = "reply"
  /\ w' = IF saver.ok THEN [w EXCEPT ![saver.of].pc = "purge"] ELSE w
  /\ saver' = [pc |-> "idle", of |-> None, ok |-> TRUE]
  /\ UNCHANGED <<call, files, cache, rd, dirty>>

Reply ==
  /\ saver.pc = "reply"
  /\ w' = [w EXCEPT ![saver.of].pc = IF saver.ok THEN "purge" ELSE "err"]
  /\ saver' = [pc |-> "idle", of |-> None, ok |-> TRUE]
  /\ UNCHANGED <<call, files, cache, rd, dirty>>

-----------------------------------------------------------------------------
(* Delete: for each file, if it exists, remove it.                         *)
Begin(x) ==
  /\ w[x].pc = "start" /\ call[x].op = "delete"
  /\ w' = [w EXCEPT ![x].pc = "findGql"]
  /\ UNCHANGED <<call, files, cache, saver, rd, dirty>>

File(pc) == IF pc \in {"findGql", "delGql", "readGql"} THEN "gql" ELSE "json"
AfterFile(pc) == IF File(pc) = "gql" THEN "findJson" ELSE "purge"

Find(x) ==
  /\ w[x].pc \in {"findGql", "findJson"}
  /\ w' = [w EXCEPT ![x].pc =
             IF files[File(@)] = None THEN AfterFile(@)
             ELSE IF @ = "findGql" THEN "delGql" ELSE "delJson"]
  /\ UNCHANGED <<call, files, cache, saver, rd, dirty>>

Remove(x) ==
  /\ w[x].pc \in {"delGql", "delJson"}
  /\ files[File(w[x].pc)] # None
  /\ Put(File(w[x].pc), None)
  /\ w' = [w EXCEPT ![x] = [pc |-> AfterFile(@.pc), found |-> TRUE]]
  /\ UNCHANGED <<call, cache, saver, dirty>>

\* os.Remove fails, as it does when another call removed the file first.
RemoveFails(x) ==
  /\ w[x].pc \in {"delGql", "delJson"}
  /\ w' = [w EXCEPT ![x].pc = "err"]
  /\ dirty' = (dirty \/ w[x].found)
  /\ UNCHANGED <<call, files, cache, saver, rd>>

\* cache.Purge at the end of Set and of a Delete that found a file.
EndPurgesOnSet(x) ==      \* a variant: Delete forgets the cache
  /\ w[x].pc = "purge"
  /\ w' = [w EXCEPT ![x].pc =
             IF call[x].op = "set" \/ w[x].found THEN "ok" ELSE "err"]
  /\ IF call[x].op = "set" THEN cache' = None ELSE UNCHANGED cache
  /\ UNCHANGED <<call, files, saver, rd, dirty>>

End(x) ==
  /\ w[x].pc = "purge"
  /\ w' = [w EXCEPT ![x].pc =
             IF call[x].op = "set" \/ w[x].found THEN "ok" ELSE "err"]
  /\ IF call[x].op = "set" \/ w[x].found THEN cache' = None ELSE UNCHANGED cache
  /\ UNCHANGED <<call, files, saver, rd, dirty>>

-----------------------------------------------------------------------------
(* GetByName(name, true) and get.                                          *)
Reader(r, s) == rd' = [rd EXCEPT ![r] = s] /\ UNCHANGED <<call, files, saver, w, dirty>>
At(r, pc) == rd[r].pc = pc

Lookup(r) ==
  /\ rd[r].pc \in {"start", "found", "unknown", "err"}
  /\ Reader(r, IF cache # None
                 THEN [pc |-> "found", item |-> cache.item, clean |-> FALSE]
                 ELSE [pc |-> "findGql", item |-> NoItem, clean |-> TRUE])
  /\ UNCHANGED cache

FindGql(r) ==
  /\ At(r, "findGql")
  /\ Reader(r, [rd[r] EXCEPT !.pc = IF files.gql = None THEN "unknown" ELSE "readGql"])
  /\ UNCHANGED cache

\* The query with its imports inlined; a file removed meanwhile is an error.
ReadGql(r) ==
  /\ At(r, "readGql")
  /\ Reader(r, [rd[r] EXCEPT
       !.pc = IF files.gql = None THEN "err"
              ELSE IF call[files.gql].frag THEN "readFrag" ELSE "findJson",
       !.item.gql = files.gql])
  /\ UNCHANGED cache

ReadFrag(r) ==
  /\ At(r, "readFrag")
  /\ Reader(r, [rd[r] EXCEPT !.pc = "findJson", !.item.frag = files.frag])
  /\ UNCHANGED cache

FindJson(r) ==
  /\ At(r, "findJson")
  /\ Reader(r, [rd[r] EXCEPT !.pc = IF files.json = None THEN "add" ELSE "readJson"])
  /\ UNCHANGED cache

ReadJson(r) ==
  /\ At(r, "readJson")
  /\ Reader(r, [rd[r] EXCEPT !.pc = IF files.json = None THEN "err" ELSE "add",
                             !.item.json = files.json])
  /\ UNCHANGED cache

Add(r) ==
  /\ At(r, "add")
  /\ cache' = [item |-> rd[r].item, clean |-> rd[r].clean]
  /\ Reader(r, [rd[r] EXCEPT !.pc = "found"])

-----------------------------------------------------------------------------
SaverStep == Save \/ SaveFails \/ Reply
WriterStep(x) == Send(x) \/ Begin(x) \/ Find(x) \/ Remove(x) \/ RemoveFails(x) \/ End(x)
ReaderStep(r) == FindGql(r) \/ ReadGql(r) \/ ReadFrag(r) \/ FindJson(r) \/ ReadJson(r) \/ Add(r)

Next == \/ SaverStep
        \/ \E x \in Writers : WriterStep(x)
        \/ \E r \in Readers : Lookup(r) \/ ReaderStep(r)

\* Goroutines that can go on do; lookups are made at the callers' pleasure.
Fairness == /\ WF_vars(SaverStep)
            /\ \A x \in Writers : WF_vars(WriterStep(x))
            /\ \A r \in Readers : WF_vars(ReaderStep(r))

Spec == Init /\ [][Next]_vars /\ Fairness

-----------------------------------------------------------------------------
(* Properties.                                                             *)
Idle == saver.pc = "idle" /\ \A x \in Writers : w[x].pc \in {"start", "ok", "err"}

\* What the file of v and those it needs look like.
Fits(item) == item.gql # None /\ call[item.gql].frag => item.frag = item.gql

\* Sets that overlap do not mix: the query that is saved imports the fragment
\* that was saved with it, unless a save failed half way (one saver goroutine).
SavedWhole == Idle /\ ~dirty => Fits(files)

\* What a lookup that nothing disturbs reads.
Loaded == [files EXCEPT !.frag = IF call[files.gql].frag THEN @ ELSE None]

\* When nothing is being saved or removed, an entry of the cache is what the
\* files hold, unless its lookup overlapped a change or a call failed half
\* way: Set and Delete leave no older entry behind (cache.Purge).
PurgeDropsOld ==
  Idle /\ ~dirty /\ cache # None /\ cache.clean
    => files.gql # None /\ cache.item = Loaded

\* Every Set and Delete returns, whatever fails, and every lookup does.
AllReturn ==
  /\ \A x \in Writers : <>(w[x].pc \in {"ok", "err"})
  /\ \A r \in Readers : [](At(r, "findGql") => <>(rd[r].pc \in {"found", "unknown", "err"}))
=============================================================================
