--------------------------- MODULE AllowListProofs ---------------------------
(* Proofs about AllowList: types, that overlapping saves do not mix, and that  *)
(* the cache keeps no older entry, for every set of writers and readers.       *)
EXTENDS AllowList, TLAPS

-----------------------------------------------------------------------------
(* The inductive invariant.                                                *)

\* The saver works for a Set, which has a fragment when one is being saved.
SaverWorks ==
  /\ saver.pc = "idle" <=> saver.of = None
  /\ saver.pc # "idle" => call[saver.of].op = "set"
  /\ saver.pc = "frag" => call[saver.of].frag
  /\ saver.pc \in Files => saver.ok

\* While a save is between its fragment and its query, the query file may be
\* an older one that does not fit.
FilesFit ==
  ~dirty => IF saver.pc = "gql" /\ call[saver.of].frag
            THEN files.frag = saver.of ELSE Fits(files)

\* The save at hand has changed a file.
Wrote == \/ saver.pc \in Files /\ saver.pc # After(saver.of, "start")
         \/ saver.pc = "reply" /\ saver.ok

\* A call that has changed a file, or saved, and has not purged the cache yet.
Owes(x) == /\ w[x].pc \in {"findGql", "delGql", "findJson", "delJson", "purge"}
           /\ w[x].found \/ (w[x].pc = "purge" /\ call[x].op = "set")

\* What the files hold for a lookup.
Agrees(item) == files.gql # None /\ item = Loaded

\* An entry of the cache that is not what the files hold will be purged.
CacheOwed ==
  ~dirty /\ cache # None /\ cache.clean
    => Agrees(cache.item) \/ Wrote \/ \E x \in Writers : Owes(x)

\* What a lookup that nothing disturbed has read by the step it is at.
ReadGqlFile(i) == i.gql = files.gql /\ files.gql # None
ReadFragFile(i) == i.frag = IF call[files.gql].frag THEN files.frag ELSE None
Reads(pc, i) ==
  /\ pc = "findGql" => i = NoItem
  /\ pc = "readGql" => i = NoItem /\ files.gql # None
  /\ pc = "readFrag" => ReadGqlFile(i) /\ call[files.gql].frag /\ i.json = None
  /\ pc = "findJson" => ReadGqlFile(i) /\ ReadFragFile(i) /\ i.json = None
  /\ pc = "readJson" => ReadGqlFile(i) /\ ReadFragFile(i)
  /\ pc = "add" => Agrees(i)

CleanReads == \A r \in Readers : rd[r].clean => Reads(rd[r].pc, rd[r].item)

IInv == TypeOK /\ SaverWorks /\ FilesFit /\ CacheOwed /\ CleanReads

-----------------------------------------------------------------------------
(* Lemmas about files and lookups.                                         *)

Lookups == [pc : ReaderPCs, item : Item, clean : BOOLEAN]

LEMMA NoItemType == NoItem \in Item /\ NoItem.gql = None /\ NoItem.frag = None /\ NoItem.json = None
  BY DEF NoItem, Item, Files, Version

\* Two items with the same versions are the same.
LEMMA SameItem ==
  ASSUME NEW a \in Item, NEW b \in Item, a.frag = b.frag, a.gql = b.gql, a.json = b.json
  PROVE  a = b
  BY DEF Item

\* What the files hold for a lookup has a type.
LEMMA LoadedType ==
  ASSUME files \in Item
  PROVE  /\ Loaded \in Item
         /\ Loaded.gql = files.gql /\ Loaded.json = files.json
         /\ Loaded.frag = IF call[files.gql].frag THEN files.frag ELSE None
  BY DEF Loaded, Item, Version

\* What is put in a file: types, and no lookup in progress is clean.
LEMMA PutKeeps ==
  ASSUME TypeOK, NEW f \in Files, NEW v \in Version, Put(f, v)
  PROVE  /\ files' \in Item /\ files'[f] = v /\ \A g \in Files \ {f} : files'[g] = files[g]
         /\ rd' \in [Readers -> Lookups]
         /\ CleanReads'
<1>1. files' \in Item /\ files'[f] = v /\ \A g \in Files \ {f} : files'[g] = files[g]
  BY DEF Put, TypeOK, Item, Files
<1>2. \A r \in Readers : [rd[r] EXCEPT !.clean = FALSE] \in Lookups
                         /\ [rd[r] EXCEPT !.clean = FALSE].clean = FALSE
  BY DEF TypeOK, Lookups
<1> QED
  BY <1>1, <1>2 DEF Put, CleanReads

\* The invariant holds at first: nothing is saved and nobody waits.
LEMMA InitHolds == Init => IInv
<1> SUFFICES ASSUME Init PROVE IInv
  OBVIOUS
<1>1. TypeOK
  BY AllowAssumption, NoItemType
     DEF Init, TypeOK, Version, Entry, WriterPCs, ReaderPCs
<1>2. SaverWorks /\ FilesFit /\ CacheOwed
  BY NoItemType DEF Init, SaverWorks, FilesFit, CacheOwed, Fits, Files
<1>3. CleanReads
  BY DEF Init, CleanReads, Reads
<1> QED
  BY <1>1, <1>2, <1>3 DEF IInv

-----------------------------------------------------------------------------
(* The saver's steps.                                                      *)

\* A write of the saver: until it replies, it owes the cache a purge.
LEMMA SaveKeeps ==
  ASSUME IInv, Save
  PROVE  IInv'
<1> DEFINE x == saver.of
<1> USE DEF IInv
<1>1. x \in Writers /\ saver.pc \in Files /\ saver.ok /\ call[x].op = "set"
  BY DEF Save, SaverWorks, TypeOK, Version, Files
<1>2. /\ files' \in Item /\ files'[saver.pc] = x
      /\ \A g \in Files \ {saver.pc} : files'[g] = files[g]
      /\ rd' \in [Readers -> Lookups] /\ CleanReads'
  BY <1>1, PutKeeps DEF Save, Version
<1>3. /\ saver' = [pc |-> After(x, saver.pc), of |-> x, ok |-> TRUE]
      /\ UNCHANGED <<call, cache, w, dirty>>
  BY <1>1 DEF Save, TypeOK
<1>4. After(x, saver.pc) \in {"gql", "json", "reply"}
  BY <1>1 DEF After, Files
<1>5. TypeOK'
  BY <1>1, <1>2, <1>3, <1>4 DEF TypeOK, Lookups
<1>6. SaverWorks'
  BY <1>1, <1>3, <1>4, AllowAssumption DEF SaverWorks, Files
<1>7. FilesFit'
  BY <1>1, <1>2, <1>3 DEF FilesFit, Fits, After, Files, SaverWorks
<1>8. CacheOwed'
  BY <1>1, <1>3, <1>4 DEF CacheOwed, Wrote, After, Files, SaverWorks
<1> QED
  BY <1>2, <1>5, <1>6, <1>7, <1>8

\* A write that fails after another one leaves the files as they are.
LEMMA SaveFailsKeeps ==
  ASSUME IInv, SaveFails
  PROVE  IInv'
<1> DEFINE x == saver.of
<1> USE DEF IInv
<1>1. x \in Writers /\ saver.pc \in Files /\ call[x].op = "set"
  BY DEF SaveFails, SaverWorks, TypeOK, Version, Files
<1>2. /\ saver' = [pc |-> "reply", of |-> x, ok |-> FALSE]
      /\ dirty' = (dirty \/ saver.pc # After(x, "start"))
      /\ UNCHANGED <<call, files, cache, w, rd>>
  BY DEF SaveFails, TypeOK
<1>3. TypeOK'
  BY <1>1, <1>2 DEF TypeOK
<1>4. SaverWorks'
  BY <1>1, <1>2, AllowAssumption DEF SaverWorks, Files
<1>5. FilesFit'
  BY <1>1, <1>2 DEF FilesFit, Fits, After, Files
<1>6. CacheOwed'
  BY <1>1, <1>2 DEF CacheOwed, Wrote, Owes, Agrees, Loaded, Files
<1>7. CleanReads'
  BY <1>2 DEF CleanReads, Reads, ReadGqlFile, ReadFragFile, Agrees, Loaded
<1> QED
  BY <1>3, <1>4, <1>5, <1>6, <1>7

\* The saver's answer passes on the purge it owes.
LEMMA ReplyKeeps ==
  ASSUME IInv, Reply
  PROVE  IInv'
<1> DEFINE x == saver.of
<1> USE DEF IInv
<1>1. x \in Writers /\ call[x].op = "set" /\ w[x].pc = "wait"
  BY DEF Reply, SaverWorks, TypeOK, Version
<1>2. /\ saver' = [pc |-> "idle", of |-> None, ok |-> TRUE]
      /\ w' = [w EXCEPT ![x].pc = IF saver.ok THEN "purge" ELSE "err"]
      /\ UNCHANGED <<call, files, cache, rd, dirty>>
  BY DEF Reply
<1>3. w'[x].pc = (IF saver.ok THEN "purge" ELSE "err") /\ \A y \in Writers \ {x} : w'[y] = w[y]
  BY <1>1, <1>2 DEF TypeOK
<1>4. TypeOK'
  <2>1. w' \in [Writers -> [pc : WriterPCs, found : BOOLEAN]]
    BY <1>1, <1>2 DEF TypeOK, WriterPCs
  <2>2. \A y \in Writers : w'[y].pc = "wait" <=> saver'.of = y
    BY <1>1, <1>2, <1>3, AllowAssumption DEF TypeOK
  <2> QED
    BY <1>2, <2>1, <2>2 DEF TypeOK, Version
<1>5. SaverWorks'
  BY <1>2 DEF SaverWorks, Files
<1>6. FilesFit'
  BY <1>2 DEF Reply, FilesFit, Fits
<1>7. CacheOwed'
  <2> SUFFICES ASSUME ~dirty, cache # None, cache.clean, ~Agrees(cache.item)
               PROVE  \E y \in Writers : Owes(y)'
    BY <1>2 DEF CacheOwed, Agrees, Loaded
  <2>1. CASE saver.ok
    BY <1>1, <1>2, <1>3, <2>1 DEF Owes
  <2>2. CASE ~saver.ok
    <3>1. PICK y \in Writers : Owes(y)
      BY <2>2 DEF CacheOwed, Wrote, Reply, Files
    <3>2. y # x
      BY <1>1, <3>1 DEF Owes
    <3> QED
      BY <1>2, <1>3, <3>1, <3>2 DEF Owes
  <2> QED
    BY <2>1, <2>2
<1>8. CleanReads'
  BY <1>2 DEF CleanReads, Reads, ReadGqlFile, ReadFragFile, Agrees, Loaded
<1> QED
  BY <1>4, <1>5, <1>6, <1>7, <1>8

-----------------------------------------------------------------------------
(* The writers' steps.                                                     *)

\* The writers that step here are not the one the saver works for.
Apart(x) == w[x].pc # "wait" /\ saver.of # x

\* A step of a writer that leaves everything but its own state.
Alone(x) ==
  /\ UNCHANGED <<call, files, cache, saver, rd>>
  /\ w' \in [Writers -> [pc : WriterPCs, found : BOOLEAN]]
  /\ \A y \in Writers \ {x} : w'[y] = w[y]

\* It keeps the invariant if the writer goes on owing what it owed.
LEMMA AloneKeeps ==
  ASSUME IInv, NEW x \in Writers, Apart(x), Alone(x), w'[x].pc # "wait",
         dirty' \in BOOLEAN, dirty => dirty', Owes(x) /\ ~dirty' => Owes(x)'
  PROVE  IInv'
<1> USE DEF IInv
<1>1. UNCHANGED <<call, files, cache, saver, rd>>
  BY DEF Alone
<1>2. TypeOK'
  BY <1>1 DEF TypeOK, Apart, Alone
<1>3. SaverWorks' /\ FilesFit'
  BY <1>1 DEF SaverWorks, FilesFit, After, Fits
<1>4. CacheOwed'
  <2> SUFFICES ASSUME ~dirty', cache # None, cache.clean, ~Agrees(cache.item), ~Wrote
               PROVE  \E y \in Writers : Owes(y)'
    BY <1>1 DEF CacheOwed, Agrees, Loaded, Wrote, After
  <2>1. PICK y \in Writers : Owes(y)
    BY DEF CacheOwed
  <2>2. CASE y = x
    BY <2>1, <2>2
  <2>3. CASE y # x
    BY <1>1, <2>1, <2>3 DEF Owes, Alone
  <2> QED
    BY <2>2, <2>3
<1>5. CleanReads'
  BY <1>1 DEF CleanReads, Reads, ReadGqlFile, ReadFragFile, Agrees, Loaded
<1> QED
  BY <1>2, <1>3, <1>4, <1>5

LEMMA SendKeeps ==
  ASSUME IInv, NEW x \in Writers, Send(x)
  PROVE  IInv'
<1> USE DEF IInv
<1>1. /\ saver.pc = "idle" /\ saver.of = None /\ w[x].pc = "start" /\ call[x].op = "set"
      /\ saver' = [pc |-> After(x, "start"), of |-> x, ok |-> TRUE]
      /\ w' = [w EXCEPT ![x].pc = "wait"]
      /\ UNCHANGED <<call, files, cache, rd, dirty>>
  BY DEF Send, SaverWorks
<1>2. After(x, "start") = IF call[x].frag THEN "frag" ELSE "gql"
  BY DEF After
<1>3. TypeOK'
  <2>1. w' \in [Writers -> [pc : WriterPCs, found : BOOLEAN]]
    BY <1>1 DEF TypeOK, WriterPCs
  <2>2. \A y \in Writers : w'[y].pc = "wait" <=> saver'.of = y
    BY <1>1, AllowAssumption DEF TypeOK
  <2>3. saver' \in [pc : {"idle", "frag", "gql", "json", "reply"}, of : Version, ok : BOOLEAN]
    BY <1>1, <1>2 DEF Version
  <2> QED
    BY <1>1, <2>1, <2>2, <2>3 DEF TypeOK
<1>4. SaverWorks'
  BY <1>1, <1>2, AllowAssumption DEF SaverWorks
<1>5. FilesFit'
  BY <1>1, <1>2 DEF FilesFit, Fits
<1>6. CacheOwed'
  <2> SUFFICES ASSUME ~dirty, cache # None, cache.clean, ~Agrees(cache.item)
               PROVE  \E y \in Writers : Owes(y)'
    BY <1>1 DEF CacheOwed, Agrees, Loaded
  <2>1. PICK y \in Writers : Owes(y)
    BY <1>1 DEF CacheOwed, Wrote, Files
  <2>2. y # x
    BY <1>1, <2>1 DEF Owes
  <2> QED
    BY <1>1, <2>1, <2>2 DEF Owes, TypeOK
<1>7. CleanReads'
  BY <1>1 DEF CleanReads, Reads, ReadGqlFile, ReadFragFile, Agrees, Loaded
<1> QED
  BY <1>3, <1>4, <1>5, <1>6, <1>7

LEMMA BeginKeeps ==
  ASSUME IInv, NEW x \in Writers, Begin(x)
  PROVE  IInv'
<1>1. Apart(x) /\ Alone(x) /\ w'[x].pc # "wait"
  BY DEF Begin, IInv, TypeOK, Apart, Alone, WriterPCs
<1>2. ~Owes(x)
  BY DEF Begin, Owes
<1> QED
  BY <1>1, <1>2, AloneKeeps DEF Begin, IInv, TypeOK

LEMMA FindKeeps ==
  ASSUME IInv, NEW x \in Writers, Find(x)
  PROVE  IInv'
<1>1. Apart(x) /\ Alone(x)
  BY DEF Find, IInv, TypeOK, Apart, Alone, WriterPCs, AfterFile, File
<1>2. w'[x].found = w[x].found /\ w'[x].pc \in {"delGql", "findJson", "delJson", "purge"}
  BY DEF Find, IInv, TypeOK, AfterFile, File
<1>3. Owes(x) => Owes(x)'
  BY <1>2 DEF Find, Owes
<1> QED
  BY <1>1, <1>2, <1>3, AloneKeeps DEF Find, IInv, TypeOK

LEMMA RemoveKeeps ==
  ASSUME IInv, NEW x \in Writers, Remove(x)
  PROVE  IInv'
<1> DEFINE f == File(w[x].pc)
<1> USE DEF IInv
<1>1. f \in {"gql", "json"} /\ w[x].pc \in {"delGql", "delJson"}
  BY DEF Remove, File
<1>2. /\ files' \in Item /\ files'[f] = None
      /\ \A g \in Files \ {f} : files'[g] = files[g]
      /\ rd' \in [Readers -> Lookups] /\ CleanReads'
  BY <1>1, PutKeeps DEF Remove, Version, Files
<1>3. UNCHANGED <<call, cache, saver, dirty>> /\ w' = [w EXCEPT ![x] = [pc |-> AfterFile(@.pc), found |-> TRUE]]
  BY DEF Remove
<1>4. w'[x].pc \in {"findJson", "purge"} /\ w'[x].found
  BY <1>1, <1>3 DEF TypeOK, AfterFile, File
<1>5. w' \in [Writers -> [pc : WriterPCs, found : BOOLEAN]]
  BY <1>1, <1>3 DEF TypeOK, AfterFile, File, WriterPCs
<1>6. TypeOK'
  <2>1. \A y \in Writers : w'[y].pc = "wait" <=> saver'.of = y
    BY <1>1, <1>3, <1>4 DEF TypeOK
  <2> QED
    BY <1>2, <1>3, <1>5, <2>1 DEF TypeOK, Lookups
<1>7. SaverWorks'
  BY <1>3 DEF SaverWorks
<1>8. FilesFit'
  BY <1>1, <1>2, <1>3 DEF FilesFit, Fits, Files
<1>9. CacheOwed'
  BY <1>4 DEF CacheOwed, Owes
<1> QED
  BY <1>2, <1>6, <1>7, <1>8, <1>9

LEMMA RemoveFailsKeeps ==
  ASSUME IInv, NEW x \in Writers, RemoveFails(x)
  PROVE  IInv'
<1>1. Apart(x) /\ Alone(x) /\ w'[x].pc # "wait"
  BY DEF RemoveFails, IInv, TypeOK, Apart, Alone, WriterPCs
<1>2. Owes(x) => dirty'
  BY DEF RemoveFails, Owes
<1> QED
  BY <1>1, <1>2, AloneKeeps DEF RemoveFails, IInv, TypeOK

LEMMA EndKeeps ==
  ASSUME IInv, NEW x \in Writers, End(x)
  PROVE  IInv'
<1>1. Apart(x) /\ w'[x].pc # "wait" /\ UNCHANGED dirty
  BY DEF End, IInv, TypeOK, Apart
<1>2. CASE call[x].op = "set" \/ w[x].found
  <2> USE DEF IInv
  <2>1. cache' = None /\ UNCHANGED <<call, files, saver, rd, dirty>>
    BY <1>2 DEF End
  <2>2. w' \in [Writers -> [pc : WriterPCs, found : BOOLEAN]] /\ \A y \in Writers \ {x} : w'[y] = w[y]
    BY DEF End, TypeOK, WriterPCs
  <2>3. TypeOK'
    BY <1>1, <2>1, <2>2 DEF TypeOK, Apart
  <2>4. SaverWorks' /\ FilesFit' /\ CacheOwed'
    BY <2>1 DEF SaverWorks, FilesFit, Fits, CacheOwed
  <2>5. CleanReads'
    BY <2>1 DEF CleanReads, Reads, ReadGqlFile, ReadFragFile, Agrees, Loaded
  <2> QED
    BY <2>3, <2>4, <2>5
<1>3. CASE ~(call[x].op = "set" \/ w[x].found)
  <2>1. Alone(x) /\ ~Owes(x)
    BY <1>3 DEF End, IInv, TypeOK, Alone, WriterPCs, Owes
  <2> QED
    BY <1>1, <2>1, AloneKeeps DEF IInv, TypeOK
<1> QED
  BY <1>2, <1>3

-----------------------------------------------------------------------------
(* The lookups' steps.                                                     *)

\* A lookup that reads keeps the invariant if, undisturbed, it has read what it
\* should have by the step it comes to.
LEMMA ReaderKeeps ==
  ASSUME IInv, NEW r \in Readers, NEW s \in Lookups, Reader(r, s), UNCHANGED cache,
         s.clean => Reads(s.pc, s.item)
  PROVE  IInv'
<1> USE DEF IInv
<1>1. rd' = [rd EXCEPT ![r] = s] /\ UNCHANGED <<call, files, cache, saver, w, dirty>>
  BY DEF Reader
<1>2. TypeOK'
  BY <1>1 DEF TypeOK, Lookups
<1>3. SaverWorks' /\ FilesFit'
  BY <1>1 DEF SaverWorks, FilesFit, Fits
<1>4. CacheOwed'
  BY <1>1 DEF CacheOwed, Agrees, Loaded, Wrote, After, Owes
<1>5. CleanReads'
  BY <1>1 DEF TypeOK, CleanReads, Reads, ReadGqlFile, ReadFragFile, Agrees, Loaded
<1> QED
  BY <1>2, <1>3, <1>4, <1>5

\* One that finds its entry is not clean; one that does not starts anew.
LEMMA LookupKeeps ==
  ASSUME IInv, NEW r \in Readers, Lookup(r)
  PROVE  IInv'
<1> DEFINE s == IF cache # None
                  THEN [pc |-> "found", item |-> cache.item, clean |-> FALSE]
                  ELSE [pc |-> "findGql", item |-> NoItem, clean |-> TRUE]
<1>1. s \in Lookups
  BY NoItemType DEF IInv, TypeOK, Entry, Lookups, ReaderPCs
<1>2. s.clean => Reads(s.pc, s.item)
  BY DEF Reads
<1>3. Reader(r, s) /\ UNCHANGED cache
  BY DEF Lookup
<1> HIDE DEF s
<1> QED
  BY <1>1, <1>2, <1>3, ReaderKeeps

\* The four reads of a file.
LEMMA ReadsKeep ==
  ASSUME IInv, NEW r \in Readers, FindGql(r) \/ ReadGql(r) \/ ReadFrag(r) \/ FindJson(r) \/ ReadJson(r)
  PROVE  IInv'
<1> DEFINE old == rd[r]
           i == rd[r].item
<1>1. /\ old \in Lookups /\ i \in Item /\ files \in Item
      /\ files.gql \in Version /\ files.frag \in Version /\ files.json \in Version
      /\ old.clean => Reads(old.pc, i)
  BY DEF IInv, TypeOK, Lookups, Item, CleanReads
<1>2. CASE FindGql(r)
  <2> DEFINE s == [old EXCEPT !.pc = IF files.gql = None THEN "unknown" ELSE "readGql"]
  <2>1. s \in Lookups /\ (s.clean => Reads(s.pc, s.item))
    BY <1>1, <1>2 DEF FindGql, At, Lookups, ReaderPCs, Reads
  <2>2. Reader(r, s) /\ UNCHANGED cache
    BY <1>2 DEF FindGql
  <2> HIDE DEF s
  <2> QED
    BY <2>1, <2>2, ReaderKeeps
<1>3. CASE ReadGql(r)
  <2> DEFINE pc == IF files.gql = None THEN "err"
                   ELSE IF call[files.gql].frag THEN "readFrag" ELSE "findJson"
             s == [old EXCEPT !.pc = pc, !.item.gql = files.gql]
  <2>1. s \in Lookups /\ s.pc = pc /\ s.clean = old.clean /\ s.item.gql = files.gql
        /\ s.item.frag = i.frag /\ s.item.json = i.json
    BY <1>1 DEF Lookups, Item, ReaderPCs
  <2>2. s.clean => Reads(s.pc, s.item)
    <3> HIDE DEF s
    <3> QED
      BY <1>1, <1>3, <2>1, NoItemType DEF ReadGql, At, Reads, ReadGqlFile, ReadFragFile
  <2>3. Reader(r, s) /\ UNCHANGED cache
    BY <1>3 DEF ReadGql
  <2> HIDE DEF s
  <2> QED
    BY <2>1, <2>2, <2>3, ReaderKeeps
<1>4. CASE ReadFrag(r)
  <2> DEFINE s == [old EXCEPT !.pc = "findJson", !.item.frag = files.frag]
  <2>1. s \in Lookups /\ s.pc = "findJson" /\ s.clean = old.clean /\ s.item.gql = i.gql
        /\ s.item.frag = files.frag /\ s.item.json = i.json
    BY <1>1 DEF Lookups, Item, ReaderPCs
  <2>2. s.clean => Reads(s.pc, s.item)
    <3> HIDE DEF s
    <3> QED
      BY <1>1, <1>4, <2>1 DEF ReadFrag, At, Reads, ReadGqlFile, ReadFragFile
  <2>3. Reader(r, s) /\ UNCHANGED cache
    BY <1>4 DEF ReadFrag
  <2> HIDE DEF s
  <2> QED
    BY <2>1, <2>2, <2>3, ReaderKeeps
<1>5. CASE FindJson(r)
  <2> DEFINE s == [old EXCEPT !.pc = IF files.json = None THEN "add" ELSE "readJson"]
  <2>1. s \in Lookups /\ s.pc = (IF files.json = None THEN "add" ELSE "readJson")
        /\ s.clean = old.clean /\ s.item = i
    BY <1>1 DEF Lookups, ReaderPCs
  <2>2. old.clean /\ files.json = None => i = Loaded
    BY <1>1, <1>5, LoadedType, SameItem DEF FindJson, At, Reads, ReadGqlFile, ReadFragFile
  <2>3. s.clean => Reads(s.pc, s.item)
    <3> HIDE DEF s
    <3> QED
      BY <1>1, <1>5, <2>1, <2>2 DEF FindJson, At, Reads, ReadGqlFile, Agrees
  <2>4. Reader(r, s) /\ UNCHANGED cache
    BY <1>5 DEF FindJson
  <2> HIDE DEF s
  <2> QED
    BY <2>1, <2>3, <2>4, ReaderKeeps
<1>6. CASE ReadJson(r)
  <2> DEFINE s == [old EXCEPT !.pc = IF files.json = None THEN "err" ELSE "add", !.item.json = files.json]
  <2>1. s \in Lookups /\ s.pc = (IF files.json = None THEN "err" ELSE "add") /\ s.clean = old.clean
        /\ s.item \in Item /\ s.item.gql = i.gql /\ s.item.frag = i.frag /\ s.item.json = files.json
    BY <1>1 DEF Lookups, Item, ReaderPCs
  <2> HIDE DEF s
  <2>2. old.clean => s.item = Loaded /\ files.gql # None
    BY <1>1, <1>6, <2>1, LoadedType, SameItem DEF ReadJson, At, Reads, ReadGqlFile, ReadFragFile
  <2>3. s.clean => Reads(s.pc, s.item)
    BY <2>1, <2>2 DEF Reads, Agrees
  <2>4. Reader(r, s) /\ UNCHANGED cache
    BY <1>6 DEF ReadJson, s
  <2> QED
    BY <2>1, <2>3, <2>4, ReaderKeeps
<1> QED
  BY <1>2, <1>3, <1>4, <1>5, <1>6

\* What an undisturbed lookup adds to the cache is what the files hold.
LEMMA AddKeeps ==
  ASSUME IInv, NEW r \in Readers, Add(r)
  PROVE  IInv'
<1> USE DEF IInv
<1>1. /\ cache' = [item |-> rd[r].item, clean |-> rd[r].clean]
      /\ rd' = [rd EXCEPT ![r] = [rd[r] EXCEPT !.pc = "found"]]
      /\ UNCHANGED <<call, files, saver, w, dirty>>
  BY DEF Add, Reader
<1>2. TypeOK'
  BY <1>1 DEF TypeOK, Entry, ReaderPCs
<1>3. SaverWorks' /\ FilesFit'
  BY <1>1 DEF SaverWorks, FilesFit, Fits
<1>4. CacheOwed'
  BY <1>1 DEF Add, At, CacheOwed, CleanReads, Reads, Agrees, Loaded
<1>5. CleanReads'
  BY <1>1 DEF TypeOK, CleanReads, Reads, ReadGqlFile, ReadFragFile, Agrees, Loaded
<1> QED
  BY <1>2, <1>3, <1>4, <1>5

-----------------------------------------------------------------------------
(* The theorems.                                                           *)

\* Every step keeps the invariant.
LEMMA Invariance == Spec => []IInv
<1>1. IInv /\ [Next]_vars => IInv'
  <2> SUFFICES ASSUME IInv, [Next]_vars
               PROVE  IInv'
    OBVIOUS
  <2>1. CASE SaverStep
    BY <2>1, SaveKeeps, SaveFailsKeeps, ReplyKeeps DEF SaverStep
  <2>2. CASE \E x \in Writers : WriterStep(x)
    BY <2>2, SendKeeps, BeginKeeps, FindKeeps, RemoveKeeps, RemoveFailsKeeps, EndKeeps DEF WriterStep
  <2>3. CASE \E r \in Readers : Lookup(r) \/ ReaderStep(r)
    BY <2>3, LookupKeeps, ReadsKeep, AddKeeps DEF ReaderStep
  <2>4. CASE UNCHANGED vars
    BY <2>4 DEF vars, IInv, TypeOK, SaverWorks, FilesFit, Fits, CacheOwed, Wrote, After, Owes,
                Agrees, Loaded, CleanReads, Reads, ReadGqlFile, ReadFragFile
  <2> QED
    BY <2>1, <2>2, <2>3, <2>4 DEF Next
<1> QED
  BY InitHolds, <1>1, PTL DEF Spec

\* The state always has its types, and the saver works for whoever waits for it.
THEOREM AllowTyped == Spec => []TypeOK
<1>1. IInv => TypeOK
  BY DEF IInv
<1> QED
  BY Invariance, <1>1, PTL

\* Set (allow.go): saves that overlap do not mix, because one goroutine writes
\* them: at rest the query imports the fragment that was saved with it, unless
\* a save failed half way.
THEOREM AllowSavedWhole == Spec => []SavedWhole
<1>1. IInv => SavedWhole
  BY DEF IInv, FilesFit, SavedWhole, Idle
<1> QED
  BY Invariance, <1>1, PTL

\* Set and Delete (allow.go) leave no older entry in the LRU cache: at rest,
\* what an undisturbed lookup put there is what the files hold.
THEOREM AllowPurgeDropsOld == Spec => []PurgeDropsOld
<1>1. IInv => PurgeDropsOld
  <2> SUFFICES ASSUME IInv, Idle, ~dirty, cache # None, cache.clean
               PROVE  Agrees(cache.item)
    BY DEF PurgeDropsOld, Agrees
  <2>1. ~Wrote
    BY DEF Idle, Wrote, Files
  <2>2. ~\E x \in Writers : Owes(x)
    BY DEF Idle, Owes
  <2> QED
    BY <2>1, <2>2 DEF IInv, CacheOwed
<1> QED
  BY Invariance, <1>1, PTL
=============================================================================
