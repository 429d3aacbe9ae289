------------------------------ MODULE RoundTrip ------------------------------
(***************************************************************************)
(* What goes into a vault and what comes out of it: PutPath (vault.go and  *)
(* rsyncput) reads a user's files, which may change meanwhile, through the *)
(* chunker into objects and then saves the manifests; ExportPath           *)
(* (export.go) and GetPath restore files and ZIP archives at a place that  *)
(* may already hold the user's own, while other exports, puts and the      *)
(* garbage collection go on.  Encryption is left out: a stored object is   *)
(* read as the chunk it holds or not at all.  What any specification has   *)
(* is prefixed with the initials of this module, so that another can       *)
(* extend it beside its own.                                               *)
(***************************************************************************)
EXTENDS Chunker

CONSTANTS
    Files,      \* the user's files, a sequence in the order of sort.Strings
    Content,    \* what a file may hold: sequences of bytes
    Archive,    \* the path of a ZIP
    NoFile,     \* no file, no record
    Own,        \* a file of the user's at the destination
    Exporter,   \* calls of ExportPath or GetPath, each made once
    Bounds      \* bounds: how many puts, changes to the source files, and exports,
                \* the kinds of export, and which files the user may have at the targets

File   == Range(Files)
Target == File \cup {Archive}

Kind   == {"folder", "zip", "get"}

ASSUME RoundTripAssumption ==
    /\ Files \in Seq(File) \ {<<>>} /\ IsInjective(Files) /\ Archive \notin File
    /\ Content \subseteq Seq(Byte) /\ NoFile # Own
    /\ \A v \in {NoFile, Own} :
          v \notin Seq(Byte) /\ \A some \in SUBSET File : v \notin [some -> Seq(Byte)]
    /\ Bounds \subseteq [puts : Nat, edits : Nat, exports : 0 .. Cardinality(Exporter),
                   kinds : SUBSET Kind, own : SUBSET SUBSET Target]

\* The options of a call, as normalizeOverwrite and normalizeMethod leave them, and the
\* rsync executables there may be.
Method  == {"auto", "native", "managed-rsync", "system-rsync"}
Runtime == {"managed-rsync", "system-rsync"}
Order  == [kind : {"folder"}, overwrite : {"fail", "skip", "replace"}, dry : BOOLEAN]
          \cup [kind : {"zip"}, overwrite : {"fail", "skip", "replace"}, dry : BOOLEAN]
          \cup {[kind |-> "get", overwrite |-> "replace", dry |-> FALSE]}

VARIABLES
    bounds,     \* never changes
    source,     \* the user's files
    index,      \* the manifests: a record or NoFile for each file
    objects,    \* the stored chunks
    put,        \* the put that runs
    export,     \* each export
    dest,       \* what is at each target
    puts, edits,
    saved,      \* history: the contents that each file has had in the index
    own         \* never changes: the targets that held a file of the user's

RTvars == <<bounds, source, index, objects, put, export, dest, puts, edits, saved, own>>

NoPut == [pc |-> "idle", method |-> "native", todo |-> <<>>, copies |-> <<>>, size |-> 0,
         pos |-> 0, feed |-> NothingFed, recs |-> <<>>]

NotBegun == [pc |-> "idle", order |-> [kind |-> "get", overwrite |-> "replace", dry |-> FALSE],
             todo |-> {}, idx |-> <<>>, tmp |-> <<>>, out |-> <<>>, skipped |-> {}]

Plain(rec) == FlattenSeq(rec.chunks)

\* The function fun with value v at a.
With(fun, a, v) == [z \in DOMAIN fun \cup {a} |-> IF z = a THEN v ELSE fun[z]]

Stored(c) == [size |-> Len(c), chunks |-> Finish(Feed(NothingFed, c)), method |-> "native"]

\* A vault that holds some of the files, a destination that holds some of the user's.
RTInit ==
    /\ bounds \in Bounds
    /\ source \in IF bounds.puts = 0 THEN {[f \in File |-> CHOOSE c \in Content : TRUE]}
                  ELSE [File -> Content]
    /\ \E there \in SUBSET File, c \in Content :
          /\ index = [f \in File |-> IF f \in there THEN Stored(c) ELSE NoFile]
          /\ saved = [f \in File |-> IF f \in there THEN {c} ELSE {}]
    /\ objects = UNION {Range(index[f].chunks) : f \in {g \in File : index[g] # NoFile}}
    /\ put = NoPut
    /\ export = [x \in Exporter |-> NotBegun]
    /\ own \in bounds.own
    /\ dest = [t \in Target |-> IF t \in own THEN Own ELSE NoFile]
    /\ puts = 0 /\ edits = 0

-----------------------------------------------------------------------------
\* The way in.  The user may write to a file in place at any time.
Edit(f, c) ==
    /\ edits < bounds.edits /\ source[f] # c
    /\ source' = [source EXCEPT ![f] = c] /\ edits' = edits + 1
    /\ UNCHANGED <<bounds, index, objects, put, export, dest, puts, saved, own>>

\* rsyncput.PutPath: which way a put goes with the executables found; only auto does
\* without one.
Way(method, found) ==
    IF method = "native" \/ (method = "auto" /\ found = {}) THEN "native"
    ELSE IF method \in found \cup {"auto"} THEN "rsync" ELSE "none"

\* The files of the directory, or one of them, are put.
BeginPut(way, files) ==
    /\ put.pc = "idle" /\ puts < bounds.puts /\ way # "none"
    /\ puts' = puts + 1
    /\ put' = [NoPut EXCEPT !.pc = IF way = "rsync" THEN "staging" ELSE "open",
                           !.method = way, !.todo = files]
    /\ UNCHANGED <<bounds, source, index, objects, export, dest, edits, saved, own>>

\* rsync copies the next file into the staging directory.
Stage ==
    /\ put.pc = "staging"
    /\ LET f == put.todo[Cardinality(DOMAIN put.copies) + 1]
           copies == With(put.copies, f, source[f])
       IN put' = [put EXCEPT !.copies = copies,
                             !.pc = IF Cardinality(DOMAIN copies) = Len(put.todo)
                                    THEN "open" ELSE "staging"]
    /\ UNCHANGED <<bounds, source, index, objects, export, dest, puts, edits, saved, own>>

\* The file that the put reads.
Given(f) == IF put.method = "rsync" THEN put.copies[f] ELSE source[f]

\* putFile: the size is taken before the first byte is read.
OpenFile ==
    /\ put.pc = "open"
    /\ put' = [put EXCEPT !.pc = "read", !.pos = 0, !.feed = NothingFed,
                          !.size = Len(Given(put.todo[1]))]
    /\ UNCHANGED <<bounds, source, index, objects, export, dest, puts, edits, saved, own>>

\* ForEachChunk: one read, of any length, and storeChunk for each chunk emitted.
Read ==
    /\ put.pc = "read" /\ put.pos < Len(Given(put.todo[1]))
    /\ \E n \in put.pos + 1 .. Len(Given(put.todo[1])) :
          LET feed == Feed(put.feed, SubSeq(Given(put.todo[1]), put.pos + 1, n))
          IN /\ put' = [put EXCEPT !.pos = n, !.feed = feed]
             /\ objects' = objects \cup Range(feed.refs)
    /\ UNCHANGED <<bounds, source, index, export, dest, puts, edits, saved, own>>

\* The reader is at its end: the rest becomes a chunk, putReader makes the record.
\* The manifests are saved when every file has been read.
EndOfFile ==
    /\ put.pc = "read" /\ put.pos >= Len(Given(put.todo[1]))
    /\ LET refs == Finish(put.feed)
           rec  == [size |-> put.size, chunks |-> refs, method |-> put.method]
           rest == Tail(put.todo)
           recs == Append(put.recs, <<put.todo[1], rec>>)
       IN /\ objects' = objects \cup Range(refs)
          /\ put' = [put EXCEPT !.pc = IF rest = <<>> THEN "save" ELSE "open",
                                !.todo = rest, !.recs = recs]
    /\ UNCHANGED <<bounds, source, index, export, dest, puts, edits, saved, own>>

\* saveFileManifest, one file after another.
SaveFileManifest ==
    /\ put.pc = "save"
    /\ LET f == Head(put.recs)[1]
           rec == Head(put.recs)[2]
           rest == Tail(put.recs)
       IN /\ index' = [index EXCEPT ![f] = rec]
          /\ saved' = [saved EXCEPT ![f] = @ \cup {Plain(rec)}]
          /\ put' = IF rest = <<>> THEN NoPut ELSE [put EXCEPT !.recs = rest]
    /\ UNCHANGED <<bounds, source, objects, export, dest, puts, edits, own>>

\* Mutant: a put that fails leaves its records to the next one.
FailPutKeeping ==
    /\ put.pc # "idle" /\ put' = [NoPut EXCEPT !.recs = put.recs]
    /\ UNCHANGED <<bounds, source, index, objects, export, dest, puts, edits, saved, own>>

\* A staging, reading or writing error, or the process is killed.
FailPut ==
    /\ put.pc # "idle" /\ put' = NoPut
    /\ UNCHANGED <<bounds, source, index, objects, export, dest, puts, edits, saved, own>>

\* RemovePath and, nothing being put, the garbage collection.
RemovePath(f) ==
    /\ index[f] # NoFile /\ put.pc = "idle"
    /\ index' = [index EXCEPT ![f] = NoFile]
    /\ UNCHANGED <<bounds, source, objects, put, export, dest, puts, edits, saved, own>>

Referenced(idx) == UNION {Range(idx[f].chunks) : f \in {g \in File : idx[g] # NoFile}}

GarbageCollect ==
    /\ put.pc = "idle" /\ objects # Referenced(index)
    /\ objects' = Referenced(index)
    /\ UNCHANGED <<bounds, source, index, put, export, dest, puts, edits, saved, own>>

-----------------------------------------------------------------------------
\* The way out.  What is to come to target t, by the index that was loaded.
Wanted(x, t) ==
    IF t = Archive THEN [f \in DOMAIN export[x].idx |-> Plain(export[x].idx[f])]
    ELSE Plain(export[x].idx[t])

Began(x) == export[x].pc # "idle"

\* ExportPath and GetPath up to the first target: exportMatches loads the index;
\* a dry run returns what it would do, and looks at nothing.
BeginExport(x, order, asked) ==
    /\ export[x].pc = "idle" /\ Cardinality({y \in Exporter : Began(y)}) < bounds.exports
    /\ LET found == {f \in asked : index[f] # NoFile}
       IN export' = [export EXCEPT
              ![x].order = order,
              ![x].idx = [f \in found |-> index[f]],
              ![x].todo = IF order.kind = "zip" THEN {Archive} ELSE found,
              ![x].pc = IF found = {} THEN "failed" ELSE IF order.dry THEN "ok" ELSE "check"]
    /\ UNCHANGED <<bounds, source, index, objects, put, dest, puts, edits, saved, own>>

\* The targets come in the order of sort.Strings; the archive is the only one of a ZIP.
Place(t) == IF t = Archive THEN 0 ELSE CHOOSE i \in DOMAIN Files : Files[i] = t
Current(e) == CHOOSE t \in e.todo : \A u \in e.todo : Place(t) <= Place(u)

\* On to the next target, or an answer.
Advance(e) == [e EXCEPT !.todo = @ \ {Current(e)}, !.tmp = <<>>,
                        !.pc = IF e.todo = {Current(e)} THEN "ok" ELSE "check"]

\* Mutant: skip is taken for replace.
CheckOverwriteLenient(x) ==
    /\ export[x].pc = "check"
    /\ LET e == export[x]
           there == dest[Current(e)] # NoFile
       IN export' = [export EXCEPT ![x] =
              CASE there /\ e.order.overwrite = "fail" -> [e EXCEPT !.pc = "failed"]
                [] e.order.overwrite = "replace" /\ e.order.kind = "zip" ->
                      [e EXCEPT !.pc = "remove"]
                [] OTHER -> [e EXCEPT !.pc = "write"]]
    /\ UNCHANGED <<bounds, source, index, objects, put, dest, puts, edits, saved, own>>

\* checkOverwrite.  For a ZIP, the old one is removed before the new one is
\* written; GetPath has no policy and overwrites.
CheckOverwrite(x) ==
    /\ export[x].pc = "check"
    /\ LET e == export[x]
           there == dest[Current(e)] # NoFile
       IN export' = [export EXCEPT ![x] =
              CASE there /\ e.order.overwrite = "fail" -> [e EXCEPT !.pc = "failed"]
                [] there /\ e.order.overwrite = "skip" ->
                      [Advance(e) EXCEPT !.skipped = @ \cup {Current(e)}]
                [] e.order.overwrite = "replace" /\ e.order.kind = "zip" ->
                      [e EXCEPT !.pc = "remove"]
                [] OTHER -> [e EXCEPT !.pc = "write"]]
    /\ UNCHANGED <<bounds, source, index, objects, put, dest, puts, edits, saved, own>>

Loadable(x, t) ==
    LET asked == IF t = Archive THEN DOMAIN export[x].idx ELSE {t}
    IN \A f \in asked : Range(export[x].idx[f].chunks) \subseteq objects

Written(x) == IF export[x].order.kind = "folder" /\ export[x].order.overwrite = "replace"
              THEN "remove" ELSE "rename"

\* Mutant: a chunk that cannot be loaded is left out.
WriteTempLenient(x) ==
    /\ export[x].pc = "write"
    /\ LET t == Current(export[x])
           Part(f) == FlattenSeq(SelectSeq(export[x].idx[f].chunks, LAMBDA c : c \in objects))
       IN export' = [export EXCEPT
              ![x].tmp = IF t = Archive THEN [f \in DOMAIN export[x].idx |-> Part(f)] ELSE Part(t),
              ![x].pc = Written(x)]
    /\ UNCHANGED <<bounds, source, index, objects, put, dest, puts, edits, saved, own>>

\* Mutant: a file with a chunk that cannot be loaded is passed over.
WriteTempGoingOn(x) ==
    /\ export[x].pc = "write"
    /\ LET t == Current(export[x])
       IN export' = [export EXCEPT
              ![x] = IF Loadable(x, t) THEN [@ EXCEPT !.tmp = Wanted(x, t), !.pc = Written(x)]
                     ELSE Advance(@)]
    /\ UNCHANGED <<bounds, source, index, objects, put, dest, puts, edits, saved, own>>

\* restoreFile, restoreFileWithOverwrite and writeZip: the content goes to a
\* temporary file, which is given up when a chunk cannot be loaded.
WriteTemp(x) ==
    /\ export[x].pc = "write"
    /\ LET t == Current(export[x])
       IN export' = [export EXCEPT
              ![x].tmp = IF Loadable(x, t) THEN Wanted(x, t) ELSE <<>>,
              ![x].pc = IF Loadable(x, t) THEN Written(x) ELSE "failed"]
    /\ UNCHANGED <<bounds, source, index, objects, put, dest, puts, edits, saved, own>>

\* os.Remove, whose error is ignored.
RemoveTarget(x) ==
    /\ export[x].pc = "remove"
    /\ dest' \in {dest, [dest EXCEPT ![Current(export[x])] = NoFile]}
    /\ export' = [export EXCEPT ![x].pc = IF export[x].order.kind = "zip"
                                            THEN "write" ELSE "rename"]
    /\ UNCHANGED <<bounds, source, index, objects, put, puts, edits, saved, own>>

Rename(x) ==
    /\ export[x].pc = "rename"
    /\ LET e == export[x]
           t == Current(e)
       IN /\ dest' = [dest EXCEPT ![t] = e.tmp]
          /\ export' = [export EXCEPT ![x] = [Advance(e) EXCEPT !.out = With(@, t, e.tmp)]]
    /\ UNCHANGED <<bounds, source, index, objects, put, puts, edits, saved, own>>

\* An error on the way, a cancelled request, or the process is killed.
FailExport(x) ==
    /\ export[x].pc \in {"check", "write", "remove", "rename"}
    /\ export' = [export EXCEPT ![x].pc = "failed", ![x].tmp = <<>>]
    /\ UNCHANGED <<bounds, source, index, objects, put, dest, puts, edits, saved, own>>

Whatever == {Files} \cup {<<f>> : f \in File}

\* The put command and the GUI's upload of a path, but for large imports (VaultMove).
Put ==
    \/ \E method \in Method, found \in SUBSET Runtime, files \in Whatever :
          BeginPut(Way(method, found), files)
    \/ Stage \/ OpenFile \/ Read \/ EndOfFile \/ SaveFileManifest \/ FailPut

Begin(x, kinds) ==
    \E order \in {o \in Order : o.kind \in kinds \cap bounds.kinds}, files \in Whatever :
        BeginExport(x, order, Range(files))

\* ExportPath: its targets one after another.
Export(x) ==
    \/ Begin(x, {"folder", "zip"})
    \/ /\ export[x].order.kind # "get"
       /\ CheckOverwrite(x) \/ WriteTemp(x) \/ RemoveTarget(x) \/ Rename(x) \/ FailExport(x)

\* GetPath, with restoreFile for each file: no policy, and no removal.
Get(x) ==
    \/ Begin(x, {"get"})
    \/ /\ export[x].order.kind = "get"
       /\ CheckOverwrite(x) \/ WriteTemp(x) \/ Rename(x) \/ FailExport(x)

RTNext ==
    \/ \E f \in File, c \in Content : Edit(f, c)
    \/ Put
    \/ \E f \in File : RemovePath(f)
    \/ GarbageCollect
    \/ \E x \in Exporter : Export(x) \/ Get(x)

RTSpec == RTInit /\ [][RTNext]_RTvars

-----------------------------------------------------------------------------
Targets(x) == IF export[x].order.kind = "zip" THEN {Archive} ELSE DOMAIN export[x].idx
Acting(x) == Began(x) /\ ~export[x].order.dry

\* Types: a put that has ended, and one that failed, leaves nothing behind; a call
\* that has ended has given up its temporary file (one that a kill or a failed rename
\* leaves is never used again); an index names only stored chunks.
RTTypeOK ==
    /\ source \in [File -> Content]
    /\ put.pc \in {"idle", "staging", "open", "read", "save"}
    /\ put.pc = "idle" => put = NoPut
    /\ Referenced(index) \subseteq objects
    /\ \A x \in Exporter :
          /\ export[x].pc \in {"idle", "check", "write", "remove", "rename", "ok", "failed"}
          /\ export[x].pc \in {"ok", "failed"} => export[x].tmp = <<>>
    /\ own \subseteq Target /\ puts \in 0 .. bounds.puts /\ edits \in 0 .. bounds.edits

\* However the reader hands out its bytes, and even when the user writes to the
\* file meanwhile, a record's chunks are those of one content, cut where that
\* content alone says and within the sizes configured, so that a second put of
\* it stores nothing new.  A record of a staged put also has its content's size;
\* for one of a native put the size was taken before the file was read.
ChunksSound ==
    \A f \in File :
        index[f] # NoFile =>
            /\ IsChunking(index[f].chunks, Plain(index[f]))
            /\ \A i \in 1 .. Len(index[f].chunks) :
                  LET n == Len(index[f].chunks[i])
                  IN n <= MaxSize /\ (i < Len(index[f].chunks) => n >= MinSize)
            /\ index[f].method = "rsync" => index[f].size = Len(Plain(index[f]))

\* What is at a target is the user's, or a whole content that the vault has had
\* for that file, or a ZIP that holds a whole content of every file some export
\* found; and nothing that was there is missing, except under an export that
\* replaces and has removed it, to write or rename next or stopped by an error.
DestinationWhole ==
    /\ \A f \in File : dest[f] \in {NoFile, Own} \cup saved[f]
    /\ dest[Archive] \notin {NoFile, Own} =>
          \E x \in Exporter : Acting(x) /\ dest[Archive] = Wanted(x, Archive)
    /\ \A t \in own : dest[t] = NoFile =>
          \E x \in Exporter : /\ Acting(x) /\ t \in Targets(x)
                             /\ export[x].order.overwrite = "replace"
                             /\ export[x].pc \in {"write", "rename", "failed"}
                             /\ t \notin DOMAIN export[x].out

\* Export's overwrite policies: a file of the user's is gone only if some export
\* of that target was asked to replace, or a get, which never asks.
PolicyKept ==
    \A t \in own : dest[t] # Own =>
        \E x \in Exporter : Acting(x) /\ t \in Targets(x) /\ export[x].order.overwrite = "replace"

\* An export that answers without an error has placed every file it found, with
\* the content of the one index it loaded, or skipped it under the skip policy;
\* a dry run has placed nothing.
ResultTrue ==
    \A x \in Exporter :
        IF export[x].order.dry THEN export[x].out = <<>>
        ELSE export[x].pc = "ok" =>
                 \A t \in Targets(x) :
                     \/ t \in DOMAIN export[x].out /\ export[x].out[t] = Wanted(x, t)
                     \/ t \in export[x].skipped /\ export[x].order.overwrite = "skip"
=============================================================================
