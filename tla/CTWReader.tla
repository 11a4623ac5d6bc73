------------------------------ MODULE CTWReader ------------------------------
(***************************************************************************)
(* CTWReader (server/src/world/ctwreader.cpp): a .ctw world file is an xz  *)
(* compressed tar; the constructor opens it with libarchive and readFiles  *)
(* loads every entry into m_files, which readFile then looks up by path.   *)
(* The reader runs on one thread, from constructor to return or throw.     *)
(*                                                                         *)
(* libarchive is not part of the repository.  Its results are the choices  *)
(* its interface allows: archive_read_next_header gives ARCHIVE_OK with    *)
(* the next entry, ARCHIVE_EOF after the last, or a value below ARCHIVE_OK *)
(* (WARN, FAILED, FATAL); archive_read_data gives between 1 byte and what  *)
(* was asked and is left of the entry (a short read), 0 at the end of the  *)
(* entry's data, or a negative error.  ShortReads adds a 0 before the end  *)
(* (a stream that ends early, "should not happen" in the code), after      *)
(* which every read gives 0 and the next header is the end of the archive  *)
(* or an error.  An entry is its path and its bytes; the buffer is kept    *)
(* byte by byte, since the position the bytes are copied to is what        *)
(* readFiles computes.                                                     *)
(***************************************************************************)
EXTENDS Integers, Sequences, FiniteSets, TLC

CONSTANTS
  Names,       \* entry paths
  Bytes,       \* byte values an entry may hold (0 is the buffer's filler)
  MaxSize,     \* longest entry, in bytes
  MaxEntries,  \* most entries in an archive
  ShortReads,  \* TRUE: archive_read_data may return 0 before the entry's end
  Failures     \* TRUE: libarchive calls may fail

ASSUME 0 \notin Bytes /\ MaxSize \in Nat /\ MaxEntries \in Nat
ASSUME ShortReads \in BOOLEAN /\ Failures \in BOOLEAN

VARIABLES
  archive,  \* the file's entries, in order
  pc,       \* "open" | "header" | "data" | "check" | "done" | "thrown"
  idx,      \* entries whose header libarchive returned
  off,      \* bytes of the current entry libarchive returned
  cut,      \* libarchive returned 0 before the end of an entry
  data,     \* the std::vector<std::byte> of the current entry
  pos,      \* readFiles' pos
  files     \* m_files: path -> data

vars == <<archive, pc, idx, off, cut, data, pos, files>>

Entries == [name : Names, data : UNION {[1..n -> Bytes] : n \in 0..MaxSize}]
Archives == UNION {[1..n -> Entries] : n \in 0..MaxEntries}

\* The entry whose header was returned last.
Current == archive[idx]

MinOf(a, b) == IF a < b THEN a ELSE b

-----------------------------------------------------------------------------
(* readFiles.                                                              *)

\* The constructors: archive_read_support_filter_xz,
\* archive_read_support_format_tar and archive_read_open_filename (or
\* _memory) each throw a LibArchiveError unless they return ARCHIVE_OK.
Open ==
  /\ pc = "open"
  /\ \/ pc' = "header"
     \/ Failures /\ pc' = "thrown"
  /\ UNCHANGED <<archive, idx, off, cut, data, pos, files>>

\* Mutant: the buffer is sized one byte larger than the entry.
NextHeaderSizePlusOne ==
  /\ pc = "header"
  /\ \/ /\ idx = Len(archive) \/ cut
        /\ pc' = "done"
        /\ UNCHANGED <<idx, off, data, pos>>
     \/ /\ Failures \/ cut
        /\ pc' = "thrown"
        /\ UNCHANGED <<idx, off, data, pos>>
     \/ /\ idx < Len(archive) /\ ~cut
        /\ idx' = idx + 1
        /\ off' = 0
        /\ data' = [i \in 1..Len(archive[idx + 1].data) + 1 |-> 0]
        /\ pos' = 0
        /\ pc' = "data"
  /\ UNCHANGED <<archive, cut, files>>

\* archive_read_next_header: ARCHIVE_EOF ends the loop and m_archive.reset()
\* closes the archive; a value below ARCHIVE_OK throws; ARCHIVE_OK resizes
\* the buffer to archive_entry_size (zero-filled) and sets pos to 0.
NextHeader ==
  /\ pc = "header"
  /\ \/ /\ idx = Len(archive) \/ cut
        /\ pc' = "done"
        /\ UNCHANGED <<idx, off, data, pos>>
     \/ /\ Failures \/ cut
        /\ pc' = "thrown"
        /\ UNCHANGED <<idx, off, data, pos>>
     \/ /\ idx < Len(archive) /\ ~cut
        /\ idx' = idx + 1
        /\ off' = 0
        /\ data' = [i \in DOMAIN archive[idx + 1].data |-> 0]
        /\ pos' = 0
        /\ pc' = "data"
  /\ UNCHANGED <<archive, cut, files>>

\* Mutant: the bytes are copied to data.data() instead of data.data() + pos.
ReadDataNoOffset ==
  /\ pc = "data"
  /\ pos < Len(data)
  /\ LET avail == MinOf(Len(Current.data) - off, Len(data) - pos) IN
     \/ \E count \in 1..avail :
          /\ ~cut
          /\ data' = [i \in DOMAIN data |->
                        IF i <= count THEN Current.data[off + i] ELSE data[i]]
          /\ pos' = pos + count
          /\ off' = off + count
          /\ UNCHANGED <<pc, cut>>
     \/ /\ avail = 0 \/ ShortReads
        /\ pc' = "check"
        /\ cut' = (off < Len(Current.data))
        /\ UNCHANGED <<data, pos, off>>
     \/ /\ Failures
        /\ pc' = "thrown"
        /\ UNCHANGED <<data, pos, off, cut>>
  /\ UNCHANGED <<archive, idx, files>>

\* Mutant: a count of 0 does not leave the loop (the break dropped).
ReadDataNoBreak ==
  /\ pc = "data"
  /\ pos < Len(data)
  /\ LET avail == MinOf(Len(Current.data) - off, Len(data) - pos) IN
     \/ \E count \in 1..avail :
          /\ ~cut
          /\ data' = [i \in DOMAIN data |->
                        IF pos < i /\ i <= pos + count
                        THEN Current.data[off + i - pos] ELSE data[i]]
          /\ pos' = pos + count
          /\ off' = off + count
          /\ UNCHANGED <<pc, cut>>
     \/ /\ avail = 0 \/ ShortReads
        /\ cut' = (cut \/ off < Len(Current.data))
        /\ UNCHANGED <<pc, data, pos, off>>
     \/ /\ Failures
        /\ pc' = "thrown"
        /\ UNCHANGED <<data, pos, off, cut>>
  /\ UNCHANGED <<archive, idx, files>>

\* One turn of the inner loop, while pos < data.size(): archive_read_data
\* into data.data() + pos for data.size() - pos bytes; a negative count
\* throws, 0 breaks out of the loop, any other count advances pos.
ReadData ==
  /\ pc = "data"
  /\ pos < Len(data)
  /\ LET avail == MinOf(Len(Current.data) - off, Len(data) - pos) IN
     \/ \E count \in 1..avail :
          /\ ~cut
          /\ data' = [i \in DOMAIN data |->
                        IF pos < i /\ i <= pos + count
                        THEN Current.data[off + i - pos] ELSE data[i]]
          /\ pos' = pos + count
          /\ off' = off + count
          /\ UNCHANGED <<pc, cut>>
     \/ /\ avail = 0 \/ ShortReads
        /\ pc' = "check"
        /\ cut' = (off < Len(Current.data))
        /\ UNCHANGED <<data, pos, off>>
     \/ /\ Failures
        /\ pc' = "thrown"
        /\ UNCHANGED <<data, pos, off, cut>>
  /\ UNCHANGED <<archive, idx, files>>

\* std::map::emplace: inserts only when the path is not in the map yet.
Emplace(f, k, v) ==
  IF k \in DOMAIN f THEN f ELSE [x \in DOMAIN f \cup {k} |-> IF x = k THEN v ELSE f[x]]

\* Mutant: an entry is stored once anything of it was read.
StoreAnyRead ==
  /\ \/ pc = "check"
     \/ pc = "data" /\ pos >= Len(data)
  /\ files' = IF pos > 0 THEN Emplace(files, Current.name, data) ELSE files
  /\ pc' = "header"
  /\ UNCHANGED <<archive, idx, off, cut, data, pos>>

\* After the inner loop: the entry is kept, under archive_entry_pathname,
\* when pos reached data.size().
Store ==
  /\ \/ pc = "check"
     \/ pc = "data" /\ pos >= Len(data)
  /\ files' = IF pos = Len(data) THEN Emplace(files, Current.name, data) ELSE files
  /\ pc' = "header"
  /\ UNCHANGED <<archive, idx, off, cut, data, pos>>

\* readFile (both overloads): whether the path is in m_files, and its data.
\* The JSON overload parses the text, which is left out.
ReadFile(name) == IF name \in DOMAIN files THEN <<TRUE, files[name]>> ELSE <<FALSE, <<>>>>

-----------------------------------------------------------------------------

\* Any archive the file may hold, before the constructor runs.
Init ==
  /\ archive \in Archives
  /\ pc = "open"
  /\ idx = 0
  /\ off = 0
  /\ cut = FALSE
  /\ data = <<>>
  /\ pos = 0
  /\ files = <<>>

Next == Open \/ NextHeader \/ ReadData \/ Store

Spec == Init /\ [][Next]_vars

\* The constructor runs on its thread until it returns or throws, and
\* libarchive answers every call; it is never obliged to fail.
FairSpec == Spec /\ WF_vars(Next /\ pc' # "thrown")

-----------------------------------------------------------------------------
(* Properties.                                                             *)

TypeOK ==
  /\ archive \in Archives
  /\ pc \in {"open", "header", "data", "check", "done", "thrown"}
  /\ idx \in 0..Len(archive) /\ off \in 0..MaxSize /\ pos \in 0..MaxSize
  /\ cut \in BOOLEAN
  /\ data \in UNION {[1..n -> Bytes \cup {0}] : n \in 0..MaxSize}
  /\ DOMAIN files \subseteq Names

\* The first entry of the archive with the path n.
FirstEntry(n) == archive[CHOOSE i \in 1..Len(archive) :
                           archive[i].name = n /\ \A j \in 1..i - 1 : archive[j].name # n]

\* Whatever libarchive's reads are cut into, every file readFiles keeps is
\* an entry of the archive with exactly its bytes: the one of its path that
\* comes first (emplace), copied chunk by chunk at pos.
FilesHoldArchiveEntries ==
  \A n \in DOMAIN files :
    /\ \E i \in 1..idx : archive[i].name = n
    /\ files[n] = FirstEntry(n).data

\* When readFiles returns without libarchive ending the data of an entry
\* early, readFile finds every path of the archive, empty entries included.
ReadFindsEveryEntry ==
  (pc = "done" /\ ~cut) =>
    \A i \in 1..Len(archive) : ReadFile(archive[i].name) = <<TRUE, FirstEntry(archive[i].name).data>>

\* The constructor returns or throws: the inner loop ends on every result
\* of archive_read_data, a 0 included.
ReadFilesTerminates == <>(pc \in {"done", "thrown"})

\* readFiles reports an archive it could not load whole: when it returns,
\* every path of the archive is in m_files.  (Violated: a 0 from
\* archive_read_data before the end of an entry, "should not happen", drops
\* the entry without an error.)
NoSilentLoss ==
  pc = "done" => \A i \in 1..Len(archive) : archive[i].name \in DOMAIN files

=============================================================================
