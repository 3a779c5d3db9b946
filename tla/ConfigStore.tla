----------------------------- MODULE ConfigStore -----------------------------
(***************************************************************************)
(* tools/eventhound_config.py: data/config.json, the store of API keys and *)
(* settings that GUI threads and CLI processes share without a lock.       *)
(* A set loads the document, changes one key and saves the document whole: *)
(* it opens config.json.tmp (truncating it, when it is there), writes it,  *)
(* restricts its mode and renames it over config.json.  Files are inodes:  *)
(* two writers that open the temporary name may hold the same inode, and a *)
(* rename moves the inode, not its text.  A writer can raise or die before *)
(* each step.  Environment overrides (get_api_key) change no file and are  *)
(* left out, as is the file's mode.                                        *)
(***************************************************************************)
EXTENDS FiniteSets

CONSTANTS
    Writer,         \* calls to set_api_key and set_setting under way
    Service,        \* services: their keys can be cleared
    Setting,        \* settings: always given a value
    Value,
    NoValue,        \* no value stored
    Inode,          \* enough files for every name and every writer
    FirstContent,   \* what config.json may hold when the program starts
    ReadErrors      \* may reading config.json raise OSError

NoFile == "no file"

ASSUME NamesAssumption ==
    /\ NoValue \notin Value /\ Service \cap Setting = {}
    /\ NoFile \notin Inode /\ ReadErrors \in BOOLEAN

Key == Service \cup Setting

\* The document, as the value of every key.
Doc   == [Key -> Value \cup {NoValue}]
NoDoc == [key \in Key |-> NoValue]

\* A file: a whole document; empty; text that is no JSON document; bytes
\* that are no UTF-8.
Content == [kind : {"doc", "empty", "garbled", "undecodable"}, doc : Doc]
Whole(doc)   == [kind |-> "doc", doc |-> doc]
Other(kind)  == [kind |-> kind, doc |-> NoDoc]

ASSUME ContentAssumption == FirstContent \subseteq Content

VARIABLES
    path,       \* the inode config.json names
    tmp,        \* the inode config.json.tmp names
    content,    \* what every inode holds
    pc,         \* where each writer is
    data,       \* the document each writer has in memory
    arg,        \* the key and value each writer was called with
    fd,         \* the inode each writer has open
    blind       \* did each writer fail to read the file it is to change

vars == <<path, tmp, content, pc, data, arg, fd, blind>>

PC == {"idle", "load", "open", "write", "chmod", "replace"}

TypeOK ==
    /\ path \in Inode \cup {NoFile} /\ tmp \in Inode \cup {NoFile}
    /\ content \in [Inode -> Content]
    /\ pc \in [Writer -> PC]
    /\ data \in [Writer -> Doc]
    /\ arg \in [Writer -> Key \X (Value \cup {NoValue})]
    /\ fd \in [Writer -> Inode \cup {NoFile}]
    /\ blind \in [Writer -> BOOLEAN]

\* What load returns when it finds the file f: a missing or corrupt file
\* reads as a document without keys.
Loaded(f) ==
    IF f # NoFile /\ content[f].kind = "doc" THEN content[f].doc ELSE NoDoc

Stored == Loaded(path)

Goto(w, step) == pc' = [pc EXCEPT ![w] = step]

-----------------------------------------------------------------------------
(* set_api_key, set_setting                                                 *)

\* An unknown name is refused before anything is read.
Call(w, key, value) ==
    /\ pc[w] = "idle"
    /\ key \in Setting => value # NoValue
    /\ arg' = [arg EXCEPT ![w] = <<key, value>>]
    /\ blind' = [blind EXCEPT ![w] = FALSE]
    /\ Goto(w, "load")
    /\ UNCHANGED <<path, tmp, content, data, fd>>

\* Mutant: clearing a key stores an empty string.
ChangedToEmpty(doc, a) == [doc EXCEPT ![a[1]] = IF a[2] = NoValue THEN "" ELSE a[2]]

\* Mutant: starts from an empty document.
ChangedAlone(doc, a) == [NoDoc EXCEPT ![a[1]] = a[2]]

Changed(doc, a) == [doc EXCEPT ![a[1]] = a[2]]

Load(w) ==
    /\ pc[w] = "load"
    /\ path # NoFile => content[path].kind # "undecodable"
    /\ data' = [data EXCEPT ![w] = Changed(Stored, arg[w])]
    /\ Goto(w, "open")
    /\ UNCHANGED <<path, tmp, content, arg, fd, blind>>

\* OSError is caught: an unreadable file, too, reads as one without keys.
LoadUnreadable(w) ==
    /\ ReadErrors /\ pc[w] = "load" /\ path # NoFile
    /\ data' = [data EXCEPT ![w] = Changed(NoDoc, arg[w])]
    /\ blind' = [blind EXCEPT ![w] = TRUE]
    /\ Goto(w, "open")
    /\ UNCHANGED <<path, tmp, content, arg, fd>>

\* UnicodeDecodeError is not caught: it ends the call.
LoadRaises(w) ==
    /\ pc[w] = "load" /\ path # NoFile /\ content[path].kind = "undecodable"
    /\ Goto(w, "idle")
    /\ UNCHANGED <<path, tmp, content, data, arg, fd, blind>>

-----------------------------------------------------------------------------
(* save                                                                     *)

InUse == {path, tmp} \cup {fd[w] : w \in Writer}

\* Mutant: writes config.json itself.
TargetIsPath(f) == IF path # NoFile THEN f = path ELSE f \in Inode \ InUse

\* config.json.tmp opened for writing: the file the name leads to, or a new one.
Target(f) == IF tmp # NoFile THEN f = tmp ELSE f \in Inode \ InUse

OpenTmp(w) ==
    /\ pc[w] = "open"
    /\ \E f \in Inode :
         /\ Target(f)
         /\ tmp' = f
         /\ content' = [content EXCEPT ![f] = Other("empty")]
         /\ fd' = [fd EXCEPT ![w] = f]
    /\ Goto(w, "write")
    /\ UNCHANGED <<path, data, arg, blind>>

\* The text goes to the start of the file: over another writer's, longer
\* text, it leaves that text's end behind.
Overwritten(f, doc) ==
    IF content[f] \in {Other("empty"), Whole(doc)} THEN {Whole(doc)}
    ELSE {Whole(doc), Other("garbled")}

WriteTmp(w) ==
    /\ pc[w] = "write"
    /\ \E new \in Overwritten(fd[w], data[w]) : content' = [content EXCEPT ![fd[w]] = new]
    /\ fd' = [fd EXCEPT ![w] = NoFile]
    /\ Goto(w, "chmod")
    /\ UNCHANGED <<path, tmp, data, arg, blind>>

\* FileNotFoundError when another writer has renamed it away.
Chmod(w) ==
    /\ pc[w] = "chmod"
    /\ Goto(w, IF tmp = NoFile THEN "idle" ELSE "replace")
    /\ UNCHANGED <<path, tmp, content, data, arg, fd, blind>>

Replace(w) ==
    /\ pc[w] = "replace"
    /\ IF tmp = NoFile THEN UNCHANGED <<path, tmp>> ELSE path' = tmp /\ tmp' = NoFile
    /\ Goto(w, "idle")
    /\ UNCHANGED <<content, data, arg, fd, blind>>

-----------------------------------------------------------------------------
(* A writer raises (a full disk, an unwritable directory) or its process    *)
(* dies; in the middle of a write, part of the text is in the file.         *)

Stop(w) ==
    /\ pc[w] \in {"load", "open", "write", "chmod", "replace"}
    /\ IF pc[w] = "write"
       THEN \E new \in {content[fd[w]], Other("garbled")} : content' = [content EXCEPT ![fd[w]] = new]
       ELSE UNCHANGED content
    /\ fd' = [fd EXCEPT ![w] = NoFile]
    /\ Goto(w, "idle")
    /\ UNCHANGED <<path, tmp, data, arg, blind>>

-----------------------------------------------------------------------------

Init ==
    /\ path \in {NoFile} \cup Inode
    /\ tmp = NoFile
    /\ \E first \in FirstContent :
         content = [f \in Inode |-> IF f = path THEN first ELSE Other("empty")]
    /\ pc = [w \in Writer |-> "idle"]
    /\ data = [w \in Writer |-> NoDoc]
    /\ arg \in [Writer -> {<<key, NoValue>> : key \in Key}]
    /\ fd = [w \in Writer |-> NoFile]
    /\ blind = [w \in Writer |-> FALSE]

Step(w) ==
    \/ Load(w) \/ LoadUnreadable(w) \/ LoadRaises(w)
    \/ OpenTmp(w) \/ WriteTmp(w) \/ Chmod(w) \/ Replace(w) \/ Stop(w)

Next ==
    \E w \in Writer :
      \/ \E key \in Key, value \in Value \cup {NoValue} : Call(w, key, value)
      \/ Step(w)

Spec == Init /\ [][Next]_vars

-----------------------------------------------------------------------------
(* Properties                                                               *)

\* A step leaves config.json alone or makes it a whole document: a crash in
\* the middle of a write truncates nothing.  save writes a temporary file
\* and renames it for this.
SavedWhole ==
    [][path' # NoFile =>
         \/ content'[path'].kind = "doc"
         \/ path # NoFile /\ content'[path'] = content[path]]_vars

\* The store is a table of keys: what a caller sees change is the key some
\* call names, whole, and a call cut short changes nothing; only a call that
\* could not read the file forgets the other keys (set_api_key, set_setting
\* over load and save).
Table == INSTANCE KeyTable WITH
    table <- Stored,
    blind <- \E w \in Writer : pc[w] = "replace" /\ blind[w]
ImplementsTable == Table!Spec

=============================================================================
