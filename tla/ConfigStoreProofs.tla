-------------------------- MODULE ConfigStoreProofs --------------------------
(***************************************************************************)
(* What one writer at a time may rely on, however often it is cut short:   *)
(* config.json always holds a whole document, and setting a key changes    *)
(* that key alone.  Both rest on what the temporary file holds at each     *)
(* step (TmpOK) and on the document in memory being the stored one, or,    *)
(* where that could not be read, an empty one, with one key changed        *)
(* (DataOK); neither holds for two writers.                                *)
(***************************************************************************)
EXTENDS ConfigStore, TLAPS

OneWriter == \A v, w \in Writer : v = w

TmpOK(w) ==
    /\ pc[w] = "write" => fd[w] = tmp /\ tmp # NoFile /\ content[tmp] = Other("empty")
    /\ pc[w] \in {"chmod", "replace"} => tmp # NoFile /\ content[tmp] = Whole(data[w])
DataOK(w) ==
    pc[w] \in {"open", "write", "chmod", "replace"} =>
        \/ data[w] = Changed(Stored, arg[w])
        \/ blind[w] /\ data[w] = Changed(NoDoc, arg[w])

\* SavedWhole needs the temporary file's part only.
FileInv ==
    /\ TypeOK
    /\ tmp # NoFile => tmp # path
    /\ \A w \in Writer : TmpOK(w)

IInv == FileInv /\ \A w \in Writer : DataOK(w)

\* A whole document is a content like any other.
LEMMA ContentTypes ==
    /\ NoDoc \in Doc
    /\ \A doc \in Doc : Whole(doc) \in Content /\ Whole(doc).doc = doc /\ Whole(doc).kind = "doc"
    /\ Other("empty") \in Content /\ Other("garbled") \in Content
BY DEF NoDoc, Doc, Whole, Other, Content

\* What load returns is a document.
LEMMA StoredType ==
    ASSUME TypeOK
    PROVE  Stored \in Doc
BY ContentTypes DEF TypeOK, Stored, Loaded, Content

\* Setting a key makes a document of a document.
LEMMA ChangedType ==
    ASSUME NEW doc \in Doc, NEW a \in Key \X (Value \cup {NoValue})
    PROVE  Changed(doc, a) \in Doc
BY DEF Changed, Doc

LEMMA InitInv == Init => IInv
<1> SUFFICES ASSUME Init PROVE IInv
  OBVIOUS
<1>1. content \in [Inode -> Content]
  BY ContentTypes, ContentAssumption DEF Init
<1>2. arg \in [Writer -> Key \X (Value \cup {NoValue})]
  <2>1. {<<key, NoValue>> : key \in Key} \subseteq Key \X (Value \cup {NoValue})
    OBVIOUS
  <2> QED BY <2>1 DEF Init
<1>3. data \in [Writer -> Doc] /\ fd \in [Writer -> Inode \cup {NoFile}]
  BY ContentTypes DEF Init
<1>4. pc \in [Writer -> PC] /\ blind \in [Writer -> BOOLEAN]
  BY DEF Init, PC
<1>5. TypeOK
  BY <1>1, <1>2, <1>3, <1>4 DEF Init, TypeOK
<1> QED
  BY <1>5 DEF Init, IInv, FileInv, TmpOK, DataOK

\* The types hold after every step, whoever else writes.
LEMMA TypeStep ==
    ASSUME TypeOK, [Next]_vars, \A w \in Writer : pc[w] = "write" => fd[w] # NoFile
    PROVE  TypeOK'
<1> USE NamesAssumption
<1>1. ASSUME NEW w \in Writer, NEW key \in Key, NEW value \in Value \cup {NoValue},
             Call(w, key, value)
      PROVE  TypeOK'
  BY <1>1 DEF Call, TypeOK, Goto, PC
<1>2. ASSUME NEW w \in Writer, Load(w) PROVE TypeOK'
  <2>1. Changed(Stored, arg[w]) \in Doc
    BY StoredType, ChangedType DEF TypeOK
  <2> QED BY <1>2, <2>1 DEF Load, TypeOK, Goto, PC
<1>3. ASSUME NEW w \in Writer, LoadUnreadable(w) PROVE TypeOK'
  <2>1. Changed(NoDoc, arg[w]) \in Doc
    BY ContentTypes, ChangedType DEF TypeOK
  <2> QED BY <1>3, <2>1 DEF LoadUnreadable, TypeOK, Goto, PC
<1>4. ASSUME NEW w \in Writer, LoadRaises(w) PROVE TypeOK'
  BY <1>4 DEF LoadRaises, TypeOK, Goto, PC
<1>5. ASSUME NEW w \in Writer, OpenTmp(w) PROVE TypeOK'
  BY <1>5, ContentTypes DEF OpenTmp, TypeOK, Goto, PC
<1>6. ASSUME NEW w \in Writer, WriteTmp(w) PROVE TypeOK'
  <2>1. PICK new \in Overwritten(fd[w], data[w]) :
          content' = [content EXCEPT ![fd[w]] = new]
    BY <1>6 DEF WriteTmp
  <2>2. new \in Content
    BY ContentTypes DEF Overwritten, TypeOK
  <2>3. content' \in [Inode -> Content]
    BY <2>1, <2>2 DEF TypeOK
  <2> QED BY <1>6, <2>3 DEF WriteTmp, TypeOK, Goto, PC
<1>7. ASSUME NEW w \in Writer, Chmod(w) PROVE TypeOK'
  BY <1>7 DEF Chmod, TypeOK, Goto, PC
<1>8. ASSUME NEW w \in Writer, Replace(w) PROVE TypeOK'
  BY <1>8 DEF Replace, TypeOK, Goto, PC
<1>9. ASSUME NEW w \in Writer, Stop(w) PROVE TypeOK'
  <2>1. CASE pc[w] = "write"
    <3>1. PICK new \in {content[fd[w]], Other("garbled")} :
            content' = [content EXCEPT ![fd[w]] = new]
      BY <1>9, <2>1 DEF Stop
    <3>2. new \in Content
      BY <2>1, ContentTypes DEF TypeOK
    <3>3. content' \in [Inode -> Content]
      BY <3>1, <3>2 DEF TypeOK
    <3> QED BY <1>9, <3>3 DEF Stop, TypeOK, Goto, PC
  <2>2. CASE pc[w] # "write"
    BY <1>9, <2>2 DEF Stop, TypeOK, Goto, PC
  <2> QED BY <2>1, <2>2
<1>10. CASE UNCHANGED vars
  BY <1>10 DEF vars, TypeOK
<1> QED BY <1>1, <1>2, <1>3, <1>4, <1>5, <1>6, <1>7, <1>8, <1>9, <1>10 DEF Next, Step

\* The temporary file holds what the one writer's step has put there, and is
\* never config.json itself.
LEMMA FileStep ==
    ASSUME OneWriter, FileInv, [Next]_vars
    PROVE  FileInv'
<1> USE NamesAssumption DEF TmpOK
<1>0. TypeOK'
  BY TypeStep DEF FileInv
<1>1. ASSUME NEW w \in Writer, NEW key \in Key, NEW value \in Value \cup {NoValue},
             Call(w, key, value)
      PROVE  FileInv'
  BY <1>0, <1>1 DEF FileInv, OneWriter, Call, TypeOK, Goto
<1>2. ASSUME NEW w \in Writer, Load(w) PROVE FileInv'
  BY <1>0, <1>2 DEF FileInv, OneWriter, Load, TypeOK, Goto
<1>3. ASSUME NEW w \in Writer, LoadUnreadable(w) PROVE FileInv'
  BY <1>0, <1>3 DEF FileInv, OneWriter, LoadUnreadable, TypeOK, Goto
<1>4. ASSUME NEW w \in Writer, LoadRaises(w) PROVE FileInv'
  BY <1>0, <1>4 DEF FileInv, OneWriter, LoadRaises, TypeOK, Goto
<1>5. ASSUME NEW w \in Writer, OpenTmp(w) PROVE FileInv'
  BY <1>0, <1>5 DEF FileInv, OneWriter, OpenTmp, Target, InUse, TypeOK, Goto
<1>6. ASSUME NEW w \in Writer, WriteTmp(w) PROVE FileInv'
  <2>1. content[fd[w]] = Other("empty")
    BY <1>6 DEF WriteTmp, FileInv
  <2>2. content' = [content EXCEPT ![fd[w]] = Whole(data[w])]
    BY <1>6, <2>1 DEF WriteTmp, Overwritten
  <2> QED BY <1>0, <1>6, <2>2 DEF FileInv, OneWriter, WriteTmp, TypeOK, Goto
<1>7. ASSUME NEW w \in Writer, Chmod(w) PROVE FileInv'
  BY <1>0, <1>7 DEF FileInv, OneWriter, Chmod, TypeOK, Goto
<1>8. ASSUME NEW w \in Writer, Replace(w) PROVE FileInv'
  BY <1>0, <1>8 DEF FileInv, OneWriter, Replace, TypeOK, Goto
<1>9. ASSUME NEW w \in Writer, Stop(w) PROVE FileInv'
  BY <1>0, <1>9 DEF FileInv, OneWriter, Stop, TypeOK, Goto
<1>10. CASE UNCHANGED vars
  BY <1>0, <1>10 DEF vars, FileInv
<1> QED BY <1>1, <1>2, <1>3, <1>4, <1>5, <1>6, <1>7, <1>8, <1>9, <1>10 DEF Next, Step

\* A step that leaves config.json's name and text alone leaves what it stores.
LEMMA StoredSame ==
    ASSUME path' = path, path # NoFile => content'[path] = content[path]
    PROVE  Stored' = Stored
BY DEF Stored, Loaded

\* Every step but Replace leaves config.json's name and text alone.
LEMMA PathSame ==
    ASSUME OneWriter, FileInv, [Next]_vars, \A w \in Writer : ~Replace(w)
    PROVE  path' = path /\ (path # NoFile => content'[path] = content[path])
<1> USE NamesAssumption
<1>1. ASSUME NEW w \in Writer, OpenTmp(w)
      PROVE  path' = path /\ (path # NoFile => content'[path] = content[path])
  <2>1. PICK f \in Inode : /\ Target(f) /\ content' = [content EXCEPT ![f] = Other("empty")]
                           /\ path' = path
    BY <1>1 DEF OpenTmp
  <2>2. f # path
    BY <2>1 DEF Target, InUse, FileInv
  <2> QED BY <2>1, <2>2 DEF FileInv, TypeOK
<1>2. ASSUME NEW w \in Writer, WriteTmp(w)
      PROVE  path' = path /\ (path # NoFile => content'[path] = content[path])
  BY <1>2 DEF WriteTmp, FileInv, TmpOK, TypeOK
<1>3. ASSUME NEW w \in Writer, Stop(w)
      PROVE  path' = path /\ (path # NoFile => content'[path] = content[path])
  BY <1>3 DEF Stop, FileInv, TmpOK, TypeOK
<1> QED
  BY <1>1, <1>2, <1>3
     DEF Next, Step, vars, Call, Load, LoadUnreadable, LoadRaises, Chmod

\* Replace makes the whole document in the temporary file config.json.
LEMMA ReplaceWhole ==
    ASSUME FileInv, NEW w \in Writer, Replace(w)
    PROVE  /\ path' = tmp /\ tmp \in Inode /\ content' = content
           /\ content[tmp] = Whole(data[w]) /\ data[w] \in Doc
           /\ Stored' = data[w]
<1>1. /\ path' = tmp /\ tmp \in Inode /\ content' = content
      /\ content[tmp] = Whole(data[w]) /\ data[w] \in Doc /\ path' # NoFile
  BY NamesAssumption DEF Replace, FileInv, TmpOK, TypeOK
<1> QED BY <1>1, ContentTypes DEF Stored, Loaded

\* The document in memory is the stored one with the caller's key changed:
\* while the one writer works nobody else replaces config.json.
LEMMA DataStep ==
    ASSUME OneWriter, IInv, [Next]_vars, NEW v \in Writer
    PROVE  DataOK(v)'
<1> USE NamesAssumption
<1>1. ASSUME NEW w \in Writer, Replace(w) PROVE DataOK(v)'
  BY <1>1 DEF OneWriter, Replace, Goto, DataOK, IInv, FileInv, TypeOK
<1>2. CASE \A w \in Writer : ~Replace(w)
  <2>1. Stored' = Stored
    BY <1>2, PathSame, StoredSame DEF IInv
  <2>2. ASSUME NEW w \in Writer, NEW key \in Key, NEW value \in Value \cup {NoValue},
               Call(w, key, value)
        PROVE  DataOK(v)'
    BY <2>2 DEF OneWriter, Call, Goto, DataOK, IInv, FileInv, TypeOK
  <2>3. ASSUME NEW w \in Writer, Load(w) PROVE DataOK(v)'
    BY <2>1, <2>3 DEF OneWriter, Load, Goto, DataOK, IInv, FileInv, TypeOK
  <2>4. ASSUME NEW w \in Writer, LoadUnreadable(w) PROVE DataOK(v)'
    BY <2>4 DEF OneWriter, LoadUnreadable, Goto, DataOK, IInv, FileInv, TypeOK
  <2>5. ASSUME NEW w \in Writer, OpenTmp(w) \/ WriteTmp(w) \/ Chmod(w) \/ Stop(w) \/ LoadRaises(w)
        PROVE  DataOK(v)'
    BY <2>1, <2>5
       DEF OneWriter, OpenTmp, WriteTmp, Chmod, Stop, LoadRaises, Goto, DataOK, IInv, FileInv, TypeOK
  <2>6. ASSUME UNCHANGED vars PROVE DataOK(v)'
    BY <2>1, <2>6 DEF vars, DataOK, IInv
  <2> QED
    BY <1>2, <2>2, <2>3, <2>4, <2>5, <2>6 DEF Next, Step
<1> QED BY <1>1, <1>2

-----------------------------------------------------------------------------

\* For one writer, whatever fails and whenever it dies, even where reading
\* config.json may fail: no step leaves a part of a document under the name
\* (save writes a temporary file and renames it).
THEOREM AlwaysWhole == OneWriter => (Spec => SavedWhole)
<1> SUFFICES ASSUME OneWriter PROVE Spec => SavedWhole
  OBVIOUS
<1>1. Init => FileInv
  BY InitInv DEF IInv
<1>2. FileInv /\ [Next]_vars => FileInv'
  BY FileStep
<1>3. FileInv /\ [Next]_vars =>
        (path' # NoFile =>
           \/ content'[path'].kind = "doc"
           \/ path # NoFile /\ content'[path'] = content[path])
  <2> SUFFICES ASSUME FileInv, [Next]_vars, path' # NoFile
               PROVE  \/ content'[path'].kind = "doc"
                      \/ path # NoFile /\ content'[path'] = content[path]
    OBVIOUS
  <2>1. CASE \E w \in Writer : Replace(w)
    BY <2>1, ReplaceWhole, ContentTypes
  <2>2. CASE \A w \in Writer : ~Replace(w)
    BY <2>2, PathSame
  <2> QED BY <2>1, <2>2
<1> QED BY <1>1, <1>2, <1>3, PTL DEF Spec, SavedWhole

\* For one writer, the store is the table of keys: every step sets the one
\* key its call names or changes nothing, and only a call that could not read
\* the file forgets the others (set_api_key, set_setting, load and save
\* together).
THEOREM WriterImplementsTable == OneWriter => (Spec => ImplementsTable)
<1> SUFFICES ASSUME OneWriter PROVE Spec => ImplementsTable
  OBVIOUS
<1>1. Init => IInv /\ Table!Init
  BY InitInv, StoredType DEF IInv, FileInv, Table!Init, Doc
<1>2. IInv /\ [Next]_vars => IInv'
  <2> SUFFICES ASSUME IInv, [Next]_vars PROVE IInv'
    OBVIOUS
  <2>1. FileInv'
    BY FileStep DEF IInv
  <2>2. \A v \in Writer : DataOK(v)'
    BY DataStep
  <2> QED BY <2>1, <2>2 DEF IInv
<1>3. IInv /\ [Next]_vars => [Table!Next]_Stored
  <2> SUFFICES ASSUME IInv, [Next]_vars PROVE Table!Next \/ Stored' = Stored
    OBVIOUS
  <2>1. CASE \A w \in Writer : ~Replace(w)
    BY <2>1, PathSame, StoredSame DEF IInv
  <2>2. ASSUME NEW w \in Writer, Replace(w) PROVE Table!Next
    <3>1. Stored' = data[w]
      BY <2>2, ReplaceWhole DEF IInv
    <3>2. arg[w][1] \in Key /\ arg[w][2] \in Value \cup {NoValue}
      BY DEF IInv, FileInv, TypeOK
    <3>3. \/ data[w] = [Stored EXCEPT ![arg[w][1]] = arg[w][2]]
          \/ /\ pc[w] = "replace" /\ blind[w]
             /\ data[w] = [NoDoc EXCEPT ![arg[w][1]] = arg[w][2]]
      BY <2>2 DEF IInv, DataOK, Replace, Changed
    <3>4. NoDoc = Table!Blank
      BY DEF NoDoc, Table!Blank
    <3> QED BY <3>1, <3>2, <3>3, <3>4 DEF Table!Next, Table!Put, Table!PutBlind
  <2> QED BY <2>1, <2>2
<1> QED BY <1>1, <1>2, <1>3, PTL DEF Spec, ImplementsTable, Table!Spec

-----------------------------------------------------------------------------

\* A writer in the middle of its write has a file open.
Opened == \A w \in Writer : pc[w] = "write" => fd[w] # NoFile

LEMMA OpenedStep ==
    ASSUME TypeOK, Opened, [Next]_vars
    PROVE  Opened'
<1> USE NamesAssumption DEF Goto
<1>1. ASSUME NEW w \in Writer, OpenTmp(w) PROVE Opened'
  <2>1. PICK f \in Inode : fd' = [fd EXCEPT ![w] = f]
    BY <1>1 DEF OpenTmp
  <2> QED BY <1>1, <2>1 DEF OpenTmp, TypeOK, Opened
<1>2. ASSUME NEW w \in Writer,
             \/ \E key \in Key, value \in Value \cup {NoValue} : Call(w, key, value)
             \/ Load(w) \/ LoadUnreadable(w) \/ LoadRaises(w)
             \/ WriteTmp(w) \/ Chmod(w) \/ Replace(w) \/ Stop(w)
      PROVE  Opened'
  <2>1. /\ pc'[w] # "write"
        /\ \A v \in Writer \ {w} : pc'[v] = pc[v] /\ fd'[v] = fd[v]
    BY <1>2
       DEF TypeOK, Call, Load, LoadUnreadable, LoadRaises, WriteTmp, Chmod, Replace, Stop
  <2> QED BY <2>1 DEF Opened
<1>3. CASE UNCHANGED vars
  BY <1>3 DEF vars, Opened
<1> QED BY <1>1, <1>2, <1>3 DEF Next, Step

\* For any number of writers: the files, and what each writer holds in
\* memory, keep their types, however the steps of two saves interleave.
THEOREM ConfigTyped == Spec => []TypeOK
<1>1. Init => TypeOK /\ Opened
  BY InitInv DEF IInv, FileInv, Init, Opened
<1>2. TypeOK /\ Opened /\ [Next]_vars => TypeOK' /\ Opened'
  BY TypeStep, OpenedStep DEF Opened
<1> QED BY <1>1, <1>2, PTL DEF Spec

=============================================================================
