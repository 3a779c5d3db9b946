------------------------------- MODULE Registry -------------------------------
(***************************************************************************)
(* The two roads by which a Windows registry reaches the case: a .reg      *)
(* export (adapters/registry_regfile.py) and a binary hive read by RECmd   *)
(* (adapters/registry_recmd.py over adapters/ez_json.py), and what they    *)
(* share (adapters/registry_asep.py): which key is a place of persistence  *)
(* and which program a value of it launches.                               *)
(*                                                                         *)
(* A word is [of, around]: the artifact it names and what the tool that    *)
(* wrote it put around the name ("path", "quoted", "args", "nt" for a      *)
(* \??\ prefix, "hex" for an undecoded string ...).  A value's data is the *)
(* sequence of the commands in it.  A key is [name, full, relative]: the   *)
(* patterns found in its path, with and without their hive prefix.         *)
(***************************************************************************)
EXTENDS Naturals, Sequences, FiniteSets, SequencesExt, FiniteSetsExt

CONSTANT None   \* Python's None, an absent field

\* The elements of s at the places S, in their order.
Selected(s, S) ==
    LET upTo[n \in 0..Len(s)] ==
            IF n = 0 THEN <<>> ELSE IF n \in S THEN Append(upTo[n - 1], s[n]) ELSE upTo[n - 1]
    IN  upTo[Len(s)]

-----------------------------------------------------------------------------
(* registry_asep.py                                                         *)

\* _ASEP_PATTERNS: how long the pattern of a category is.
PatternLength ==
    [Run |-> 45, RunOnce |-> 49, RunServices |-> 53, RunServicesOnce |-> 57, PolicyRun |-> 63,
     Winlogon |-> 53, AppInit |-> 52, ActiveSetup |-> 31, IFEO |-> 73, ScheduledTask |-> 63,
     Winsock |-> 53, Services |-> 33, PrintMonitor |-> 47, LSA |-> 36, KnownDLLs |-> 58,
     SessionManager |-> 48]

RunCategory == {"Run", "RunOnce", "RunServices", "RunServicesOnce", "PolicyRun"}

\* The longest pattern found as written; failing that, the longest without
\* the hive prefix (RECmd's paths start below the hive).
ClassifyKey(key) ==
    LET found == IF key.full # {} THEN key.full ELSE key.relative
    IN  IF found = {} THEN None
        ELSE CHOOSE c \in found : \A d \in found : PatternLength[d] <= PatternLength[c]

\* What makes a command unreadable; it is then no program rather than a guess.
Unreadable == {"torn quote", "url", "no program", "hex"}

\* _first_program: the program a command line starts, bare of quotes,
\* arguments and native prefix.
FirstProgram(command) ==
    IF command.around \cap Unreadable # {} THEN None
    ELSE [command EXCEPT !.around = @ \ {"quoted", "args", "nt"}]

\* The value of a category that holds a command.
CommandValue == [Services |-> "imagepath", IFEO |-> "debugger", ActiveSetup |-> "stubpath"]
WinlogonValue == {"userinit", "shell", "appsetup", "vmapplet", "taskman"}

\* program_from_value.  A Winlogon value is a list whose last program is the
\* one that was added.
ProgramFromValue(category, name, data) ==
    LET parts    == [i \in DOMAIN data |-> FirstProgram(data[i])]
        programs == Selected(parts, {i \in DOMAIN data : parts[i] # None})
    IN
    IF data = <<>> THEN None
    ELSE CASE category \in RunCategory -> FirstProgram(data[1])
           [] category \in DOMAIN CommandValue ->
                 IF name = CommandValue[category] THEN FirstProgram(data[1]) ELSE None
           [] category = "Winlogon" /\ name \in WinlogonValue /\ programs # <<>> -> Last(programs)
           [] OTHER -> None

-----------------------------------------------------------------------------
(* registry_regfile.py: a physical line is [kind, key, name, data, type,    *)
(* continues, n]; continues: it ends in a backslash.                        *)

\* _norm_reg_type.
RegType(type) ==
    CASE type \in {"sz", "hex(1)"} -> "REG_SZ"
      [] type = "hex(2)" -> "REG_EXPAND_SZ"
      [] type = "dword" -> "REG_DWORD"
      [] OTHER -> "REG_BINARY"

StringType == {"REG_SZ", "REG_EXPAND_SZ"}

\* _normalize_lines: a line after a backslash is part of the line before it.
LogicalLines(lines) ==
    LET start(i) == i = 1 \/ ~lines[i - 1].continues
    IN  [i \in DOMAIN lines |-> [lines[i] EXCEPT !.kind = IF start(i) THEN @ ELSE "more"]]

\* _decode_hex_string: regedit writes strings with a %VARIABLE% in hex.
DecodeHexString(line) ==
    IF line.type \in {"hex(1)", "hex(2)"}
    THEN [line EXCEPT !.data = [i \in DOMAIN line.data |-> [line.data[i] EXCEPT !.around = @ \ {"hex"}]]]
    ELSE line

\* _check_ioc: the severity of the indicator a value of the key carries.
CheckIoc(category, name, data, type) ==
    LET traits == UNION {data[i].around : i \in DOMAIN data} IN
    IF RegType(type) \notin StringType \cup {"REG_DWORD"} \/ "hex" \in traits THEN None
    ELSE IF \/ category \in RunCategory /\ "appdata" \in traits
            \/ category = "IFEO" /\ name = "debugger" /\ ("shell" \in traits \/ "standard" \notin traits) THEN "medium"
    ELSE IF \/ category \in RunCategory /\ traits \cap {"temp", "shell"} # {}
            \/ /\ category \in {"Services", "RunServices", "RunServicesOnce"} /\ name = "imagepath"
               /\ traits \cap {"temp", "shell"} # {}
            \/ category = "ScheduledTask" /\ "shell" \in traits THEN "high"
    ELSE None

\* _make_record for a value under the key.
ValueRecord(key, category, l) ==
    LET gone == l.kind = "deleted value"
        cat  == IF gone THEN None ELSE category
    IN  [of |-> l.n, key |-> key.name, value |-> l.name, category |-> cat,
         action |-> IF gone THEN "registry-delete" ELSE IF cat # None THEN "persistence" ELSE "registry-read",
         program |-> IF ~gone /\ RegType(l.type) \in StringType
                     THEN ProgramFromValue(cat, l.name, l.data) ELSE None,
         severity |-> IF gone \/ category = None THEN None ELSE CheckIoc(category, l.name, l.data, l.type)]

KeyDeleted(l) ==
    [of |-> l.n, key |-> l.key.name, value |-> None, category |-> None,
     action |-> "registry-delete", program |-> None, severity |-> None]

\* Mutant: after [-key] the key before it is current again.
StepKeeping(s, l) ==
    CASE l.kind = "key" -> [s EXCEPT !.key = l.key, !.category = ClassifyKey(l.key)]
      [] l.kind = "deleted key" -> [s EXCEPT !.out = Append(@, KeyDeleted(l))]
      [] l.kind \in {"value", "deleted value"} /\ s.key # None ->
            [s EXCEPT !.out = Append(@, ValueRecord(s.key, s.category, DecodeHexString(l)))]
      [] OTHER -> s

\* A step of parse_regfile's loop: a value belongs to the key above it, and what
\* stands under a deleted key to none.
RegStep(s, l) ==
    CASE l.kind = "key" -> [s EXCEPT !.key = l.key, !.category = ClassifyKey(l.key)]
      [] l.kind = "deleted key" ->
            [key |-> None, category |-> None, out |-> Append(s.out, KeyDeleted(l))]
      [] l.kind \in {"value", "deleted value"} /\ s.key # None ->
            [s EXCEPT !.out = Append(@, ValueRecord(s.key, s.category, DecodeHexString(l)))]
      [] OTHER -> s

ParseRegfile(lines) ==
    LET after[n \in 0..Len(lines)] ==
            IF n = 0 THEN [key |-> None, category |-> None, out |-> <<>>]
            ELSE RegStep(after[n - 1], LogicalLines(lines)[n])
    IN  after[Len(lines)].out

-----------------------------------------------------------------------------
(* registry_recmd.py: a hive is the sequence of its keys, parents first, a  *)
(* key [parent, key, time, values]; parent 0 is the root, key None a node   *)
(* that names no path of its own.                                           *)

\* flatten_simple_keys: the path of a node is its own or its parent's.
PathOf(hive) ==
    LET path[i \in 0..Len(hive)] ==
            IF i = 0 THEN None
            ELSE IF hive[i].key # None THEN hive[i].key ELSE path[hive[i].parent]
    IN  path

\* A row per value, and one for a key that has none; None is a value that is no object.
FlattenKey(key, node) ==
    LET objects == Selected(node.values, {i \in DOMAIN node.values : node.values[i] # None}) IN
    IF node.values # <<>>
    THEN [i \in DOMAIN objects |-> [key |-> key, time |-> node.time, v |-> objects[i]]]
    ELSE IF key = None THEN <<>>
    ELSE <<[key |-> key, time |-> node.time, v |-> None]>>

\* The record of a row the export keeps: the category decides how a string names a program.
RecmdRow(r) ==
    LET category == ClassifyKey(r.key) IN
    [of |-> IF r.v = None THEN 0 ELSE r.v.n, time |-> r.time, key |-> r.key.name,
     value |-> IF r.v = None THEN None ELSE r.v.name, category |-> category, action |-> "persistence",
     program |-> IF r.v # None /\ RegType(r.v.type) \in StringType
                 THEN ProgramFromValue(category, r.v.name, r.v.data) ELSE None,
     severity |-> None]

\* _record_from_recmd: places of persistence only, and only with a time.
RecmdRecords(hive) ==
    LET rows == FlattenSeq([i \in DOMAIN hive |-> FlattenKey(PathOf(hive)[i], hive[i])])
        kept == Selected(rows, {i \in DOMAIN rows : rows[i].key # None /\ ClassifyKey(rows[i].key) # None /\ rows[i].time # None})
    IN  [i \in DOMAIN kept |-> RecmdRow(kept[i])]

=============================================================================
