------------------------------- MODULE Config -------------------------------
(***************************************************************************)
(* The options of a scan (config.py, and _resolve_config of cli.py):       *)
(* which configuration file counts, what reading and validating it yields, *)
(* and how defaults, file and command line are layered.                    *)
(*                                                                         *)
(* A set of options is a function from some of the option names to values. *)
(* The text of a configuration file is a record: what becomes of reading   *)
(* it (kind) and, for a "table", a function from its keys to <<value>>, or *)
(* to Invalid for every value of the wrong type or outside its choices.    *)
(* Severities are ranks; an optional severity is a set of at most one.     *)
(***************************************************************************)
EXTENDS Naturals, Sequences

Invalid == <<>>

Defaults ==
  [detectors |-> {}, severity_threshold |-> 0, fail_on |-> {}, exclude |-> {},
   output_format |-> "text", gitignore |-> TRUE]

KnownKeys == DOMAIN Defaults

Absent == [kind |-> "absent", table |-> <<>>]

\* _pyproject_has_scanipy_table: any tool.scanipy counts, one that cannot be
\* read does not.  Before Python 3.11 there is no TOML reader.
HasScanipyTable(text, toml) == toml /\ text.kind \in {"table", "not a table"}

\* What an option can be, given anywhere.
IsOption(key, value) ==
  CASE key = "severity_threshold" -> value \in Nat
    [] key = "fail_on" -> value \in SUBSET Nat /\ \A g, h \in value : g = h
    [] key = "detectors" -> value \in SUBSET STRING
    [] key = "exclude" -> value \in SUBSET Seq(STRING)
    [] key = "gitignore" -> value \in BOOLEAN
    [] key = "output_format" -> value \in {"text", "json", "sarif"}

AreOptions(options) ==
  DOMAIN options \subseteq KnownKeys /\ \A key \in DOMAIN options : IsOption(key, options[key])

(***************************************************************************)
(* find_config_file: of the files in the directory of the scan root.       *)
(***************************************************************************)
FindConfigFile(near, toml) ==
  IF near.yml.kind # "absent" THEN {[name |-> "yml", text |-> near.yml]}
  ELSE IF HasScanipyTable(near.pyproject, toml)
       THEN {[name |-> "pyproject", text |-> near.pyproject]} ELSE {}

(***************************************************************************)
(* _read_raw: a table, the error it reports, or an exception it lets       *)
(* through: text that is not UTF-8 is a ValueError, which only the reader  *)
(* of pyproject.toml expects.                                              *)
(***************************************************************************)
ReadRaw(file, toml) ==
  CASE file.text.kind = "table" /\ (file.name = "yml" \/ toml) -> "table"
    [] file.name = "pyproject" /\ (~ toml \/ file.text.kind = "no table") -> "empty"
    [] file.name = "yml" /\ file.text.kind = "empty" -> "empty"
    [] file.name = "yml" /\ file.text.kind = "undecodable" -> "crash"
    [] OTHER -> "error"

\* _validate: known keys, valid values.
IsValid(table) == DOMAIN table \subseteq KnownKeys /\ \A k \in DOMAIN table : table[k] # Invalid

\* The valid tables of configuration files hold options, and only a table has
\* keys.
IsConfigText(text) ==
  /\ IsValid(text.table) => AreOptions([k \in DOMAIN text.table |-> text.table[k][1]])
  /\ text.kind # "table" => text.table = <<>>

\* _load_file_config: the explicit file, or the one near the scan root.
ConfigFile(command) ==
  IF command.config # {} THEN command.config ELSE FindConfigFile(command.near, command.toml)

Loaded(command) ==
  IF ConfigFile(command) = {} THEN "empty"
  ELSE LET file == CHOOSE f \in ConfigFile(command) : TRUE
           read == ReadRaw(file, command.toml)
       IN  IF read = "table" /\ ~ IsValid(file.text.table) THEN "error" ELSE read

FileOptions(command) ==
  IF Loaded(command) = "table"
  THEN LET table == (CHOOSE f \in ConfigFile(command) : TRUE).text.table
       IN  [k \in DOMAIN table |-> table[k][1]]
  ELSE <<>>

\* One set of options over another.
Over(options, below) ==
  [k \in DOMAIN options \cup DOMAIN below |->
     IF k \in DOMAIN options THEN options[k] ELSE below[k]]

\* Mutant: the file overrides the command line.
MergeFileLast(command) == Over(FileOptions(command), Over(command.cli, Defaults))

\* merge_config.  The command line holds only the options really given there,
\* and none of those is empty or null.
MergeConfig(command) == Over(command.cli, Over(FileOptions(command), Defaults))

=============================================================================
