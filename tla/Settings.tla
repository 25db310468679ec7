------------------------------ MODULE Settings ------------------------------
(***************************************************************************)
(* The start of a program that takes its settings from a file, from the    *)
(* environment and from its arguments: cfgx.Load, envx.BindTo for every    *)
(* field and Env.Validate, clix.New with the fields as targets and         *)
(* cfgx.Validate, in the order clix.go gives.  The program may crash at    *)
(* any step, also while Load writes the file, and start again.             *)
(***************************************************************************)
EXTENDS Cli

CONSTANTS
  Defaults,    \* the values the fields may have before Load
  FileTexts, EnvTexts,
  Typed,       \* of every field: the texts its type takes
  Sound,       \* of every field: the values its Validator accepts
  Repair,      \* of every field: what Validate(fix) makes of any other
  EnvRequired  \* fields bound with BindRequiredTo

Fields == Flags

VARIABLES
  stage,
  file,        \* "absent", "garbled" or "fine"
  content,     \* what a file that parses says: a function on some of the fields
  bound,       \* the fields bound so far (Env.vars)
  envErr,      \* one of them has something to report in Validate
  created,     \* history: how much of the file Load has written, "none", "some" or "all"
  first,       \* history: the fields before Load
  fromFile,    \* history: what this start read from the file
  fromEnv      \* history: the variables of every field, under the prefix and the fallback

settingsVars == <<stage, file, content, bound, envErr, created, first, fromFile, fromEnv>>

\* The part of g on S.
On(g, S) == [f \in S |-> g[f]]

Partial == {g \in UNION {[S -> FileTexts] : S \in SUBSET Fields} :
              \A f \in DOMAIN g : g[f] \in Typed[f]}
NoEnv   == [f \in Fields |-> <<None, None>>]
Stages  == {"load", "write", "bind", "parse", "ready", "failed"}

TypeOK ==
  /\ CliTypeOK
  /\ stage \in Stages /\ file \in {"absent", "garbled", "fine"}
  /\ bound \subseteq Fields /\ envErr \in BOOLEAN
  /\ created \in {"none", "some", "all"}

SettingsInit ==
  /\ \E d \in Defaults : Init(d) /\ first = d
  /\ stage = "load"
  /\ \/ file \in {"absent", "garbled"} /\ content = << >>
     \/ file = "fine" /\ content \in Partial
  /\ bound = {} /\ envErr = FALSE /\ created = "none"
  /\ fromFile = << >> /\ fromEnv = NoEnv

-----------------------------------------------------------------------------
\* Nothing of the parser moves but the fields.
KeepsParser == UNCHANGED <<def, set, args, matched, result, said>>

\* The Validators of the fields.  Asked to fix, one that refuses its value may mend it,
\* and may report it all the same; one that leaves it reports it (runValidator).
Refused(v)        == {f \in Fields : v[f] \notin Sound[f]}
Mended(v, some)   == [f \in Fields |-> IF f \in some THEN Repair[f] ELSE v[f]]
Validated(v, fix, then, refused) ==
  \E some \in SUBSET Refused(v) :
    /\ some # {} => fix
    /\ target' = Mended(v, some)
    /\ \/ some = Refused(v) /\ stage' = then
       \/ Refused(v) # {} /\ stage' \in refused

\* A program may go on after ErrValidationFailed, for the other layers to repair.
GoesOn == {"bind", "failed"}

\* Load with a file that can be read; a decoder that fails may have set some fields.
Load(fix) ==
  /\ stage = "load" /\ file # "absent"
  /\ KeepsParser
  /\ IF file = "garbled" THEN stage' = "failed" /\ UNCHANGED <<target, fromFile>>
     ELSE /\ Validated([f \in Fields |-> IF f \in DOMAIN content THEN content[f] ELSE target[f]],
                       fix, "bind", GoesOn)
          /\ fromFile' = content
  /\ UNCHANGED <<file, content, bound, envErr, created, first, fromEnv>>

\* loadMissing without WithCreateIfMissing: ErrNotFound, which the program may ignore.
NotFound ==
  /\ stage = "load" /\ file = "absent"
  /\ stage' \in GoesOn
  /\ UNCHANGED <<cliVars, file, content, bound, envErr, created, first, fromFile, fromEnv>>

\* loadMissing with it, up to the write.
Create(fix) ==
  /\ stage = "load" /\ file = "absent"
  /\ Validated(target, fix, "write", GoesOn) /\ KeepsParser
  /\ UNCHANGED <<file, content, bound, envErr, created, first, fromFile, fromEnv>>

\* What a part of the file says if it parses: some fields, of which one, where the write
\* stopped, may have any other text of its type.
Torn(v) ==
  LET parts == {On(v, S) : S \in SUBSET Fields}
  IN parts \cup UNION {{[g EXCEPT ![f] = x] : g \in parts, x \in FileTexts \cap Typed[f]} :
                       f \in Fields}

\* save: os.WriteFile truncates and writes; what is there in between may parse or not.
WriteSome ==
  /\ stage = "write" /\ created = "none"
  /\ created' = "some"
  /\ \/ file' = "garbled" /\ content' = << >>
     \/ file' = "fine" /\ content' \in Torn(target)
  /\ UNCHANGED <<cliVars, stage, bound, envErr, first, fromFile, fromEnv>>

WriteRest ==
  /\ stage = "write" /\ created = "some"
  /\ file' = "fine" /\ content' = target /\ stage' = "bind" /\ created' = "all"
  /\ UNCHANGED <<cliVars, bound, envErr, first, fromFile, fromEnv>>

\* ErrWriteFailed, whatever there is of the file by then.
WriteFails ==
  /\ stage = "write"
  /\ stage' = "failed"
  /\ UNCHANGED <<cliVars, file, content, bound, envErr, created, first, fromFile, fromEnv>>

LastSet(vars) == IF vars[2] # None THEN vars[2] ELSE vars[1]               \* mutant

\* lookupName: the first of the candidate keys that is set.
Lookup(vars) == IF vars[1] # None THEN vars[1] ELSE vars[2]

\* attachTarget with the value of bindVar: the parsed one or the field's own.
Attach(f, raw) == target' = IF raw \in Typed[f] THEN [target EXCEPT ![f] = raw] ELSE target

\* A variable under the prefix, one under the fallback prefix; Validate reports one that
\* does not parse, or is required and missing.
BindTo(f) ==
  /\ stage = "bind" /\ f \notin bound
  /\ \E vars \in (EnvTexts \cup {None}) \X (EnvTexts \cup {None}) :
       LET raw == Lookup(vars)
       IN /\ Attach(f, raw)
          /\ envErr' = (envErr \/ IF raw = None THEN f \in EnvRequired ELSE raw \notin Typed[f])
          /\ fromEnv' = [fromEnv EXCEPT ![f] = vars]
  /\ bound' = bound \cup {f}
  /\ KeepsParser /\ UNCHANGED <<stage, file, content, created, first, fromFile>>

BeforeLoad == first                                                        \* mutant

\* The defaults given to AddFlag: the fields as they are now.
Captured == target

\* Env.Validate, then New, which takes the fields as they are for defaults.
New ==
  /\ stage = "bind" /\ bound = Fields
  /\ IF envErr THEN stage' = "failed" /\ UNCHANGED cliVars
     ELSE stage' = "parse" /\ Start(Captured)
  /\ UNCHANGED <<file, content, bound, envErr, created, first, fromFile, fromEnv>>

Arguments == stage = "parse" /\ Parse /\ UNCHANGED settingsVars

\* cfgx.Validate over what the three layers left.
Check(fix) ==
  /\ stage = "parse" /\ result = "ok"
  /\ Validated(target, fix, "ready", {"failed"}) /\ KeepsParser
  /\ UNCHANGED <<file, content, bound, envErr, created, first, fromFile, fromEnv>>

\* Parser.Reset by a program that goes on with other arguments.
Again ==
  /\ stage \in {"parse", "ready"} /\ Reset
  /\ stage' = "parse"
  /\ UNCHANGED <<file, content, bound, envErr, created, first, fromFile, fromEnv>>

Crash ==
  /\ stage # "load" /\ stage' = "load"
  /\ Start(first)
  /\ bound' = {} /\ envErr' = FALSE /\ fromFile' = << >> /\ fromEnv' = NoEnv
  /\ UNCHANGED <<file, content, created, first>>

SettingsNext ==
  \/ \E fix \in BOOLEAN : Load(fix) \/ Create(fix) \/ Check(fix)
  \/ NotFound \/ WriteSome \/ WriteRest \/ WriteFails
  \/ \E f \in Fields : BindTo(f)
  \/ New \/ Arguments \/ Again \/ Crash

-----------------------------------------------------------------------------
\* What a field is to be: an argument before a variable that parses before the file
\* before the program's own value, mended if the validator refuses it.
Layered(f) ==
  LET v == IF NamedAt(f) # {} THEN TextFor(f)
           ELSE IF fromEnv[f][1] # None THEN fromEnv[f][1]
           ELSE IF fromEnv[f][2] # None THEN fromEnv[f][2]
           ELSE IF f \in DOMAIN fromFile THEN fromFile[f]
           ELSE first[f]
  IN IF v \in Sound[f] THEN v ELSE Repair[f]

\* A program that is ready has every field from the highest layer that gives one, also
\* after a Reset of the parser, and valid, although earlier layers may have been left
\* invalid; a file that Load wrote to its end holds the program's own values, mended where
\* its Validators refuse them, and none from the environment or the arguments.  Nothing is
\* said of a file the write did not finish: what parses of it is the file's layer at the
\* next start (Load, loadMissing, save, lookupName, attachTarget, AddFlag).
SettingsLayered ==
  /\ stage = "ready" => \A f \in Fields : target[f] = Layered(f)
  /\ created = "all" => content = Mended(first, Refused(first))
=============================================================================
