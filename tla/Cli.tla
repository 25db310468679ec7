-------------------------------- MODULE Cli --------------------------------
(***************************************************************************)
(* clix: the parse of an argument list against a tree of commands with     *)
(* inherited flags (parseArgs), and the next parse with the same tree      *)
(* (Reset).  The arguments are chosen as the parser comes to them; said    *)
(* keeps them.  A token is                                                 *)
(*   [kind |-> "word" | "dash" | "number", text]       no flag             *)
(*   [kind |-> "flag" | "group", flags, value]         --f, -f, -f=v, -fgv *)
(*   [kind |-> "no", flag, value]                      --no-f              *)
(*   [kind |-> "help" | "version" | "unknown" | "terminator"]              *)
(* where flags lists the flags a token names ("help" among them stands for *)
(* the h of a group), only the last of which may take a value, and value   *)
(* is the text behind = or behind the last letter of a group.              *)
(***************************************************************************)
EXTENDS Integers, Sequences, FiniteSets, SequencesExt

CONSTANTS
  Parent,      \* of every command but the root
  Root,
  Names,       \* of every command: its name and aliases
  Routing,     \* the commands with subcommands and no action
  Owner,       \* of every flag: the command it is registered on
  Bools, Required,
  Accepts,     \* of every flag: the texts its type and its Enum take
  Tokens, MaxTokens,
  None

Flags    == DOMAIN Owner
Commands == DOMAIN Parent \cup {Root}

VARIABLES
  def,         \* the default AddFlag captured
  target,      \* the variable a flag is bound to
  set,         \* flags with flagMeta.set
  args,        \* positional arguments of every command
  matched,     \* the command parseArgs is in (Parser.matched)
  result,      \* "parsing", "ok" or the error
  said         \* history: the tokens of this parse

cliVars == <<def, target, set, args, matched, result, said>>

Path[c \in Commands] == IF c = Root THEN <<c>> ELSE Append(Path[Parent[c]], c)

\* resolveFlag, resolveShort: the flags of a command and of its ancestors. Names do
\* not repeat along a path (assertNoShadowFlag).
Visible(c) == {f \in Flags : Owner[f] \in ToSet(Path[c])}

Results == {"parsing", "ok", "help", "version", "unknown command", "unknown flag",
            "missing value", "invalid value", "required"}

CliTypeOK ==
  /\ set \subseteq Flags /\ matched \in Commands /\ result \in Results
  /\ Len(said) =< MaxTokens

\* AddFlag for every flag (the default goes to the target), then the start of New.
Start(d) ==
  /\ def' = d /\ target' = d /\ set' = {}
  /\ args' = [c \in Commands |-> <<>>]
  /\ matched' = Root /\ result' = "parsing" /\ said' = <<>>

-----------------------------------------------------------------------------
LooksLikeFlag(t) == t.kind \notin {"word", "dash", "number"}

TakesNext(t) == /\ t.kind \in {"flag", "group"}
                /\ t.value = None
                /\ Last(t.flags) \notin Bools \cup {"help"}

Parsing(t) == result = "parsing" /\ t \in Tokens /\ Len(said) < MaxTokens

Say(t) == said' = Append(said, t)

Stop(r) == result' = r /\ UNCHANGED <<def, target, set, args, matched>>

AddArgs(c, ts) == args' = [args EXCEPT ![c] = @ \o ts]

\* What becomes of a flag f that gets this text (None: no value follows).
Verdict(f, text) ==
  IF f = "help" THEN "help"
  ELSE IF f \notin Visible(matched) THEN "unknown flag"
  ELSE IF text = None THEN "missing value"
  ELSE IF text \notin Accepts[f] THEN "invalid value"
  ELSE "parsing"

\* The setFunc of the flags of one token, in order and up to the first error.
SetFlags(pairs) ==
  LET bad  == {i \in DOMAIN pairs : Verdict(pairs[i][1], pairs[i][2]) # "parsing"}
      done == IF bad = {} THEN pairs ELSE SubSeq(pairs, 1, Min(bad) - 1)
  IN /\ target' = FoldLeft(LAMBDA t, p : [t EXCEPT ![p[1]] = p[2]], target, done)
     /\ set' = set \cup {p[1] : p \in ToSet(done)}
     /\ result' = IF bad = {} THEN "parsing"
                  ELSE LET p == pairs[Min(bad)] IN Verdict(p[1], p[2])
     /\ UNCHANGED <<def, args, matched>>

\* next is the text of the token that follows, for a last flag without a value.
Pairs(t, next) ==
  [i \in DOMAIN t.flags |->
     <<t.flags[i], IF i = Len(t.flags) /\ t.value # None THEN t.value
                   ELSE IF t.flags[i] \in Bools \cup {"help"} THEN "true" ELSE next>>]

TakeFlags(t) ==
  /\ Parsing(t) /\ t.kind \in {"flag", "group"}
  /\ \/ ~TakesNext(t) /\ SetFlags(Pairs(t, None)) /\ Say(t)
     \/ /\ TakesNext(t) /\ Len(said) + 1 < MaxTokens
        /\ \E v \in Tokens :
             /\ ~LooksLikeFlag(v)
             /\ SetFlags(Pairs(t, v.text)) /\ said' = said \o <<t, v>>
     \/ TakesNext(t) /\ SetFlags(Pairs(t, None)) /\ Say(t)

Negated(text) == CASE text \in {None, "true"} -> "false"
                   [] text = "false"          -> "true"
                   [] OTHER                   -> text

Negate(t) ==
  /\ Parsing(t) /\ t.kind = "no" /\ Say(t)
  /\ IF t.flag \in Bools THEN SetFlags(<< <<t.flag, Negated(t.value)>> >>)
     ELSE Stop("unknown flag")

Children(t) == {c \in DOMAIN Parent : Parent[c] = matched /\ t.text \in Names[c]}

Descend(t) ==
  /\ Parsing(t) /\ t.kind = "word" /\ Say(t)
  /\ \E c \in Children(t) : matched' = c
  /\ UNCHANGED <<def, target, set, args, result>>

Operand(t) ==
  /\ Parsing(t) /\ t.kind \in {"word", "dash"} /\ Say(t)
  /\ t.kind = "word" => Children(t) = {}
  /\ IF matched \in Routing THEN Stop("unknown command")
     ELSE AddArgs(matched, <<t>>) /\ UNCHANGED <<def, target, set, matched, result>>

Special(t) ==
  /\ Parsing(t) /\ t.kind \in {"help", "version", "unknown", "number"} /\ Say(t)
  /\ Stop(IF t.kind \in {"unknown", "number"} THEN "unknown flag" ELSE t.kind)

OwnOnly == {f \in Required : Owner[f] = matched} \ set                     \* mutant

\* checkRequired.
RequiredMissing == (Required \cap Visible(matched)) \ set

Outcome == IF RequiredMissing = {} THEN "ok" ELSE "required"

Terminate(t) ==
  /\ Parsing(t) /\ t.kind = "terminator"
  /\ \E n \in 0 .. MaxTokens - Len(said) - 1 : \E rest \in [1 .. n -> Tokens] :
       AddArgs(matched, rest) /\ said' = said \o <<t>> \o rest
  /\ result' = Outcome
  /\ UNCHANGED <<def, target, set, matched>>

Finish ==
  /\ result = "parsing"
  /\ Stop(Outcome) /\ UNCHANGED said

MarkersKept == set                                                         \* mutant

\* What resetCommand leaves of the flag markers.
Cleared == {}

Reset ==
  /\ result # "parsing"
  /\ target' = def /\ set' = Cleared
  /\ args' = [c \in Commands |-> <<>>]
  /\ matched' = Root /\ result' = "parsing" /\ said' = <<>>
  /\ UNCHANGED def

Parse ==
  \/ \E t \in Tokens : \/ TakeFlags(t) \/ Negate(t) \/ Descend(t) \/ Operand(t)
                       \/ Special(t) \/ Terminate(t)
  \/ Finish

\* The parser alone: every default is what the flag was declared with.
Init(d) ==
  /\ def = d /\ target = d /\ set = {}
  /\ args = [c \in Commands |-> <<>>]
  /\ matched = Root /\ result = "parsing" /\ said = <<>>

Next == Parse \/ Reset

IsSet(f) == f \in Visible(matched) /\ f \in set

-----------------------------------------------------------------------------
\* What the tokens mean, said without the parser. A token is a value if the one before
\* takes one; behind the terminator all are operands.
Ends     == Min({i \in DOMAIN said : said[i].kind = "terminator"} \cup {Len(said) + 1})
Value(i) == i > 1 /\ TakesNext(said[i - 1])
NamedAt(f) == {i \in 1 .. Ends - 1 :
                 CASE said[i].kind \in {"flag", "group"} -> f \in ToSet(said[i].flags)
                   [] said[i].kind = "no"                -> f = said[i].flag
                   [] OTHER                              -> FALSE}
TextFor(f) ==
  LET i == Max(NamedAt(f))
      t == said[i]
  IN IF t.kind = "no" THEN Negated(t.value)
     ELSE IF t.value # None /\ Last(t.flags) = f THEN t.value
     ELSE IF f \in Bools THEN "true" ELSE said[i + 1].text

Taken(c) == [kind |-> "command", name |-> c]
\* A command's word is the same under its name and its aliases.
Plain(ts) ==
  [i \in DOMAIN ts |->
     IF ts[i].kind = "word" /\ \E c \in DOMAIN Parent : ts[i].text \in Names[c]
     THEN Taken(CHOOSE c \in DOMAIN Parent : ts[i].text \in Names[c]) ELSE ts[i]]
Operands ==
  LET IsOperand(i) == \/ i > Ends
                      \/ i < Ends /\ said[i].kind \in {"word", "dash"} /\ ~Value(i)
      places == SelectSeq([i \in DOMAIN said |-> i], IsOperand)
  IN [k \in DOMAIN places |-> said[places[k]]]
Placed ==
  FoldLeft(LAMBDA ts, c : ts \o (IF c = Root THEN <<>> ELSE <<Taken(c)>>) \o Plain(args[c]),
           <<>>, Path[matched])

\* A parse that comes to its end gives every flag the text of the last token that names
\* it and every other flag its default, also after earlier parses with the same tree;
\* a flag counts as set iff it was named; it succeeds iff no required flag of the
\* command or of an ancestor is missing; and every operand is a command taken or a
\* positional of the command it follows, in order (parseArgs, parseShortGroup,
\* takeNextFlagValue, checkRequired, Reset).
ParsedAsSaid ==
  /\ result \in {"ok", "required"} =>
       /\ \A f \in Flags : /\ target[f] = IF NamedAt(f) = {} THEN def[f] ELSE TextFor(f)
                           /\ IsSet(f) <=> NamedAt(f) # {}
       /\ result = "ok" <=> \A f \in Required : Owner[f] \in ToSet(Path[matched]) => NamedAt(f) # {}
       /\ Placed = Plain(Operands)
       /\ \A c \in Commands \ ToSet(Path[matched]) : args[c] = <<>>
  \* A value that is refused leaves the flag as it was.
  /\ \A f \in Flags : IF f \in set THEN target[f] \in Accepts[f] ELSE target[f] = def[f]
=============================================================================
