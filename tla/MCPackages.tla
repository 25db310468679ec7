----------------------------- MODULE MCPackages -----------------------------
(***************************************************************************)
(* The packages of Packages, and four more that only TLC checks: a command *)
(* line, settings, the walk of a validation and calls over several shards. *)
(* A behaviour that chose a package of Packages takes the steps it takes   *)
(* there, so what is proved of Spec is true of it.                         *)
(***************************************************************************)
EXTENDS Packages

Cutoffs      == [low |-> 25, normal |-> 60, high |-> 90]
RetryDelays  == -1 .. 3
ShardsOfKeys == <<1, 1, 2>>
NamesInTurn  == <<"a", "b", "b">>
OptionValues == -1 .. 5

\* Tokens of a command line: admin is also called a, a value of name may look like
\* either of them, like a flag or like a number, and the h of a group asks for help.
Word(x)         == [kind |-> "word", text |-> x]
Flag(k, fs, v)  == [kind |-> k, flags |-> fs, value |-> v]
Negation(f, v)  == [kind |-> "no", flag |-> f, value |-> v]
CliTokens ==
  {Word(x) : x \in {"admin", "a", "purge", "low"}}
  \cup {[kind |-> "dash", text |-> "-"], [kind |-> "number", text |-> "-5"]}
  \cup {Flag("flag", <<"verbose">>, v) : v \in {Nothing, "false"}}
  \cup {Flag("flag", <<"name">>, v) : v \in {Nothing, "low"}}
  \cup {Flag("flag", <<"level">>, v) : v \in {Nothing, "high"}}
  \cup {Flag("group", <<"verbose", f>>, Nothing) : f \in {"name", "help"}}
  \cup {Flag("group", <<"verbose", "level">>, "low")}
  \cup {Negation("verbose", v) : v \in {Nothing, "false", "low"}}
  \cup {Negation("name", Nothing)}
  \cup {[kind |-> k] : k \in {"help", "version", "unknown", "terminator"}}
CliAccepts  == [verbose |-> {"true", "false"},
                name    |-> {"admin", "a", "purge", "low", "high", "-", "-5"},
                level   |-> {"low", "high"}]
CliDefaults == [verbose |-> "false", name |-> "dflt", level |-> "low"]

\* Two settings: some texts have the type and are refused by the Validator, some do
\* not have the type.
Typed         == [port |-> {"0", "1", "2", "3", "4"}, level |-> {"low", "mid", "high"}]
Sound         == [port |-> {"1", "2", "3", "4"}, level |-> {"low", "high"}]
FieldDefaults == {[port |-> p, level |-> "low"] : p \in {"0", "1"}}
SettingTokens == {Flag("flag", <<"port">>, v) : v \in {"0", "4"}}
                 \cup {Flag("flag", <<"level">>, v) : v \in {"mid", "high"}}

K == INSTANCE Cli WITH Parent <- [admin |-> "root", purge |-> "admin"], Root <- "root",
       Names <- [root |-> {}, admin |-> {"admin", "a"}, purge |-> {"purge"}], Routing <- {"root"},
       Owner <- [verbose |-> "root", name |-> "admin", level |-> "purge"], Bools <- {"verbose"},
       Required <- {"name"}, Accepts <- CliAccepts, Tokens <- CliTokens, MaxTokens <- 4,
       None <- Nothing, def <- x1, target <- x2, set <- x3, args <- x4, matched <- x5,
       result <- x6, said <- x7
P == INSTANCE Settings WITH Parent <- << >>, Root <- "root", Names <- [root |-> {}],
       Routing <- {}, Owner <- [port |-> "root", level |-> "root"], Bools <- {}, Required <- {},
       Accepts <- [Typed EXCEPT !.level = Sound.level], Tokens <- SettingTokens, MaxTokens <- 2,
       Defaults <- FieldDefaults, FileTexts <- {"0", "2", "mid", "high"},
       EnvTexts <- {"3", "mid", "x"}, Repair <- [port |-> "1", level |-> "low"],
       EnvRequired <- {"level"}, None <- Nothing, def <- x1, target <- x2, set <- x3, args <- x4,
       matched <- x5, result <- x6, said <- x7, stage <- x8, file <- x9, content <- x10,
       bound <- x11, envErr <- x12, created <- x13, first <- x14, fromFile <- x15, fromEnv <- x16
V == INSTANCE Validation WITH Size <- 3, None <- Nothing, place <- x1, ptr <- x2, fix <- x3,
       stack <- x4, visited <- x5, freed <- x6, wrong <- x7, reported <- x8, validated <- x9,
       premature <- x10, aliased <- x11
X == INSTANCE Sharded WITH Calls <- Others, Batches <- {{1, 3}, {1, 2, 3}},
       ShardOf <- <<1, 1, 2>>, Capacity <- 1, ParallelFrom <- 3, recency <- x1, shut <- x2,
       closed <- x3, op <- x4, batch <- x5, todo <- x6, inside <- x7, count <- x8, seen <- x9,
       stored <- x10, gone <- x11, fresh <- x12, lasting <- x13, before <- x14, closer <- x15

MCInit ==
  \/ Init
  \/ package = "cli" /\ K!Init(CliDefaults) /\ Blank(7)
  \/ package = "settings" /\ P!SettingsInit /\ Blank(16)
  \/ package = "validation" /\ V!Init /\ Blank(11)
  \/ package = "sharded" /\ X!Init /\ Blank(15)

MCNext ==
  \/ Next
  \/ package = "cli" /\ K!Next /\ Rest(7)
  \/ package = "settings" /\ P!SettingsNext /\ Rest(16)
  \/ package = "validation" /\ V!Next /\ Rest(11)
  \/ package = "sharded" /\ X!Next /\ Rest(15)

MCSpec == MCInit /\ [][MCNext]_vars

\* The cache of fallx alone, also after a recount that went wrong.
FallInit == package = "fall" /\ F!Init /\ Blank(13)
FallSpec == FallInit /\ [][F!Next /\ Rest(13)]_vars

Symmetry == Permutations(Callers)

-----------------------------------------------------------------------------
\* clix: after a parse, also one after Reset, every flag has the value the last token
\* that names it gave it, or its default, and the answer is what the tokens call for
\* (parseArgs, Reset).
ParsedAsSaid ==
  package = "cli" => K!CliTypeOK /\ K!ParsedAsSaid

\* cfgx, envx and clix: a program that is ready has every setting from the last layer
\* that gives one, each of them valid, and a file that Load wrote to its end holds what
\* the program began with, mended; of one it did not, nothing is said, though what parses
\* of it is a layer of the next start (Load, BindTo, New, Validate).
SettingsLayered ==
  package = "settings" => P!TypeOK /\ P!SettingsLayered

\* cfgx: a walk that did not take one address for two values called the Validator of
\* every value, of what it holds before its own, and lost no mend (walkValidate).
WalkComplete ==
  package = "validation" => V!TypeOK /\ V!WalkComplete

\* lrux: what calls over several shards count and find agrees with what happened to
\* the keys meanwhile, and Close leaves nothing (DeleteMulti, GetMulti, Keys, Close).
ShardsAgree ==
  package = "sharded" => X!TypeOK /\ X!ShardsAgree

\* fallx: what the README says of its cache once eviction has settled (evictIfNeeded,
\* syncCacheSize).
BoundAfterSettling == package = "fall" => F!BoundAfterSettling
=============================================================================
