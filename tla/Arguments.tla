----------------------------- MODULE Arguments -----------------------------
(***************************************************************************)
(* From the words of a command line to what the CLI does with them         *)
(* (evix-cli/src/args.rs). Options in the style of Nix take two or three   *)
(* words; normalize_args packs these into one, behind an equals sign and   *)
(* with a separator between them, so that the option parser (the crate     *)
(* pound) sees one value, which from_arg takes apart again.                *)
(*                                                                         *)
(* A word is a sequence of pieces: a whole flag is one of them, and so is  *)
(* every character that the code looks for. Where a command line comes     *)
(* from, its settings before they were written down, is kept beside it, to *)
(* say what should become of it.                                           *)
(*                                                                         *)
(* An operator named X_Y is X with a mistake in it, kept to show that the  *)
(* properties notice.                                                      *)
(***************************************************************************)
EXTENDS Naturals, Sequences, FiniteSets

X == INSTANCE SequencesExt

CONSTANTS
  Pieces,                    \* what words are made of
  Equals, Separator, Comma,  \* the characters `=`, U+001F and `,`
  Number(_),     \* what a word says as a number, or Invalid
  Invalid,       \* what cannot be read
  Absent,        \* Option::None of an option
  CommandLines   \* what may be meant: records of
                 \*   command: the subcommand
                 \*   settings: a sequence of records of flag, values (a
                 \*     sequence of words) and joined (`--flag=first`)

VARIABLES
  meant,       \* the command line, as it was meant
  args,        \* the words it was written in
  index,       \* normalize_args: the next of them
  normalized,  \* normalize_args: the words for the option parser
  phase,       \* "normalize", "parse", "planned" or "refused"
  plan         \* the CommandPlan

argvars == <<meant, args, index, normalized, phase, plan>>

-----------------------------------------------------------------------------
(* The options of each subcommand (Commands), without the alias of one,    *)
(* --max-memory-size, and the global flags for more and less output.       *)
Subcommands == {"eval", "watch", "query", "diff", "daemon", "worker"}

Pairs  == {"--arg", "--argstr", "--override-input", "--option"}
Inputs == {"--flake", "--expr", "--file"}

Common == Inputs \union Pairs \union
  {"--remote", "--workers", "--max-memory", "--gc-roots-dir", "--socket"}

Valued(command) ==
  CASE command \in {"eval", "watch", "diff"} -> Common
    [] command = "query"  -> Common \union {"--system", "--attr-prefix"}
    [] command = "daemon" -> {"--socket"}
    [] command = "worker" -> {"--listen"}

Switches(command) ==
  CASE command = "daemon" -> {"--foreground"}
    [] command = "worker" -> {}
    [] OTHER -> {"--meta", "--show-input-drvs", "--force-recurse"} \union
                (IF command = "diff" THEN {} ELSE {"--no-daemon"})

(* Those that collect their values (Vec).                                  *)
Repeatable == Pairs \union {"--remote", "--system", "--attr-prefix"}

Flags == UNION {Valued(command) \union Switches(command) : command \in Subcommands}

(* packed_arity; one for an option that is not packed.                     *)
Arity(flag) ==
  CASE flag \in Pairs -> 2
    [] flag = "--remote" -> 3
    [] OTHER -> 1

Packed(flag) == Arity(flag) > 1

Holds(word, piece) == \E n \in DOMAIN word : word[n] = piece

(* str::split_once, with the place of the first separator.                 *)
First(word, piece) ==
  CHOOSE n \in DOMAIN word : word[n] = piece /\ ~Holds(SubSeq(word, 1, n - 1), piece)

Before(word, piece) == SubSeq(word, 1, First(word, piece) - 1)
After(word, piece)  == SubSeq(word, First(word, piece) + 1, Len(word))

(* A packed flag with the first of its values after an equals sign.        *)
Joined(word) == Holds(word, Equals) /\ Len(Before(word, Equals)) = 1
                /\ Packed(Before(word, Equals)[1])

Bare(word) == Len(word) = 1 /\ Packed(word[1])

TakenForPacked(word) == Joined(word) \/ Bare(word)

Closed(at) == IF at.part = << >> THEN at.parts ELSE Append(at.parts, at.part)

(* str::split with the empty parts left out: those before each place, and  *)
(* the one that it is in.                                                  *)
Parts(word, piece) ==
  LET at[n \in 0..Len(word)] ==
        IF n = 0 THEN [parts |-> << >>, part |-> << >>]
        ELSE IF word[n] # piece
          THEN [at[n - 1] EXCEPT !.part = Append(@, word[n])]
          ELSE [parts |-> Closed(at[n - 1]), part |-> << >>]
  IN  Closed(at[Len(word)])

Pack(values) ==
  LET joined[n \in 1..Len(values)] ==
        IF n = 1 THEN values[1] ELSE joined[n - 1] \o <<Separator>> \o values[n]
  IN  joined[Len(values)]

Written(setting) ==
  CASE setting.values = << >> -> << <<setting.flag>> >>
    [] setting.values # << >> /\ setting.joined ->
         << <<setting.flag, Equals>> \o Head(setting.values)>> \o Tail(setting.values)
    [] OTHER -> << <<setting.flag>> >> \o setting.values

(* What the words of a command line tell. Before another setting no value  *)
(* may be missing, since the words of that would be its values; a word     *)
(* behind an option that is not packed is no packed option; and only an    *)
(* option that collects its values is given more than once.                *)
Takes(flag) == IF \E command \in Subcommands : flag \in Switches(command) THEN 0 ELSE Arity(flag)

Regular(settings) ==
  \A n \in DOMAIN settings :
    LET setting == settings[n]
    IN  /\ setting.flag \in Repeatable
           \/ \A m \in DOMAIN settings : settings[m].flag = setting.flag => m = n
        /\ Len(setting.values) <= Takes(setting.flag)
        /\ n < Len(settings) => Len(setting.values) = Takes(setting.flag)
        /\ Takes(setting.flag) = 1 /\ ~setting.joined =>
             \A v \in DOMAIN setting.values : ~TakenForPacked(setting.values[v])

ASSUME ArgumentsAssumption ==
  /\ Subcommands \union Flags \union {Equals, Separator} \subseteq Pieces
  /\ {Equals, Separator, Invalid} \cap (Subcommands \union Flags) = {} /\ Equals # Separator
  /\ Number(<< >>) = Invalid
  /\ \A line \in CommandLines :
       /\ line.command \in Subcommands
       /\ line.settings \in Seq([flag : Flags, values : Seq(Seq(Pieces)), joined : BOOLEAN])
       /\ Regular(line.settings)

ArgInit ==
  /\ meant \in CommandLines
  /\ args = << <<meant.command>> >> \o
            X!FlattenSeq([n \in DOMAIN meant.settings |-> Written(meant.settings[n])])
  /\ index = 1
  /\ normalized = << >>
  /\ phase = "normalize"
  /\ plan = Absent

-----------------------------------------------------------------------------
Refuse ==
  /\ phase' = "refused"
  /\ UNCHANGED <<index, normalized, plan>>

(* collect_packed_values and pack: as many of the next words as are        *)
(* missing, whatever they look like.                                       *)
Collect(flag, first) ==
  LET missing == Arity(flag) - Len(first)
      values  == first \o SubSeq(args, index + 1, index + missing)
  IN  IF index + missing > Len(args) \/ \E v \in DOMAIN values : Holds(values[v], Separator)
        THEN Refuse
        ELSE /\ normalized' = Append(normalized, <<flag, Equals>> \o Pack(values))
             /\ index' = index + missing + 1
             /\ UNCHANGED <<phase, plan>>

(* The value that came with the equals sign, and one too many after it.    *)
Normalize_Off ==
  /\ phase = "normalize" /\ index <= Len(args)
  /\ LET word == args[index]
     IN  CASE Bare(word)   -> Collect(word[1], << >>)
           [] Joined(word) -> /\ normalized' = Append(normalized, word)
                              /\ index' = index + Arity(word[1])
                              /\ UNCHANGED <<phase, plan>>
           [] OTHER -> /\ normalized' = Append(normalized, word)
                       /\ index' = index + 1
                       /\ UNCHANGED <<phase, plan>>
  /\ UNCHANGED <<meant, args>>

Normalize ==
  /\ phase = "normalize" /\ index <= Len(args)
  /\ LET word == args[index]
     IN  CASE Joined(word) -> Collect(word[1], <<After(word, Equals)>>)
           [] Bare(word)   -> Collect(word[1], << >>)
           [] OTHER -> /\ normalized' = Append(normalized, word)
                       /\ index' = index + 1
                       /\ UNCHANGED <<phase, plan>>
  /\ UNCHANGED <<meant, args>>

Normalized ==
  /\ phase = "normalize" /\ index > Len(args)
  /\ phase' = "parse"
  /\ UNCHANGED <<meant, args, index, normalized, plan>>

-----------------------------------------------------------------------------
(* The option parser: <<flag, value>> for each option, in their order, and *)
(* Invalid for the flag of what is none.                                   *)
Options(command, words) ==
  LET at[n \in 1..(Len(words) + 2)] ==
        IF n > Len(words) THEN << >>
        ELSE LET word == words[n]
                 flag == IF word = << >> THEN Invalid ELSE word[1]
             IN  CASE Len(word) = 1 /\ flag \in Switches(command) ->
                        << <<flag, << >> >> >> \o at[n + 1]
                   [] Len(word) > 1 /\ flag \in Valued(command) /\ word[2] = Equals ->
                        << <<flag, After(word, Equals)>> >> \o at[n + 1]
                   [] Len(word) = 1 /\ flag \in Valued(command) /\ n < Len(words) ->
                        << <<flag, words[n + 1]>> >> \o at[n + 2]
                   [] OTHER ->
                        << <<Invalid, word>> >> \o at[n + 1]
  IN  at[2]

(* from_arg: whether the value of an option can be read, and what is read. *)
Split(word) == <<Before(word, Separator), After(word, Separator)>>

Readable(flag, word) ==
  CASE flag = Invalid  -> FALSE
    [] flag \in Pairs  -> Holds(word, Separator)
    [] flag = "--remote" ->
         /\ Holds(word, Separator) /\ Holds(Split(word)[2], Separator)
         /\ Number(Split(Split(word)[2])[2]) \notin {Invalid, 0}
    [] flag \in {"--workers", "--max-memory"} -> Number(word) # Invalid
    [] OTHER -> TRUE

RemoteArg(word) ==
  LET rest == Split(Split(word)[2])
  IN  [endpoint |-> Split(word)[1],
       systems  |-> Parts(rest[1], Comma),
       workers  |-> Number(rest[2])]

FromArg(flag, word) ==
  CASE flag \in Pairs -> Split(word)
    [] flag = "--remote" -> RemoteArg(word)
    [] flag \in {"--workers", "--max-memory"} -> Number(word)
    [] OTHER -> word

(* Places in their order.                                                  *)
InOrder(places) ==
  CHOOSE s \in [1..Cardinality(places) -> places] :
    \A m, n \in DOMAIN s : m < n => s[m] < s[n]

(* The values of an option, in their order.                                *)
All(options, flag) ==
  LET at == InOrder({n \in DOMAIN options : options[n][1] = flag})
  IN  [n \in DOMAIN at |-> FromArg(flag, options[at[n]][2])]

One(options, flag, default) ==
  IF All(options, flag) = << >> THEN default ELSE All(options, flag)[1]

Given(options, flag) == All(options, flag) # << >>

Tagged(tag, pairs) == [n \in DOMAIN pairs |-> <<tag, pairs[n]>>]

AutoArgs(options) ==
  Tagged("Expr", All(options, "--arg")) \o Tagged("Str", All(options, "--argstr"))

(* config; for each kind of input at most one is given.                    *)
Config(options) ==
  [input    |-> LET flag == CHOOSE f \in Inputs : Given(options, f)
                IN  <<flag, One(options, flag, Absent)>>,
   autoArgs       |-> AutoArgs(options),
   overrideInputs |-> All(options, "--override-input"),
   nixOptions     |-> All(options, "--option"),
   remotes        |-> All(options, "--remote"),
   workers        |-> One(options, "--workers", 1),
   maxMemory      |-> One(options, "--max-memory", 4096),
   gcRootsDir     |-> One(options, "--gc-roots-dir", Absent),
   switches       |-> {s \in {"--meta", "--show-input-drvs", "--force-recurse"} :
                         Given(options, s)}]

(* Whether command_plan has something to do.                               *)
Accepted(command, options) ==
  /\ \A n \in DOMAIN options : Readable(options[n][1], options[n][2])
  /\ command = "worker" => Given(options, "--listen")
  /\ command \notin {"daemon", "worker"} =>
       /\ Cardinality({f \in Inputs : Given(options, f)}) = 1
       /\ ~(command = "watch" /\ Given(options, "--expr"))

(* A query takes --no-daemon and ignores it.                               *)
CommandPlan(command, options) ==
  LET socket == One(options, "--socket", Absent)
  IN  CASE command = "daemon" ->
             [command |-> command, socket |-> socket,
              foreground |-> Given(options, "--foreground")]
        [] command = "worker" ->
             [command |-> command, listen |-> One(options, "--listen", Absent)]
        [] OTHER ->
             [command   |-> command, socket |-> socket, config |-> Config(options),
              useDaemon |-> command \in {"query", "diff"}
                            \/ ~Given(options, "--no-daemon"),
              systems   |-> All(options, "--system"),
              prefixes  |-> All(options, "--attr-prefix")]

Parse ==
  /\ phase = "parse"
  /\ LET command == normalized[1][1]
         options == Options(command, normalized)
     IN  IF Accepted(command, options)
           THEN phase' = "planned" /\ plan' = CommandPlan(command, options)
           ELSE phase' = "refused" /\ UNCHANGED plan
  /\ UNCHANGED <<meant, args, index, normalized>>

ArgNext == Normalize \/ Normalized \/ Parse

-----------------------------------------------------------------------------
(* What is meant by a command line.                                        *)

Settings(flag) ==
  LET at == InOrder({n \in DOMAIN meant.settings : meant.settings[n].flag = flag})
  IN  [n \in DOMAIN at |-> meant.settings[at[n]]]

Said(flag) == [n \in DOMAIN Settings(flag) |-> Settings(flag)[n].values]

(* A setting that can be carried out.                                      *)
Proper(setting) ==
  LET values == setting.values
  IN  /\ setting.flag \in Valued(meant.command) \union Switches(meant.command)
      /\ setting.flag \in Valued(meant.command) => Len(values) = Arity(setting.flag)
      /\ Packed(setting.flag) => \A v \in DOMAIN values : ~Holds(values[v], Separator)
      /\ setting.flag = "--remote" => Number(values[3]) \notin {Invalid, 0}
      /\ setting.flag \in {"--workers", "--max-memory"} => Number(values[1]) # Invalid

Complete ==
  /\ \A n \in DOMAIN meant.settings : Proper(meant.settings[n])
  /\ meant.command = "worker" => Said("--listen") # << >>
  /\ meant.command \notin {"daemon", "worker"} =>
       /\ Cardinality({f \in Inputs : Said(f) # << >>}) = 1
       /\ ~(meant.command = "watch" /\ Said("--expr") # << >>)

(* What is said with an option that is given once, if it is.               *)
OneSaid(flag, default) == IF Said(flag) = << >> THEN default ELSE Said(flag)[1][1]

AmountSaid(flag, default) ==
  IF Said(flag) = << >> THEN default ELSE Number(Said(flag)[1][1])

EachSaid(flag) == [n \in DOMAIN Said(flag) |-> Said(flag)[n][1]]

RemotesMeant(remotes) ==
  /\ Len(remotes) = Len(Said("--remote"))
  /\ \A n \in DOMAIN remotes :
       LET said == Said("--remote")[n]
       IN  /\ remotes[n].endpoint = said[1]
           /\ remotes[n].systems = Parts(said[2], Comma)
           /\ said[3] # << >>
           /\ remotes[n].workers = Number(said[3])

ConfigMeant(config) ==
  /\ <<config.input[2]>> = Said(config.input[1])[1]
  /\ config.autoArgs = Tagged("Expr", Said("--arg")) \o Tagged("Str", Said("--argstr"))
  /\ config.overrideInputs = Said("--override-input")
  /\ config.nixOptions = Said("--option")
  /\ RemotesMeant(config.remotes)
  /\ config.workers = AmountSaid("--workers", 1)
  /\ config.maxMemory = AmountSaid("--max-memory", 4096)
  /\ config.gcRootsDir = OneSaid("--gc-roots-dir", Absent)
  /\ config.switches = {s \in {"--meta", "--show-input-drvs", "--force-recurse"} :
                           Settings(s) # << >>}

RequestMeant ==
  /\ ConfigMeant(plan.config)
  /\ plan.socket = OneSaid("--socket", Absent)
  /\ plan.systems = EachSaid("--system")
  /\ plan.prefixes = EachSaid("--attr-prefix")
  /\ plan.useDaemon <=> ~(meant.command \in {"eval", "watch"}
                          /\ Settings("--no-daemon") # << >>)

DaemonMeant ==
  /\ plan.socket = OneSaid("--socket", Absent)
  /\ plan.foreground <=> Settings("--foreground") # << >>

(* Every command line that can be carried out is planned as it was meant,  *)
(* all of it, however its settings were written and whatever their values  *)
(* look like, be it another flag; and every other is refused               *)
(* (normalize_args, the from_arg functions, command_plan and config        *)
(* together).                                                              *)
PlanIsMeant ==
  phase \in {"planned", "refused"} =>
    /\ Complete <=> phase = "planned"
    /\ Complete =>
         /\ plan.command = meant.command
         /\ meant.command = "daemon" => DaemonMeant
         /\ meant.command = "worker" => plan.listen = OneSaid("--listen", Absent)
         /\ meant.command \notin {"daemon", "worker"} => RequestMeant
=============================================================================
