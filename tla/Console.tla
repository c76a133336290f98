------------------------------ MODULE Console ------------------------------
(***************************************************************************)
(* The command line of utility/console.c: characters come one by one, and  *)
(* a carriage return looks for the command and runs it.  What is echoed    *)
(* and printed is left out, and so is what a command does.                 *)
(***************************************************************************)
EXTENDS Integers, Sequences, FiniteSets, FiniteSetsExt, SequencesExt

CONSTANTS
  Letter,
  INPUT_BUFFER_SIZE,
  COMMAND_LIST_SIZE,
  COMMAND_MAX_ARGS,
  Builtin,            \* the names in commands[] from the beginning
  Names               \* the names of the commands that may be registered

ASSUME ConsoleAssumption ==
  /\ {INPUT_BUFFER_SIZE, COMMAND_LIST_SIZE, COMMAND_MAX_ARGS} \subseteq Nat \ {0}
  /\ Names \subseteq Seq(Letter)
  /\ Builtin \in Seq(Seq(Letter)) /\ Len(Builtin) <= COMMAND_LIST_SIZE
  /\ {"nul", "space", "bs", "cr"} \intersect Letter = {}

\* space stands for the characters between which strtok finds the tokens.
Typed == Letter \union {"space", "bs"}

VARIABLES
  input_buffer,
  input_len,
  commands,      \* the names of the registered commands
  ran,           \* what the last step did, and for which line, if it was a carriage return
  line,          \* the line the user has typed since the last carriage return
  strayed        \* a backspace has been typed in an empty line since then

consoleVars == <<input_buffer, input_len, commands, ran, line, strayed>>

Cleared == [i \in 0 .. INPUT_BUFFER_SIZE - 1 |-> "nul"]

\* There has been no carriage return.
Nothing == [command |-> 0, argv |-> <<>>, line |-> <<>>, strayed |-> FALSE]

ConsoleInit ==
  /\ input_buffer = Cleared /\ input_len = 0
  /\ commands = Builtin
  /\ ran = Nothing
  /\ line = <<>> /\ strayed = FALSE

-----------------------------------------------------------------------------

\* The string in the buffer b.
Text(b) == [i \in 1 .. Min({i \in DOMAIN b : b[i] = "nul"}) |-> b[i - 1]]

\* One character more for strtok: open says whether the last token goes on.
strtok(tokens, ch) ==
  IF ch = "space" THEN [tokens EXCEPT !.open = FALSE]
  ELSE IF tokens.open
    THEN [tokens EXCEPT !.list = Front(@) \o <<Append(Last(@), ch)>>]
    ELSE [list |-> Append(tokens.list, <<ch>>), open |-> TRUE]

FirstArgs(words) == SubSeq(words, 1, Min({Len(words), COMMAND_MAX_ARGS}))

argv_of(b) ==
  FirstArgs(FoldLeft(strtok, [list |-> <<>>, open |-> FALSE], Text(b)).list)

\* The command that is run, 0 when there is none of the name or no name.
found(argv) == SelectInSeq(commands, LAMBDA c : argv # <<>> /\ c = Head(argv))

handle_input_buffer(b) ==
  ran' = [command |-> found(argv_of(b)), argv |-> argv_of(b), line |-> line,
          strayed |-> strayed]

CarriageReturn ==
  /\ handle_input_buffer([input_buffer EXCEPT ![input_len] = "nul"])
  /\ input_buffer' = Cleared /\ input_len' = 0
  /\ line' = <<>> /\ strayed' = FALSE

after_backspace == [input_buffer EXCEPT ![input_len - 1] = "nul"]

Backspace ==
  /\ input_len > 0
  /\ input_buffer' = after_backspace /\ input_len' = input_len - 1

\* Mutant of has_room: the last character leaves no room for the terminator.
HasRoomForOne == input_len < INPUT_BUFFER_SIZE

has_room == input_len < INPUT_BUFFER_SIZE - 1

\* A backspace in an empty line is stored like a character.
Store(ch) ==
  /\ ~(ch = "bs" /\ input_len > 0)
  /\ IF has_room
       THEN input_buffer' = [input_buffer EXCEPT ![input_len] = ch] /\ input_len' = input_len + 1
       ELSE UNCHANGED <<input_buffer, input_len>>

console_input_char ==
  /\ \/ CarriageReturn
     \/ \E ch \in Typed :
          /\ (ch = "bs" /\ Backspace) \/ Store(ch)
          /\ line' = CASE ch = "bs" /\ line # <<>> -> Front(line)
                       [] ch # "bs" /\ Len(line) < INPUT_BUFFER_SIZE - 1 -> Append(line, ch)
                       [] OTHER -> line
          /\ strayed' = (strayed \/ (ch = "bs" /\ line = <<>>))
          /\ ran' = Nothing
  /\ UNCHANGED commands

console_register_cmd ==
  /\ \E name \in Names :
       commands' = IF Len(commands) < COMMAND_LIST_SIZE THEN Append(commands, name) ELSE commands
  /\ ran' = Nothing
  /\ UNCHANGED <<input_buffer, input_len, line, strayed>>

ConsoleNext == console_input_char \/ console_register_cmd

ConsoleSpec == ConsoleInit /\ [][ConsoleNext]_consoleVars

-----------------------------------------------------------------------------

\* The n-th element of a set of numbers.
UpTo(S, i) == {j \in S : j <= i}
Nth(S, n) == CHOOSE i \in S : Cardinality(UpTo(S, i)) = n

\* Where the words of the line l begin, and where each of them ends.
StartsOf(l) == {i \in DOMAIN l : l[i] # "space" /\ (i = 1 \/ l[i - 1] = "space")}
NoSpace(l, i, j) == \A k \in i .. j : l[k] # "space"
EndOf(l, i) == Max({j \in i .. Len(l) : NoSpace(l, i, j)})

WordAt(l, i) == SubSeq(l, i, EndOf(l, i))

Words(l) == [n \in 1 .. Cardinality(StartsOf(l)) |-> WordAt(l, Nth(StartsOf(l), n))]

\* The terminator is inside of the buffer, and nothing is behind it.
Terminated ==
  /\ input_len \in 0 .. INPUT_BUFFER_SIZE - 1
  /\ input_buffer \in [0 .. INPUT_BUFFER_SIZE - 1 -> Typed \union {"nul"}]
  /\ \A i \in DOMAIN input_buffer : input_buffer[i] = "nul" <=> i >= input_len

\* A carriage return runs what the user has typed: the first command of the name
\* that is the first word, with as many of the words as there is room for;
\* unless a backspace was typed in an empty line.
RunsWhatIsTyped ==
  ~ran.strayed =>
    LET argv == FirstArgs(Words(ran.line))
        same == {i \in DOMAIN commands : argv # <<>> /\ commands[i] = argv[1]}
    IN  ran.argv = argv /\ ran.command = IF same = {} THEN 0 ELSE Min(same)

\* The types, and the line that is typed is the line that is run.
ConsoleInv == Len(commands) <= COMMAND_LIST_SIZE /\ Terminated /\ RunsWhatIsTyped

=============================================================================
