------------------------------- MODULE Commands -------------------------------
(***************************************************************************)
(* The commands of the limbo: the graph a client is told of them            *)
(* (minecraft_packets: commands_packet.rs; pico_limbo: configuration.rs)    *)
(* and what the server makes of a line (handlers/play/commands.rs).         *)
(*                                                                         *)
(* The configuration gives each command an alias, a word, and disables it   *)
(* with the empty word. A line is a sequence of words. Fractions are in     *)
(* hundredths.                                                              *)
(***************************************************************************)
EXTENDS Integers, Sequences, SequencesExt

CONSTANTS
    FloatWords,                 \* the words that are fractions, with their values
    IntegerWords                \* the words that are whole numbers, likewise

COMMAND_NAMES == {"spawn", "fly", "fly_speed", "transfer"}

Enabled(alias) == alias # ""

FloatArgument(min, max) == [type |-> "float", min |-> min, max |-> max]
IntegerArgument(min, max) == [type |-> "integer", min |-> min, max |-> max]
SingleWord == [type |-> "string"]

Command(alias, arguments, required) ==
    IF Enabled(alias)
    THEN <<[alias |-> alias, arguments |-> arguments, required_argument_count |-> required]>>
    ELSE <<>>

\* send_commands_packet: what is offered to a version
OfferedCommands(aliases, pvn) ==
    Command(aliases.spawn, <<>>, 0)
      \o Command(aliases.fly, <<>>, 0)
      \o Command(aliases.fly_speed, <<FloatArgument(0, 100)>>, 0)
      \o (IF pvn >= 766
          THEN Command(aliases.transfer, <<SingleWord, IntegerArgument(0, 65535)>>, 1)
          ELSE <<>>)

(***************************************************************************)
(* CommandsPacket::new. The root is node 0; a command is a literal and a    *)
(* chain of arguments.                                                      *)
(***************************************************************************)
Literal(name, executable, children) ==
    [type |-> "literal", name |-> name, executable |-> executable, children |-> children]

Argument(properties, executable, children) ==
    [type |-> "argument", properties |-> properties, executable |-> executable,
     children |-> children]

\* Mutant: a command can be entered without its arguments.
CommandNodesBare(command, first) ==
    LET count == Len(command.arguments)
        ChildOf(i) == IF i < count THEN <<first + i + 1>> ELSE <<>>
    IN  <<Literal(command.alias, TRUE, ChildOf(0))>>
          \o [i \in 1..count |-> Argument(command.arguments[i], TRUE, ChildOf(i))]

\* An argument is executable by its distance from the node before it, which is 1.
CommandNodes(command, first) ==
    LET count == Len(command.arguments)
        ChildOf(i) == IF i < count THEN <<first + i + 1>> ELSE <<>>
    IN  <<Literal(command.alias, command.required_argument_count < 1, ChildOf(0))>>
          \o [i \in 1..count |->
                Argument(command.arguments[i], 1 >= command.required_argument_count, ChildOf(i))]

Nodes(commands) ==
    FoldLeft(LAMBDA nodes, command :
               [nodes EXCEPT ![1].children = Append(@, Len(nodes))]
                 \o CommandNodes(command, Len(nodes)),
             <<[type |-> "root", executable |-> FALSE, children |-> <<>>]>>,
             commands)

CommandsPacket(aliases, pvn) == [nodes |-> Nodes(OfferedCommands(aliases, pvn)), root_index |-> 0]

(***************************************************************************)
(* Command::parse                                                           *)
(***************************************************************************)
Error == [command |-> "none"]

Clamp(n, min, max) == IF n < min THEN min ELSE IF n > max THEN max ELSE n

ParseSpeed(words) ==
    LET word == IF Len(words) > 1 THEN words[2] ELSE "0.05"
    IN  IF word \in DOMAIN FloatWords
        THEN [command |-> "fly_speed", speed |-> Clamp(FloatWords[word], 0, 100)]
        ELSE Error

ParseTransfer(words) ==
    LET port == IF Len(words) > 2 THEN words[3] ELSE "25565"
    IN  IF Len(words) > 1 /\ port \in DOMAIN IntegerWords
        THEN [command |-> "transfer", host |-> words[2], port |-> IntegerWords[port]]
        ELSE Error

IsCommand(alias, words) == Enabled(alias) /\ words # <<>> /\ Head(words) = alias

Parse(aliases, words) ==
    CASE IsCommand(aliases.spawn, words) -> [command |-> "spawn"]
      [] ~IsCommand(aliases.spawn, words) /\ IsCommand(aliases.fly, words) -> [command |-> "fly"]
      [] /\ \A c \in {"spawn", "fly"} : ~IsCommand(aliases[c], words)
         /\ IsCommand(aliases.fly_speed, words) -> ParseSpeed(words)
      [] /\ \A c \in {"spawn", "fly", "fly_speed"} : ~IsCommand(aliases[c], words)
         /\ IsCommand(aliases.transfer, words) -> ParseTransfer(words)
      [] OTHER -> Error

(***************************************************************************)
(* The client (outside the repository) walks the graph: a literal takes its *)
(* name, an argument any word of its type, and a line may end at a node     *)
(* that is executable. A word is one of those the constants name, or a host *)
(***************************************************************************)
HOST == "limbo.example"
Words == DOMAIN FloatWords \cup DOMAIN IntegerWords \cup {HOST}

Accepted(properties) ==
    CASE properties.type = "float" ->
           {w \in DOMAIN FloatWords : FloatWords[w] \in properties.min..properties.max}
      [] properties.type = "integer" ->
           {w \in DOMAIN IntegerWords : IntegerWords[w] \in properties.min..properties.max}
      [] properties.type = "string" -> Words

LinesFrom(nodes, first) ==
    LET lines[index \in Nat] ==
          LET node == nodes[index + 1]
              further == UNION {lines[c] : c \in ToSet(node.children)}
              ends == (IF node.executable THEN {<<>>} ELSE {}) \cup further
          IN  CASE node.type = "root" -> further
                [] node.type = "literal" -> {<<node.name>> \o line : line \in ends}
                [] node.type = "argument" ->
                     {<<word>> \o line : word \in Accepted(node.properties), line \in ends}
    IN  lines[first]

\* The lines a client lets its player enter
OfferedLines(packet) == LinesFrom(packet.nodes, packet.root_index)

=============================================================================
