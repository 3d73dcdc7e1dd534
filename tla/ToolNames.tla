------------------------------ MODULE ToolNames ------------------------------
(***************************************************************************)
(* The names under which the tools of a request are offered to the         *)
(* upstream (src/conversion/tool_context.rs).  The upstream knows only     *)
(* functions with short names of few characters; Codex has functions,      *)
(* custom tools, tool search and namespaces of functions.  A call that the *)
(* upstream makes is translated back to the tool it is meant for, and a    *)
(* call that Codex sends back as history is translated again.              *)
(*                                                                         *)
(* A name is a sequence of characters.  Descriptions and parameters of the *)
(* tools are left out, and so is white space around a name.                *)
(***************************************************************************)
EXTENDS Naturals, SequencesExt

CONSTANTS
    Tools,       \* the tools that may be declared, see ToolType
    MaxLen,      \* CHAT_TOOL_NAME_MAX_LEN
    SearchName,  \* TOOL_SEARCH_NAME
    Safe,        \* the characters a chat name may have
    MaxTools,    \* bound: tools of one request
    MaxRepeats,  \* bound: tools of one request that repeats a single tool
    MaxNames     \* bound: names that one request offers

Underscore == "_"
Digits == << "0", "1", "2", "3", "4", "5", "6", "7", "8", "9" >>
Name(s) == s \in Seq(STRING)

ASSUME NamesAssumption ==
    /\ MaxLen \in Nat /\ MaxTools \in Nat /\ MaxRepeats \in Nat /\ MaxNames \in Nat
    /\ Name(SearchName) /\ 0 < Len(SearchName) /\ Len(SearchName) <= MaxLen
    /\ Range(SearchName) \subseteq Safe
    /\ Range(Digits) \cup { Underscore } \subseteq Safe /\ Safe \subseteq STRING
    /\ \A t \in Tools : /\ t.type \in { "function", "custom", "tool_search", "namespace" }
                        /\ Name(t.name) /\ t.children \in Seq(Seq(STRING))

VARIABLES
    declared,  \* the tools of the request, in order
    context    \* the ToolContext made of them

vars == << declared, context >>

------------------------------------------------------------------------------
(* Unique names *)

NoNamespace == << >>

Decimal[n \in Nat] ==
    IF n < 10 THEN << Digits[n + 1] >> ELSE Append(Decimal[n \div 10], Digits[(n % 10) + 1])

\* the number of a name leaves room for the name itself: no request has 10^63 tools
ASSUME RoomAssumption == \A n \in 2 .. MaxNames + 1 : Len(Decimal[n]) < MaxLen

Cut(name, n) == SubSeq(name, 1, IF Len(name) < n THEN Len(name) ELSE n)

Base(original) ==
    Cut([ i \in DOMAIN original |-> IF original[i] \in Safe THEN original[i] ELSE Underscore ], MaxLen)

\* mutant: the number is put behind the whole name
NumberedBehind(base, n) == base \o << Underscore >> \o Decimal[n]

Numbered(base, n) ==
    LET tail == << Underscore >> \o Decimal[n]
    IN  Cut(base, IF Len(tail) > MaxLen THEN 0 ELSE MaxLen - Len(tail)) \o tail

\* mutant: the first number is taken unseen
SafeNameOnce(used, original) ==
    IF Base(original) \notin used THEN Base(original) ELSE Numbered(Base(original), 2)

SafeName(used, original) ==
    LET base == Base(original)
        free == { n \in 2 .. Cardinality(used) + 2 : Numbered(base, n) \notin used }
    IN  IF base \notin used THEN base ELSE Numbered(base, Min(free))

------------------------------------------------------------------------------
(* Building the context *)

EmptyContext == [ chatTools |-> << >>, used |-> {}, specs |-> << >>,
                  reverse |-> << >>, byNamespace |-> << >> ]

With(f, x, y) == [ z \in DOMAIN f \cup { x } |-> IF z = x THEN y ELSE f[z] ]

\* add_chat_tool, for a tool that is known to Codex as kind, name and namespace
AddTool(c, original, kind, name, namespace) ==
    IF original = << >> THEN c
    ELSE LET chat == SafeName(c.used, original)
         IN  [ chatTools   |-> Append(c.chatTools, chat),
               used        |-> c.used \cup { chat },
               specs       |-> With(c.specs, chat, [ kind |-> kind, name |-> name, namespace |-> namespace ]),
               reverse     |-> With(c.reverse, chat, original),
               byNamespace |-> IF kind = "namespace"
                               THEN With(c.byNamespace, << namespace, name >>, chat)
                               ELSE c.byNamespace ]

InNamespace(namespace, name) == namespace \o << Underscore, Underscore >> \o name

AddChild(c, namespace, name) ==
    IF name = << >> THEN c
    ELSE AddTool(c, InNamespace(namespace, name), "namespace", name, namespace)

AddNamespace(c, t) ==
    LET upTo[n \in 0 .. Len(t.children)] ==
            IF n = 0 THEN c ELSE AddChild(upTo[n - 1], t.name, t.children[n])
    IN  IF t.name = << >> THEN c ELSE upTo[Len(t.children)]

AddResponseTool(c, t) ==
    CASE t.type = "namespace"   -> AddNamespace(c, t)
      [] t.type = "tool_search" -> AddTool(c, SearchName, "tool_search", SearchName, NoNamespace)
      [] OTHER                  -> AddTool(c, t.name, t.type, t.name, NoNamespace)

Init == declared = << >> /\ context = EmptyContext

\* one more tool, of the request itself or found by a tool search in its input
Declare(t) ==
    /\ \/ Len(declared) < MaxTools
       \/ Len(declared) < MaxRepeats /\ Range(declared) \subseteq { t }
    /\ declared' = Append(declared, t)
    /\ context' = AddResponseTool(context, t)
    /\ Len(context'.chatTools) <= MaxNames

Next == \E t \in Tools : Declare(t)

Spec == Init /\ [][Next]_vars

------------------------------------------------------------------------------
(* There and back *)

\* the item Codex gets for a call that the upstream made
Restored(chat) ==
    IF chat \in DOMAIN context.specs THEN context.specs[chat]
    ELSE [ kind |-> "function", name |-> chat, namespace |-> NoNamespace ]

\* mutant: the namespace of a call is not looked at
ReplayNamesFlat(item) ==
    LET known == { chat \in DOMAIN context.reverse : context.reverse[chat] = item.name }
    IN  IF known = {} THEN { item.name } ELSE known

\* the names the upstream may see when Codex sends that item back: the map is
\* searched in no particular order
ReplayNames(item) ==
    LET key   == << item.namespace, item.name >>
        known == { chat \in DOMAIN context.reverse : context.reverse[chat] = item.name }
    IN  CASE item.kind = "tool_search" -> { SearchName }
          [] item.kind = "namespace"   ->
                 IF key \in DOMAIN context.byNamespace THEN { context.byNamespace[key] }
                 ELSE { Cut(InNamespace(item.namespace, item.name), MaxLen) }
          [] OTHER                     -> IF known = {} THEN { item.name } ELSE known

------------------------------------------------------------------------------
(* Properties *)

\* The context is consistent, and every name is one the upstream accepts: not empty,
\* not too long, of safe characters, and offered once, also when the name that
\* was numbered, or cut, is itself the name of another tool
TypeOK ==
    /\ declared \in Seq(Tools)
    /\ \A i \in DOMAIN context.chatTools :
          LET chat == context.chatTools[i]
          IN  /\ Len(chat) \in 1 .. MaxLen /\ Range(chat) \subseteq Safe
              /\ \A j \in DOMAIN context.chatTools : chat = context.chatTools[j] => i = j
    /\ LET names == Range(context.chatTools)
       IN  /\ context.used = names /\ DOMAIN context.specs = names /\ DOMAIN context.reverse = names
           /\ Range(context.byNamespace) \subseteq names

\* what Codex declared, as it would call it
Item(kind, name, namespace) == [ kind |-> kind, name |-> name, namespace |-> namespace ]

Named(kind, name, namespace) ==
    IF name = << >> THEN << >> ELSE << Item(kind, name, namespace) >>

ItemsOf(t) ==
    CASE t.type = "namespace"   ->
             IF t.name = << >> THEN << >>
             ELSE FlattenSeq([ n \in DOMAIN t.children |-> Named("namespace", t.children[n], t.name) ])
      [] t.type = "tool_search" -> Named("tool_search", SearchName, NoNamespace)
      [] OTHER                  -> Named(t.type, t.name, NoNamespace)

Items == FlattenSeq([ n \in DOMAIN declared |-> ItemsOf(declared[n]) ])

\* every tool is offered, in order, and a call under the name it was offered by is
\* given to Codex as a call of that very tool, however many others were numbered
\* because of it and whatever is declared after it
WayBack == /\ DOMAIN context.chatTools = DOMAIN Items
           /\ \A i \in DOMAIN Items : Restored(context.chatTools[i]) = Items[i]

\* When Codex sends a call back, the upstream sees it under the name it was made
\* by.  Two tools with the same original name (say a function n__f and f in the
\* namespace n) are told apart by their chat names only, and a search tool whose
\* name was taken is replayed as the tool that took it: both are excluded
Ambiguous(chat) ==
    \/ \E other \in DOMAIN context.reverse \ { chat } : context.reverse[other] = context.reverse[chat]
    \/ context.specs[chat].kind = "tool_search" /\ chat # SearchName

ReplayedAsCalled ==
    \A chat \in Range(context.chatTools) :
        ~Ambiguous(chat) => ReplayNames(Restored(chat)) = { chat }
==============================================================================
