---------------------------- MODULE RoutingProofs ----------------------------
(* Proofs of the safety properties of Routing, for any command trees, any        *)
(* events and any number of commands.                                          *)
EXTENDS Routing, CommandFacts

-----------------------------------------------------------------------------
(* Paths.                                                                     *)

LEMMA SecondAppended ==
  ASSUME NEW a, NEW b
  PROVE  Append(<<a>>, b) = <<a, b>>
<1>. DEFINE S == {a, b}
            s == Append(<<a>>, b)
            t == <<a, b>>
<1>1. <<a>> \in Seq(S) /\ t \in Seq(S) /\ Len(t) = 2 /\ t[1] = a /\ t[2] = b
  OBVIOUS
<1>2. s \in Seq(S) /\ Len(s) = 2 /\ s[1] = a /\ s[2] = b
  BY <1>1, AppendProperties
<1>. HIDE DEF s, t, S
<1>3. \A n \in 1..Len(s) : s[n] = t[n]
  BY <1>1, <1>2
<1>4. s = t
  BY <1>1, <1>2, <1>3, SeqEqual
<1>. QED
  BY <1>4 DEF s, t

LEMMA ThirdAppended ==
  ASSUME NEW a, NEW b, NEW c
  PROVE  Append(<<a, b>>, c) = <<a, b, c>>
<1>. DEFINE S == {a, b, c}
            s == Append(<<a, b>>, c)
            t == <<a, b, c>>
<1>1. /\ <<a, b>> \in Seq(S)
      /\ t \in Seq(S) /\ Len(t) = 3 /\ t[1] = a /\ t[2] = b /\ t[3] = c
  OBVIOUS
<1>2. s \in Seq(S) /\ Len(s) = 3 /\ s[1] = a /\ s[2] = b /\ s[3] = c
  BY <1>1, AppendProperties
<1>. HIDE DEF s, t, S
<1>3. \A n \in 1..Len(s) : s[n] = t[n]
  BY <1>1, <1>2
<1>4. s = t
  BY <1>1, <1>2, <1>3, SeqEqual
<1>. QED
  BY <1>4 DEF s, t

ChildrenNamed(nodes, name) == UNION {{g.children[n] : n \in Named(g.children, name)} : g \in nodes}

\* LeavesAt on paths of each length.
LEMMA LeavesAtPaths ==
  ASSUME NEW name \in DOMAIN registry
  PROVE  /\ LeavesAt(<<name>>) = {node \in {registry[name]} : IsLeaf(node)}
         /\ \A a : LeavesAt(<<name, a>>) = {node \in ChildrenNamed({registry[name]}, a) : IsLeaf(node)}
         /\ \A a, b : LeavesAt(<<name, a, b>>)
                       = {node \in ChildrenNamed(ChildrenNamed({registry[name]}, a), b) : IsLeaf(node)}
<1>1. LeavesAt(<<name>>) = {node \in {registry[name]} : IsLeaf(node)}
  BY DEF LeavesAt
<1>2. ASSUME NEW a
      PROVE  LeavesAt(<<name, a>>) = {node \in ChildrenNamed({registry[name]}, a) : IsLeaf(node)}
  <2>. DEFINE path == <<name, a>>
  <2>1. path[1] = name /\ path[2] = a /\ Len(path) = 2
    OBVIOUS
  <2>. HIDE DEF path
  <2>2. LeavesAt(path) = {node \in ChildrenNamed({registry[name]}, a) : IsLeaf(node)}
    BY <2>1 DEF LeavesAt, ChildrenNamed
  <2>. QED  BY <2>2 DEF path
<1>3. ASSUME NEW a, NEW b
      PROVE  LeavesAt(<<name, a, b>>)
               = {node \in ChildrenNamed(ChildrenNamed({registry[name]}, a), b) : IsLeaf(node)}
  <2>. DEFINE path == <<name, a, b>>
  <2>1. path[1] = name /\ path[2] = a /\ path[3] = b /\ Len(path) = 3
    OBVIOUS
  <2>. HIDE DEF path
  <2>2. LeavesAt(path) = {node \in ChildrenNamed(ChildrenNamed({registry[name]}, a), b) : IsLeaf(node)}
    BY <2>1 DEF LeavesAt, ChildrenNamed
  <2>. QED  BY <2>2 DEF path
<1>. QED
  BY <1>1, <1>2, <1>3

-----------------------------------------------------------------------------
(* What resolution finds.                                                     *)

\* A branch found by name, one level down.
LEMMA BranchFound ==
  ASSUME NEW node, IsSequence(node.children), NEW submitted, HasBranch(node, submitted)
  PROVE  /\ Branch(node, submitted) \in Range(node.children)
         /\ Branch(node, submitted).name = submitted[1].name
         /\ Min(Named(node.children, submitted[1].name)) \in Named(node.children, submitted[1].name)
  BY FoundIsNamed, LeastOfList DEF IsSequence, HasBranch, Branch, Named

\* The three shapes of a path that resolves, and what of the submission it spells.
TopLevel(command, options, found) ==
  IsLeaf(command) /\ found = Resolved(command, <<command.name>>, options)

Below1(command, options, found) ==
  \E leaf \in Range(command.children) :
    /\ IsLeaf(leaf) /\ leaf.name = options[1].name
    /\ Len(options) = 1 /\ options[1].kind = "SUB_COMMAND"
    /\ found = Resolved(leaf, <<command.name, leaf.name>>, options[1].options)

Below2(command, options, found) ==
  \E group \in Range(command.children) : \E leaf \in Range(group.children) :
    LET inner == options[1].options IN
    /\ ~IsLeaf(group) /\ group.name = options[1].name
    /\ IsLeaf(leaf) /\ leaf.name = inner[1].name
    /\ Len(options) = 1 /\ options[1].kind = "SUB_COMMAND_GROUP"
    /\ Len(inner) = 1 /\ inner[1].kind = "SUB_COMMAND"
    /\ found = Resolved(leaf, <<command.name, group.name, leaf.name>>, inner[1].options)

LEMMA Resolution ==
  ASSUME NEW command \in Candidates, NEW options,
         NEW found, found = ResolveCommand(command, options), found.error = "none"
  PROVE  IF IsLeaf(command) THEN TopLevel(command, options, found)
         ELSE Below1(command, options, found) \/ Below2(command, options, found)
<1>0. /\ IsSequence(command.children)
      /\ \A node \in Range(command.children) : IsSequence(node.children)
  BY RoutingAssumption DEF Nodes, IsNode
<1>1. CASE IsLeaf(command)
  BY <1>1 DEF ResolveCommand, TopLevel
<1>. SUFFICES ASSUME ~IsLeaf(command)
              PROVE  Below1(command, options, found) \/ Below2(command, options, found)
  BY <1>1
<1>. DEFINE branch == Branch(command, options)
<1>2. HasBranch(command, options) /\ Unknown.error # "none"
  BY DEF ResolveCommand, Unknown
<1>3. /\ branch \in Range(command.children) /\ branch.name = options[1].name
      /\ Len(options) = 1
  BY <1>0, <1>2, BranchFound DEF HasBranch
<1>4. CASE IsLeaf(branch)
  <2>1. found = ResolveSubcommand(command, options, <<command.name>>)
    BY <1>2, <1>4 DEF ResolveCommand
  <2>2. /\ options[1].kind = "SUB_COMMAND"
        /\ found = Resolved(branch, Append(<<command.name>>, branch.name), options[1].options)
    BY <1>2, <2>1 DEF ResolveSubcommand
  <2>3. found = Resolved(branch, <<command.name, branch.name>>, options[1].options)
    BY <2>2, SecondAppended
  <2>. HIDE DEF branch
  <2>. QED  BY <1>3, <1>4, <2>2, <2>3 DEF Below1
<1>5. CASE ~IsLeaf(branch)
  <2>. DEFINE inner == options[1].options
              leaf == Branch(branch, inner)
  <2>1. /\ options[1].kind = "SUB_COMMAND_GROUP"
        /\ found = ResolveSubcommand(branch, inner, <<command.name, branch.name>>)
    BY <1>2, <1>5 DEF ResolveCommand
  <2>2. /\ HasBranch(branch, inner) /\ IsLeaf(leaf) /\ inner[1].kind = "SUB_COMMAND"
        /\ found = Resolved(leaf, Append(<<command.name, branch.name>>, leaf.name),
                            inner[1].options)
    BY <1>2, <2>1 DEF ResolveSubcommand
  <2>3. /\ leaf \in Range(branch.children) /\ leaf.name = inner[1].name
        /\ Len(inner) = 1
    BY <1>0, <1>3, <2>2, BranchFound DEF HasBranch
  <2>4. found = Resolved(leaf, <<command.name, branch.name, leaf.name>>, inner[1].options)
    BY <2>2, ThirdAppended
  <2>. HIDE DEF branch, leaf
  <2>. QED  BY <1>3, <1>5, <2>1, <2>2, <2>3, <2>4 DEF Below2
<1>. QED
  BY <1>4, <1>5

-----------------------------------------------------------------------------
(* The inductive invariant: what the registry holds, and that what was prepared  *)
(* was prepared from it.                                                      *)

Registered ==
  \A name \in DOMAIN registry :
    /\ registry[name] \in Candidates /\ registry[name].name = name
    /\ WellFormed(registry[name])

Prepared ==
  \/ event = [name |-> "NONE"] /\ prepared = Answer("none")
  \/ event \in Events /\ stage = "built" /\ prepared = PrepareDispatch(event)

RoutingInv == Registered /\ Prepared

LEMMA InsertKeeps ==
  ASSUME RoutingInv, NEW command \in Candidates, Insert(command)
  PROVE  RoutingInv'
<1>1. stage = "inserting" /\ UNCHANGED <<event, prepared>>
  BY DEF Insert
<1>2. event = [name |-> "NONE"] /\ prepared = Answer("none")
  BY <1>1 DEF RoutingInv, Prepared
<1>3. Prepared'
  BY <1>1, <1>2 DEF Prepared, Answer
<1>4. CASE UNCHANGED registry
  BY <1>3, <1>4 DEF RoutingInv, Registered
<1>5. CASE /\ ValidateHierarchy(command) = "Ok"
           /\ registry' = [name \in DOMAIN registry \cup {command.name} |->
                            IF name = command.name THEN command ELSE registry[name]]
  <2>1. WellFormed(command)
    BY <1>5, HierarchyValidated, RoutingAssumption
  <2>. QED  BY <1>3, <1>5, <2>1 DEF RoutingInv, Registered
<1>. QED
  BY <1>4, <1>5 DEF Insert

\* The registry holds what validation let in, and stays as it was when it routes.
THEOREM RoutingInvariant == Spec => []RoutingInv
<1>1. Init => RoutingInv
  <2>1. DOMAIN (<<>>) = {}
    OBVIOUS
  <2>. QED  BY <2>1 DEF Init, RoutingInv, Registered, Prepared
<1>2. RoutingInv /\ [Next]_vars => RoutingInv'
  <2>. SUFFICES ASSUME RoutingInv, [Next]_vars PROVE RoutingInv'
    OBVIOUS
  <2>1. ASSUME NEW command \in Candidates, Insert(command) PROVE RoutingInv'
    BY <2>1, InsertKeeps
  <2>2. CASE CheckLimit \/ Finish
    <3>1. stage # "built" /\ UNCHANGED <<registry, event, prepared>>
      BY <2>2 DEF CheckLimit, Finish
    <3>. QED  BY <3>1 DEF RoutingInv, Registered, Prepared
  <2>3. ASSUME NEW e \in Events, Receive(e) PROVE RoutingInv'
    <3>1. /\ stage' = "built" /\ UNCHANGED registry
          /\ event' = e /\ prepared' = PrepareDispatch(e)
      BY <2>3 DEF Receive
    <3>2. PrepareDispatch(e)' = PrepareDispatch(e)
      BY <3>1 DEF PrepareDispatch
    <3>. QED  BY <3>1, <3>2 DEF RoutingInv, Registered, Prepared
  <2>4. CASE UNCHANGED vars
    BY <2>4 DEF vars, RoutingInv, Registered, Prepared, PrepareDispatch
  <2>. QED  BY <2>1, <2>2, <2>3, <2>4 DEF Next, Quiet
<1>. QED
  BY <1>1, <1>2, PTL DEF Spec

\* What a prepared handler was prepared from.
LEMMA PreparedFrom ==
  ASSUME RoutingInv, prepared.outcome \in {"Command", "Autocomplete"}
  PROVE  LET command == registry[event.command]
             found   == ResolveCommand(command, event.options)
         IN  /\ event \in Events /\ event.command \in DOMAIN registry
             /\ event.name = "INTERACTION_CREATE" /\ event.data = "CHAT_INPUT"
             /\ command \in Candidates /\ command.name = event.command /\ WellFormed(command)
             /\ found.error = "none"
             /\ prepared.path = found.path /\ prepared.leaf = found.leaf
             /\ IF prepared.outcome = "Command"
                THEN event.type = "COMMAND" /\ prepared = PrepareCommand(found)
                ELSE event.type = "AUTOCOMPLETE" /\ prepared = PrepareAutocomplete(found)
<1>. DEFINE command == registry[event.command]
            found   == ResolveCommand(command, event.options)
<1>1. event \in Events /\ prepared = PrepareDispatch(event)
  BY DEF RoutingInv, Prepared, Answer
<1>2. ASSUME NEW outcome, prepared = Answer(outcome) PROVE outcome \in {"Command", "Autocomplete"}
  BY <1>2 DEF Answer
<1>3. /\ event.command \in DOMAIN registry
      /\ event.name = "INTERACTION_CREATE" /\ event.type \in {"COMMAND", "AUTOCOMPLETE"}
      /\ event.data = "CHAT_INPUT"
  BY <1>1, <1>2 DEF PrepareDispatch
<1>4. prepared = IF found.error # "none" THEN Answer(found.error)
                 ELSE IF event.type = "COMMAND" THEN PrepareCommand(found)
                 ELSE PrepareAutocomplete(found)
  BY <1>1, <1>3 DEF PrepareDispatch
<1>5. command \in Candidates /\ command.name = event.command /\ WellFormed(command)
  BY <1>3 DEF RoutingInv, Registered
<1>6. found.error = "none"
  <2>. SUFFICES ASSUME found.error # "none" PROVE FALSE
    OBVIOUS
  <2>1. found = Unknown \/ \E leaf, path, options : found = Resolved(leaf, path, options)
    BY DEF ResolveCommand, ResolveSubcommand
  <2>. HIDE DEF found
  <2>2. found.error = "UnknownCommandPath"
    BY <2>1 DEF Unknown, Resolved
  <2>. QED  BY <1>2, <1>4, <2>2
<1>. HIDE DEF found, command
<1>7. CASE event.type = "COMMAND"
  BY <1>1, <1>3, <1>4, <1>5, <1>6, <1>7 DEF PrepareCommand, found, command
<1>8. CASE event.type # "COMMAND"
  <2>1. event.type = "AUTOCOMPLETE" /\ prepared = PrepareAutocomplete(found)
    BY <1>3, <1>4, <1>6, <1>8
  <2>2. /\ prepared.outcome = "Autocomplete"
        /\ prepared.path = found.path /\ prepared.leaf = found.leaf
    BY <2>1, <1>2 DEF PrepareAutocomplete
  <2>. QED  BY <1>1, <1>3, <1>5, <1>6, <2>1, <2>2 DEF found, command
<1>. QED
  BY <1>7, <1>8

-----------------------------------------------------------------------------
(* Stale and malformed invocations.                                           *)

\* No event runs a leaf but the one its own path spells.
THEOREM NeverAnother == Spec => []NeverAnotherHandler
<1>1. RoutingInv => NeverAnotherHandler
  <2>. SUFFICES ASSUME RoutingInv, prepared.outcome \in {"Command", "Autocomplete"}
                PROVE  NeverAnotherHandler
    BY DEF NeverAnotherHandler
  <2>. DEFINE command == registry[event.command]
              options == event.options
              found   == ResolveCommand(command, options)
  <2>1. /\ event.command \in DOMAIN registry
        /\ command \in Candidates /\ command.name = event.command
        /\ found.error = "none"
        /\ prepared.path = found.path /\ prepared.leaf = found.leaf
    BY PreparedFrom
  <2>2. IF IsLeaf(command) THEN TopLevel(command, options, found)
        ELSE Below1(command, options, found) \/ Below2(command, options, found)
    BY <2>1, Resolution
  <2>. HIDE DEF found
  <2>3. CASE TopLevel(command, options, found)
    <3>1. prepared.path = <<event.command>> /\ prepared.leaf = command /\ IsLeaf(command)
      BY <2>1, <2>3 DEF TopLevel, Resolved
    <3>2. prepared.leaf \in LeavesAt(<<event.command>>)
      BY <2>1, <3>1, LeavesAtPaths
    <3>. QED  BY <3>1, <3>2 DEF NeverAnotherHandler
  <2>4. CASE Below1(command, options, found)
    <3>1. PICK leaf \in Range(command.children) :
            /\ IsLeaf(leaf) /\ leaf.name = options[1].name
            /\ Len(options) = 1 /\ options[1].kind = "SUB_COMMAND"
            /\ found = Resolved(leaf, <<command.name, leaf.name>>, options[1].options)
      BY <2>4 DEF Below1
    <3>2. prepared.path = <<event.command, leaf.name>> /\ prepared.leaf = leaf
      BY <2>1, <3>1 DEF Resolved
    <3>3. leaf \in ChildrenNamed({command}, leaf.name)
      BY DEF ChildrenNamed, Named, Range
    <3>4. leaf \in LeavesAt(<<event.command, leaf.name>>)
      BY <2>1, <3>1, <3>3, LeavesAtPaths
    <3>. DEFINE path == <<event.command, leaf.name>>
    <3>5. path[1] = event.command /\ path[2] = leaf.name /\ Len(path) = 2
      OBVIOUS
    <3>. HIDE DEF path
    <3>6. prepared.path = path /\ prepared.leaf \in LeavesAt(path)
      BY <3>2, <3>4 DEF path
    <3>. QED  BY <3>1, <3>5, <3>6 DEF NeverAnotherHandler
  <2>5. CASE Below2(command, options, found)
    <3>. DEFINE inner == options[1].options
    <3>0. PICK group \in Range(command.children) : \E leaf \in Range(group.children) :
            /\ ~IsLeaf(group) /\ group.name = options[1].name
            /\ IsLeaf(leaf) /\ leaf.name = inner[1].name
            /\ Len(options) = 1 /\ options[1].kind = "SUB_COMMAND_GROUP"
            /\ Len(inner) = 1 /\ inner[1].kind = "SUB_COMMAND"
            /\ found = Resolved(leaf, <<command.name, group.name, leaf.name>>, inner[1].options)
      BY <2>5 DEF Below2
    <3>1. PICK leaf \in Range(group.children) :
            /\ ~IsLeaf(group) /\ group.name = options[1].name
            /\ IsLeaf(leaf) /\ leaf.name = inner[1].name
            /\ Len(options) = 1 /\ options[1].kind = "SUB_COMMAND_GROUP"
            /\ Len(inner) = 1 /\ inner[1].kind = "SUB_COMMAND"
            /\ found = Resolved(leaf, <<command.name, group.name, leaf.name>>, inner[1].options)
      BY <3>0
    <3>. DEFINE path == <<event.command, group.name, leaf.name>>
    <3>2. prepared.path = path /\ prepared.leaf = leaf
      BY <2>1, <3>1 DEF Resolved
    <3>3. leaf \in ChildrenNamed(ChildrenNamed({command}, group.name), leaf.name)
      <4>1. group \in ChildrenNamed({command}, group.name)
        BY DEF ChildrenNamed, Named, Range
      <4>. QED  BY <4>1 DEF ChildrenNamed, Named, Range
    <3>4. leaf \in LeavesAt(path)
      <4>0. \A a, b : LeavesAt(<<event.command, a, b>>)
                        = {node \in ChildrenNamed(ChildrenNamed({command}, a), b) : IsLeaf(node)}
        BY <2>1, LeavesAtPaths
      <4>1. LeavesAt(path)
              = {node \in ChildrenNamed(ChildrenNamed({command}, group.name), leaf.name) : IsLeaf(node)}
        BY ONLY <4>0 DEF path
      <4>. HIDE DEF path
      <4>. QED  BY <3>1, <3>3, <4>1
    <3>5. /\ path[1] = event.command /\ path[2] = group.name /\ path[3] = leaf.name
          /\ Len(path) = 3
      OBVIOUS
    <3>. HIDE DEF path
    <3>. QED  BY <3>1, <3>2, <3>4, <3>5 DEF NeverAnotherHandler
  <2>. QED  BY <2>2, <2>3, <2>4, <2>5
<1>. QED
  BY <1>1, RoutingInvariant, PTL

-----------------------------------------------------------------------------
(* Completions.                                                               *)

LEMMA OptionLists ==
  ASSUME NEW command \in Candidates, NEW e \in Events,
         NEW found, found = ResolveCommand(command, e.options), found.error = "none"
  PROVE  IsSequence(found.options) /\ found.options = ScopeAt(e, Len(found.path))
<1>. DEFINE options == e.options
<1>1. HasOptionLists(e)
  BY RoutingAssumption
<1>2. IF IsLeaf(command) THEN TopLevel(command, options, found)
      ELSE Below1(command, options, found) \/ Below2(command, options, found)
  BY Resolution
<1>3. CASE TopLevel(command, options, found)
  BY <1>1, <1>3 DEF TopLevel, Resolved, HasOptionLists, ScopeAt
<1>4. Len(options) = 1 => options[1] \in Range(options)
  BY <1>1 DEF HasOptionLists, IsSequence, Range
<1>5. CASE Below1(command, options, found)
  BY <1>1, <1>4, <1>5 DEF Below1, Resolved, HasOptionLists, ScopeAt
<1>6. CASE Below2(command, options, found)
  <2>. DEFINE inner == options[1].options
  <2>1. /\ Len(options) = 1 /\ Len(inner) = 1
        /\ found.options = inner[1].options /\ Len(found.path) = 3
    BY <1>6 DEF Below2, Resolved
  <2>2. inner[1] \in Range(inner)
    BY <1>1, <1>4, <2>1 DEF HasOptionLists, IsSequence, Range
  <2>. QED  BY <1>1, <1>4, <2>1, <2>2 DEF HasOptionLists, ScopeAt
<1>. QED
  BY <1>2, <1>3, <1>5, <1>6

\* The node found has been validated.
LEMMA FoundIsWellFormed ==
  ASSUME NEW command \in Candidates, WellFormed(command), NEW options,
         NEW found, found = ResolveCommand(command, options), found.error = "none"
  PROVE  WellFormedLeaf(found.leaf) /\ IsNode(found.leaf)
<1>1. IF IsLeaf(command) THEN TopLevel(command, options, found)
      ELSE Below1(command, options, found) \/ Below2(command, options, found)
  BY Resolution
<1>2. /\ IsNode(command)
      /\ \A node \in Range(command.children) :
           IsNode(node) /\ \A leaf \in Range(node.children) : IsNode(leaf)
  BY RoutingAssumption DEF Nodes
<1>3. CASE TopLevel(command, options, found)
  BY <1>2, <1>3 DEF TopLevel, Resolved, WellFormed, IsLeaf, IsGroup
<1>4. CASE Below1(command, options, found) /\ ~IsLeaf(command)
  BY <1>2, <1>4 DEF Below1, Resolved, WellFormed, WellFormedGroup, WellFormedLeaf, IsLeaf, IsGroup
<1>5. CASE Below2(command, options, found) /\ ~IsLeaf(command)
  <2>1. PICK group \in Range(command.children) : ~IsLeaf(group) /\ found.leaf \in Range(group.children)
    BY <1>5 DEF Below2, Resolved
  <2>2. WellFormedGroup(group)
    BY <1>5, <2>1 DEF WellFormed, WellFormedLeaf
  <2>. QED  BY <1>2, <2>1, <2>2 DEF WellFormedGroup
<1>. QED
  BY <1>1, <1>3, <1>4, <1>5

\* A completion handler is started for the one option in focus, by its name and kind,
\* and is the only one its leaf attached to it.
THEOREM CompletionsMatch == Spec => []CompletionsRegistered
<1>1. RoutingInv => CompletionsRegistered
  <2>. SUFFICES ASSUME RoutingInv, prepared.outcome = "Autocomplete"
                PROVE  CompletionsRegistered
    BY DEF CompletionsRegistered
  <2>. DEFINE command  == registry[event.command]
              found    == ResolveCommand(command, event.options)
              leaf     == found.leaf
              context  == AutocompleteContext(found)
              focused  == FocusedOption(context)
              known    == Completable(leaf, focused)
              handlers == AutocompleteHandlers(leaf, focused.name)
  <2>1. /\ event \in Events /\ command \in Candidates /\ command.name = event.command
        /\ WellFormed(command) /\ found.error = "none"
        /\ prepared.path = found.path /\ prepared.leaf = leaf
        /\ prepared = PrepareAutocomplete(found)
    BY PreparedFrom
  <2>2. /\ IsSequence(found.options) /\ found.options = ScopeAt(event, Len(found.path))
        /\ WellFormedLeaf(leaf) /\ IsNode(leaf)
    <3>. HIDE DEF command, found
    <3>1. found = ResolveCommand(command, event.options)
      BY DEF found
    <3>. QED  BY <2>1, <3>1, OptionLists, FoundIsWellFormed
  <2>3. found.path[1] = event.command
    <3>1. \/ found.path = <<command.name>>
          \/ \E a : found.path = <<command.name, a>>
          \/ \E a, b : found.path = <<command.name, a, b>>
      BY <2>1, Resolution DEF TopLevel, Below1, Below2, Resolved
    <3>. QED  BY <2>1, <3>1
  <2>. HIDE DEF found
  <2>4. /\ Cardinality(Focused(found.options)) = 1 /\ known # {} /\ handlers # {}
        /\ prepared.option = leaf.options[Min(known)]
        /\ prepared.handler = leaf.handlers[Min(handlers)].handler
        /\ prepared.context = context
    BY <2>1 DEF PrepareAutocomplete, Answer
  <2>5. /\ context.options = found.options /\ context.path = found.path
        /\ Focused(found.options) = {context.focusedIndex}
        /\ context.focusedIndex \in DOMAIN found.options
    <3>1. IsFiniteSet(Focused(found.options))
      <4>1. DOMAIN found.options = 1..Len(found.options) /\ Len(found.options) \in Nat
        BY <2>2 DEF IsSequence
      <4>2. IsFiniteSet(1..Len(found.options))
        BY <4>1, FS_Interval
      <4>. QED  BY <4>1, <4>2, FS_Subset DEF Focused
    <3>2. PICK n : Focused(found.options) = {n}
      BY <2>4, <3>1, FS_Singleton
    <3>3. Min(Focused(found.options)) \in Focused(found.options)
      BY <2>2, <3>2, LeastOfList DEF IsSequence, Focused
    <3>. QED  BY <3>2, <3>3 DEF AutocompleteContext, Focused
  <2>. HIDE DEF leaf, context
  <2>6. Min(known) \in known /\ Min(handlers) \in handlers
    BY <2>2, <2>4, LeastOfList DEF IsSequence, IsNode, Completable, AutocompleteHandlers
  <2>7. /\ prepared.option.autocomplete
        /\ focused.name = prepared.option.name /\ focused.kind = prepared.option.kind
    BY <2>4, <2>6 DEF Completable
  <2>8. {entry \in Range(leaf.handlers) : entry.option = focused.name}
          = {[option |-> focused.name, handler |-> prepared.handler]}
    <3>. DEFINE m == Min(handlers)
    <3>1. m \in DOMAIN leaf.handlers /\ leaf.handlers[m].option = focused.name
      BY <2>6 DEF AutocompleteHandlers
    <3>2. leaf.handlers[m] = [option |-> focused.name, handler |-> prepared.handler]
      BY <2>2, <2>4, <3>1 DEF IsNode, Range
    <3>3. \A n \in DOMAIN leaf.handlers : leaf.handlers[n].option = focused.name => n = m
      BY <2>2, <3>1 DEF WellFormedLeaf, HandlersFit, HandledOptions, IsInjective
    <3>. HIDE DEF m
    <3>. QED  BY <3>1, <3>2, <3>3 DEF Range
  <2>9. \A n \in DOMAIN context.options : context.options[n].focused <=> n = context.focusedIndex
    BY <2>5 DEF Focused
  <2>. HIDE DEF focused
  <2>. QED
    BY <2>1, <2>2, <2>3, <2>4, <2>5, <2>7, <2>8, <2>9
    DEF CompletionsRegistered, focused, CommandName
<1>. QED
  BY <1>1, RoutingInvariant, PTL

-----------------------------------------------------------------------------
(* Registration.                                                              *)

\* Whatever the registry holds, Discord takes its payload just when every node keeps to
\* the sizes, option names, option order and choices no validation checks.
THEOREM PayloadsAccepted == Spec => []RegistrationAccepted
<1>1. RoutingInv => RegistrationAccepted
  BY RoutingAssumption, TreeAccepted DEF RoutingInv, Registered, RegistrationAccepted
<1>. QED
  BY <1>1, RoutingInvariant, PTL

-----------------------------------------------------------------------------
(* Routing of what Discord sends for a registered payload.                    *)

LEMMA OnlyNamed ==
  ASSUME NEW node, IsSequence(node.children), Apart(node.children),
         NEW m \in DOMAIN node.children
  PROVE  /\ Named(node.children, node.children[m].name) = {m}
         /\ Min(Named(node.children, node.children[m].name)) = m
         /\ Find(node.children, node.children[m].name) = node.children[m]
         /\ ChildrenNamed({node}, node.children[m].name) = {node.children[m]}
<1>. DEFINE named == Named(node.children, node.children[m].name)
<1>1. named = {m}
  BY DEF Named, Apart
<1>2. Min(named) = m
  <2>1. named \subseteq DOMAIN node.children /\ named # {}
    BY <1>1
  <2>. HIDE DEF named
  <2>2. Min(named) \in named
    BY <2>1, LeastOfList DEF IsSequence
  <2>. QED  BY <1>1, <2>2
<1>. QED
  BY <1>1, <1>2 DEF Find, ChildrenNamed

\* A leaf whose options Discord filled in is prepared, and completed if it should be.
LEMMA FilledIsPrepared ==
  ASSUME NEW leaf, IsNode(leaf), WellFormedLeaf(leaf), NEW e, e.type = "AUTOCOMPLETE",
         NEW submitted, IsSequence(submitted), Fills(e, ScalarOptions(leaf), submitted),
         NEW path, NEW found, found = Resolved(leaf, path, submitted)
  PROVE  PrepareAutocomplete(found).outcome = "Autocomplete"
<1>1. found.leaf = leaf /\ found.options = submitted
  BY DEF Resolved
<1>2. Cardinality(Focused(submitted)) = 1
  BY DEF Fills
<1>3. Focused(submitted) # {}
  BY <1>2, FS_EmptySet
<1>. DEFINE context == AutocompleteContext(found)
            focused == FocusedOption(context)
<1>4. PICK i \in DOMAIN submitted : submitted[i].focused /\ focused = submitted[i]
  <2>1. Min(Focused(submitted)) \in Focused(submitted)
    BY <1>3, LeastOfList DEF IsSequence, Focused
  <2>. QED  BY <1>1, <2>1 DEF AutocompleteContext, FocusedOption, Focused
<1>. HIDE DEF focused, context
<1>5. PICK m \in DOMAIN leaf.options :
        /\ leaf.options[m].name = focused.name /\ leaf.options[m].kind = focused.kind
        /\ leaf.options[m].autocomplete
  <2>1. PICK m \in DOMAIN ScalarOptions(leaf) :
          /\ ScalarOptions(leaf)[m].name = submitted[i].name
          /\ ScalarOptions(leaf)[m].kind = submitted[i].kind
          /\ submitted[i].focused => ScalarOptions(leaf)[m].autocomplete
    BY <1>4 DEF Fills
  <2>. QED  BY <1>4, <2>1 DEF ScalarOptions, CreateScalarOption
<1>6. Completable(leaf, focused) # {}
  BY <1>5 DEF Completable
<1>7. AutocompleteHandlers(leaf, focused.name) # {}
  <2>. DEFINE names == HandledOptions(leaf)
  <2>1. Contains(names, focused.name)
    BY <1>5 DEF WellFormedLeaf, AutocompleteOptionsFit
  <2>2. Len(names) = Len(leaf.handlers) /\ DOMAIN leaf.handlers = 1..Len(leaf.handlers)
    <3>1. names = [n \in DOMAIN leaf.handlers |-> names[n]] /\ IsSequence(leaf.handlers)
      BY DEF HandledOptions, IsNode
    <3>. HIDE DEF names
    <3>. QED  BY <3>1, MappedList
  <2>. QED  BY <2>1, <2>2 DEF Contains, HandledOptions, AutocompleteHandlers
<1>. QED
  BY <1>1, <1>2, <1>6, <1>7 DEF PrepareAutocomplete, focused, context

\* A path that Discord spells for a payload resolves to the leaf behind it.
Reaches(e, command, path) ==
  \E leaf, submitted :
    /\ ResolveCommand(command, e.options) = Resolved(leaf, path, submitted)
    /\ IsNode(leaf) /\ WellFormedLeaf(leaf)
    /\ IsSequence(submitted) /\ Fills(e, ScalarOptions(leaf), submitted)
    /\ \/ path = <<command.name>> /\ leaf = command
       \/ \E a : path = <<command.name, a>> /\ ChildrenNamed({command}, a) = {leaf}
       \/ \E a, b : /\ path = <<command.name, a, b>>
                   /\ ChildrenNamed(ChildrenNamed({command}, a), b) = {leaf}

\* The branch submitted is the m-th child, to Discord and to the registry.
Branches(node, options, submitted, m) ==
  /\ m \in DOMAIN node.children /\ Len(submitted) = 1
  /\ submitted[1].name = node.children[m].name /\ submitted[1].kind = options[m].kind
  /\ HasBranch(node, submitted) /\ Branch(node, submitted) = node.children[m]
  /\ Below(options, submitted) = options[m].options
  /\ ChildrenNamed({node}, submitted[1].name) = {node.children[m]}

LEMMA MatchingFound ==
  ASSUME NEW node, IsSequence(node.children), Apart(node.children),
         NEW options, DOMAIN options = DOMAIN node.children,
         \A n \in DOMAIN options : options[n].name = node.children[n].name,
         NEW submitted, Matching(options, submitted) # {}
  PROVE  \E m : Branches(node, options, submitted, m)
<1>1. PICK m \in Matching(options, submitted) : TRUE
  OBVIOUS
<1>2. /\ m \in DOMAIN node.children /\ Len(submitted) = 1
      /\ submitted[1].name = node.children[m].name /\ submitted[1].kind = options[m].kind
  BY <1>1 DEF Matching
<1>3. /\ Named(node.children, submitted[1].name) = {m}
      /\ Min(Named(node.children, submitted[1].name)) = m
      /\ Find(node.children, submitted[1].name) = node.children[m]
      /\ ChildrenNamed({node}, submitted[1].name) = {node.children[m]}
  <2>. DEFINE name == node.children[m].name
  <2>1. /\ Named(node.children, name) = {m}
        /\ Min(Named(node.children, name)) = m
        /\ Find(node.children, name) = node.children[m]
        /\ ChildrenNamed({node}, name) = {node.children[m]}
    BY <1>2, OnlyNamed
  <2>2. submitted[1].name = name
    BY <1>2
  <2>. HIDE DEF name
  <2>. QED  BY <2>1, <2>2
<1>4. Matching(options, submitted) = {m}
  BY <1>1, <1>2, <1>3 DEF Matching, Named
<1>5. Min(Matching(options, submitted)) = m
  BY <1>3, <1>4
<1>. QED
  BY <1>2, <1>3, <1>5 DEF Branches, HasBranch, Branch, Below

LEMMA LeafReached ==
  ASSUME NEW e \in Events, NEW command \in Candidates, WellFormedLeaf(command),
         NEW path, path = InvokedPath(e, CreateCommand(command)), path # <<>>
  PROVE  Reaches(e, command, path)
<1>1. IsNode(command) /\ IsSequence(e.options)
  BY RoutingAssumption DEF Nodes, HasOptionLists
<1>2. IsLeaf(command) /\ CreateCommand(command).name = command.name
      /\ CreateCommand(command).options = ScalarOptions(command)
  BY DEF CreateCommand, WellFormedLeaf
<1>3. Kinds(ScalarOptions(command)) \cap Hierarchical = {}
  BY <1>1, ScalarKinds
<1>4. Fills(e, ScalarOptions(command), e.options) /\ path = <<command.name>>
  BY <1>2, <1>3 DEF InvokedPath
<1>5. ResolveCommand(command, e.options) = Resolved(command, path, e.options)
  BY <1>2, <1>4 DEF ResolveCommand
<1>. QED
  BY <1>1, <1>4, <1>5 DEF Reaches

LEMMA GroupReached ==
  ASSUME NEW e \in Events, NEW command \in Candidates,
         WellFormed(command), ~WellFormedLeaf(command),
         NEW path, path = InvokedPath(e, CreateCommand(command)), path # <<>>
  PROVE  Reaches(e, command, path)
<1>. DEFINE children == command.children
            top == [n \in DOMAIN children |-> CreateChildOption(children[n])]
            sub == e.options
            inner == sub[1].options
<1>1. /\ IsNode(command) /\ HasOptionLists(e)
      /\ \A node \in Range(children) :
           IsNode(node) /\ \A leaf \in Range(node.children) : IsNode(leaf)
  BY RoutingAssumption DEF Nodes
<1>2. /\ IsGroup(command) /\ ~IsLeaf(command) /\ Apart(children) /\ IsSequence(children)
      /\ \A node \in Range(children) : WellFormedLeaf(node) \/ WellFormedGroup(node)
  BY <1>1 DEF WellFormed, IsGroup, IsLeaf, IsNode
<1>3. CreateCommand(command).options = top /\ CreateCommand(command).name = command.name
  BY <1>2 DEF CreateCommand
<1>4. \A n \in DOMAIN children :
        /\ top[n].name = children[n].name
        /\ top[n].kind = IF IsLeaf(children[n]) THEN "SUB_COMMAND" ELSE "SUB_COMMAND_GROUP"
        /\ top[n].options = IF IsLeaf(children[n]) THEN ScalarOptions(children[n])
                           ELSE [k \in DOMAIN children[n].children |->
                                   CreateSubcommand(children[n].children[k])]
  BY DEF CreateChildOption, CreateSubcommand, CreateHierarchyOption
<1>5. Kinds(top) \cap Hierarchical # {}
  <2>1. 1 \in DOMAIN children
    BY <1>2, EmptySeq DEF Apart, IsSequence
  <2>. HIDE DEF top
  <2>2. DOMAIN top = DOMAIN children
    BY DEF top
  <2>3. top[1].kind \in Hierarchical
    BY <1>4, <2>1 DEF Hierarchical
  <2>. QED  BY <2>1, <2>2, <2>3 DEF Kinds
<1>6. DOMAIN top = DOMAIN children
  OBVIOUS
<1>. HIDE DEF top
<1>7. Matching(top, sub) # {}
  BY <1>3, <1>5 DEF InvokedPath
<1>8a. PICK m : Branches(command, top, sub, m)
  <2>1. /\ IsSequence(command.children) /\ Apart(command.children)
        /\ DOMAIN top = DOMAIN command.children
        /\ \A n \in DOMAIN top : top[n].name = command.children[n].name
    BY <1>2, <1>4, <1>6
  <2>. HIDE DEF sub
  <2>. QED  BY <1>7, <2>1, MatchingFound
<1>8. /\ m \in DOMAIN children /\ Len(sub) = 1
      /\ sub[1].name = children[m].name /\ sub[1].kind = top[m].kind
      /\ HasBranch(command, sub) /\ Branch(command, sub) = children[m]
      /\ Below(top, sub) = top[m].options
      /\ ChildrenNamed({command}, sub[1].name) = {children[m]}
  BY <1>8a DEF Branches
<1>9. children[m] \in Range(children) /\ sub[1] \in Range(sub)
  BY <1>1, <1>8 DEF Range, HasOptionLists, IsSequence
<1>10. IsSequence(inner) /\ IsNode(children[m])
  BY <1>1, <1>9 DEF HasOptionLists
<1>11. CASE IsLeaf(children[m])
  <2>1. sub[1].kind = "SUB_COMMAND" /\ Below(top, sub) = ScalarOptions(children[m])
    BY <1>4, <1>8, <1>11
  <2>2. path = <<command.name, sub[1].name>> /\ Fills(e, ScalarOptions(children[m]), inner)
    BY <1>3, <1>5, <1>7, <2>1 DEF InvokedPath
  <2>3. ResolveCommand(command, sub) = ResolveSubcommand(command, sub, <<command.name>>)
    BY <1>2, <1>8, <1>11 DEF ResolveCommand
  <2>4. ResolveSubcommand(command, sub, <<command.name>>)
          = Resolved(children[m], Append(<<command.name>>, children[m].name), inner)
    BY <1>8, <1>11, <2>1 DEF ResolveSubcommand
  <2>5. Append(<<command.name>>, children[m].name) = path
    BY <1>8, <2>2, SecondAppended
  <2>6. WellFormedLeaf(children[m])
    BY <1>2, <1>9, <1>11 DEF WellFormedGroup, IsGroup, IsLeaf
  <2>. QED  BY <1>8, <1>10, <2>2, <2>3, <2>4, <2>5, <2>6 DEF Reaches
<1>12. CASE ~IsLeaf(children[m])
  <2>. DEFINE group == children[m]
              below == [k \in DOMAIN group.children |-> CreateSubcommand(group.children[k])]
  <2>1. WellFormedGroup(group)
    BY <1>2, <1>9, <1>12 DEF WellFormedLeaf
  <2>2. /\ IsSequence(group.children) /\ Apart(group.children)
        /\ \A leaf \in Range(group.children) : WellFormedLeaf(leaf) /\ IsNode(leaf)
    BY <1>1, <1>9, <1>10, <2>1 DEF WellFormedGroup, IsNode
  <2>3. sub[1].kind = "SUB_COMMAND_GROUP" /\ Below(top, sub) = below
    BY <1>4, <1>8, <1>12
  <2>4. /\ DOMAIN below = DOMAIN group.children
        /\ \A k \in DOMAIN below :
             /\ below[k].name = group.children[k].name /\ below[k].kind = "SUB_COMMAND"
             /\ below[k].options = ScalarOptions(group.children[k])
    BY DEF CreateSubcommand, CreateHierarchyOption
  <2>. HIDE DEF below, group
  <2>5. /\ Matching(below, inner) # {}
        /\ Fills(e, Below(below, inner), inner[1].options)
        /\ path = <<command.name, sub[1].name, inner[1].name>>
    BY <1>3, <1>5, <1>7, <2>3 DEF InvokedPath
  <2>5a. PICK k : Branches(group, below, inner, k)
    <3>. HIDE DEF inner
    <3>. QED  BY <2>2, <2>4, <2>5, MatchingFound
  <2>6. /\ k \in DOMAIN group.children /\ Len(inner) = 1
        /\ inner[1].name = group.children[k].name /\ inner[1].kind = below[k].kind
        /\ HasBranch(group, inner) /\ Branch(group, inner) = group.children[k]
        /\ Below(below, inner) = below[k].options
        /\ ChildrenNamed({group}, inner[1].name) = {group.children[k]}
    BY <2>5a DEF Branches
  <2>. DEFINE leaf == group.children[k]
  <2>7. leaf \in Range(group.children) /\ inner[1] \in Range(inner)
    BY <1>10, <2>6 DEF Range, IsSequence
  <2>8. /\ WellFormedLeaf(leaf) /\ IsLeaf(leaf) /\ IsNode(leaf)
        /\ IsSequence(inner[1].options) /\ Fills(e, ScalarOptions(leaf), inner[1].options)
    BY <1>1, <1>9, <2>2, <2>4, <2>5, <2>6, <2>7 DEF WellFormedLeaf, HasOptionLists
  <2>9. ResolveCommand(command, sub)
          = ResolveSubcommand(group, inner, <<command.name, group.name>>)
    BY <1>2, <1>8, <1>12, <2>3 DEF ResolveCommand, group
  <2>10. ResolveSubcommand(group, inner, <<command.name, group.name>>)
           = Resolved(leaf, Append(<<command.name, group.name>>, leaf.name), inner[1].options)
    BY <2>4, <2>6, <2>8 DEF ResolveSubcommand
  <2>11. Append(<<command.name, group.name>>, leaf.name) = path
    BY <1>8, <2>5, <2>6, ThirdAppended DEF group
  <2>12. ChildrenNamed(ChildrenNamed({command}, sub[1].name), inner[1].name) = {leaf}
    BY <1>8, <2>6 DEF group
  <2>. HIDE DEF leaf
  <2>. QED  BY <2>5, <2>8, <2>9, <2>10, <2>11, <2>12 DEF Reaches
<1>. QED
  BY <1>11, <1>12

\* create_command and resolve_command agree on every tree the registry holds.
THEOREM InvocationsRouted == Spec => []RegisteredInvocationsRouted
<1>1. RoutingInv => RegisteredInvocationsRouted
  <2>. SUFFICES ASSUME RoutingInv, event.name = "INTERACTION_CREATE",
                       event.command \in DOMAIN registry, event.data = "CHAT_INPUT",
                       event.type \in {"COMMAND", "AUTOCOMPLETE"},
                       InvokedPath(event, CreateCommand(registry[event.command])) # <<>>
                PROVE  LET path == InvokedPath(event, CreateCommand(registry[event.command]))
                       IN  /\ prepared.outcome = IF event.type = "COMMAND" THEN "Command"
                                                 ELSE "Autocomplete"
                           /\ prepared.path = path
                           /\ LeavesAt(path) = {prepared.leaf}
    BY DEF RegisteredInvocationsRouted
  <2>. DEFINE command == registry[event.command]
              path    == InvokedPath(event, CreateCommand(command))
              found   == ResolveCommand(command, event.options)
  <2>1. event \in Events /\ prepared = PrepareDispatch(event)
    BY DEF RoutingInv, Prepared
  <2>2. command \in Candidates /\ command.name = event.command /\ WellFormed(command)
    BY DEF RoutingInv, Registered
  <2>. HIDE DEF path
  <2>3. Reaches(event, command, path)
    BY <2>1, <2>2, LeafReached, GroupReached DEF path
  <2>. HIDE DEF found
  <2>4. PICK leaf, submitted :
          /\ found = Resolved(leaf, path, submitted)
          /\ IsNode(leaf) /\ WellFormedLeaf(leaf)
          /\ IsSequence(submitted) /\ Fills(event, ScalarOptions(leaf), submitted)
          /\ \/ path = <<command.name>> /\ leaf = command
             \/ \E a : path = <<command.name, a>> /\ ChildrenNamed({command}, a) = {leaf}
             \/ \E a, b : /\ path = <<command.name, a, b>>
                         /\ ChildrenNamed(ChildrenNamed({command}, a), b) = {leaf}
    BY <2>3 DEF Reaches, found
  <2>5. LeavesAt(path) = {leaf}
    <3>1. IsLeaf(leaf)
      BY <2>4 DEF WellFormedLeaf
    <3>2. CASE path = <<command.name>> /\ leaf = command
      BY <2>2, <3>1, <3>2, LeavesAtPaths
    <3>3. CASE \E a : path = <<command.name, a>> /\ ChildrenNamed({command}, a) = {leaf}
      <4>1. \A a : LeavesAt(<<command.name, a>>)
                    = {node \in ChildrenNamed({command}, a) : IsLeaf(node)}
        BY <2>2, LeavesAtPaths
      <4>2. PICK a : path = <<command.name, a>> /\ ChildrenNamed({command}, a) = {leaf}
        BY <3>3
      <4>3. LeavesAt(path) = {node \in {leaf} : IsLeaf(node)}
        BY ONLY <4>1, <4>2
      <4>. QED  BY <3>1, <4>3
    <3>4. CASE \E a, b : /\ path = <<command.name, a, b>>
                         /\ ChildrenNamed(ChildrenNamed({command}, a), b) = {leaf}
      <4>1. \A a, b : LeavesAt(<<event.command, a, b>>)
                       = {node \in ChildrenNamed(ChildrenNamed({command}, a), b) : IsLeaf(node)}
        BY LeavesAtPaths
      <4>2. PICK a, b : /\ path = <<event.command, a, b>>
                        /\ ChildrenNamed(ChildrenNamed({command}, a), b) = {leaf}
        BY <2>2, <3>4
      <4>3. LeavesAt(path) = {node \in {leaf} : IsLeaf(node)}
        BY ONLY <4>1, <4>2
      <4>. QED  BY <3>1, <4>3
    <3>. QED  BY <2>4, <3>2, <3>3, <3>4
  <2>6. found.error = "none" /\ found.path = path /\ found.leaf = leaf
    BY <2>4 DEF Resolved
  <2>7. prepared = IF event.type = "COMMAND" THEN PrepareCommand(found)
                   ELSE PrepareAutocomplete(found)
    BY <2>1, <2>6 DEF PrepareDispatch, found
  <2>8. CASE event.type = "COMMAND"
    BY <2>5, <2>6, <2>7, <2>8 DEF PrepareCommand, path
  <2>9. CASE event.type = "AUTOCOMPLETE"
    <3>1. PrepareAutocomplete(found).outcome = "Autocomplete"
      BY <2>4, <2>9, FilledIsPrepared
    <3>2. /\ PrepareAutocomplete(found).path = found.path
          /\ PrepareAutocomplete(found).leaf = found.leaf
      BY <3>1 DEF PrepareAutocomplete, Answer
    <3>. QED  BY <2>5, <2>6, <2>7, <2>9, <3>1, <3>2 DEF path
  <2>. QED  BY <2>8, <2>9
<1>. QED
  BY <1>1, RoutingInvariant, PTL
=============================================================================
