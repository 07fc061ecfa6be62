------------------------------ MODULE Signatures ------------------------------
(***************************************************************************)
(* The signatures the attribute macros accept                               *)
(* (crates/gloam-commands-macros/src/command.rs, check.rs, autocomplete.rs). *)
(*                                                                         *)
(* A type is the last segment of its path with its generic arguments; "()",  *)
(* "&" and "'a" stand for a tuple, a reference and a lifetime, "self" for a   *)
(* receiver.  A signature is [async, qualifiers, inputs, output], the output  *)
(* "()" when none is written; the inputs of a command are its context alone,  *)
(* its options are parameters of CommandMacro.  A helper, annotated with      *)
(* #[check] or #[autocomplete], is [macro, ident, arguments, signature].      *)
(***************************************************************************)
EXTENDS Sequences

CONSTANT Ctx   \* the name "ctx", which every adapter gives its parameter

\* Those a signature may carry; the macros want none of them.
Qualifiers == {"const", "unsafe", "extern", "generic", "variadic"}

Path(of) == [of |-> of, arguments |-> <<>>]
Around(of, type) == [of |-> of, arguments |-> <<type>>]

\* The checks that validate_signature begins with.
IsPlain(signature) == signature.async /\ signature.qualifiers = {}

TakesContext(signature, context) ==
  signature.inputs # <<>> /\ signature.inputs[1].of = context

\* Exactly one generic argument, and that a type.
HasState(signature) ==
  /\ Len(signature.inputs[1].arguments) = 1
  /\ signature.inputs[1].arguments[1].of # "'a"

StateType(signature) == signature.inputs[1].arguments[1]

ReturnsUnit(signature) == signature.output = Around("Result", Path("()"))
ReturnsBool(signature) == signature.output = Around("Result", Path("bool"))
ReturnsChoices(signature) ==
  signature.output = Around("Result", Around("Vec", Path("AutocompleteChoice")))

CommandSignatureFits(signature) ==
  /\ IsPlain(signature)
  /\ ReturnsUnit(signature)
  /\ TakesContext(signature, "Context") /\ HasState(signature)

CheckAccepts(helper) ==
  /\ helper.arguments = {}
  /\ IsPlain(helper.signature)
  /\ Len(helper.signature.inputs) = 1
  /\ TakesContext(helper.signature, "Context") /\ HasState(helper.signature)
  /\ ReturnsBool(helper.signature)

CompleterAccepts(helper) ==
  /\ helper.arguments = {}
  /\ IsPlain(helper.signature)
  /\ Len(helper.signature.inputs) = 1
  /\ TakesContext(helper.signature, "AutocompleteContext") /\ HasState(helper.signature)
  /\ ReturnsChoices(helper.signature)

HelperAccepts(helper) ==
  IF helper.macro = "check" THEN CheckAccepts(helper) ELSE CompleterAccepts(helper)

\* The generated `function(ctx, options...)`: ctx and every option are locals there, so
\* the call is to the function, and on its context, only if none of them has the
\* function's name and no option is called ctx.
AdapterCalls(ident, options) == ident \notin {Ctx} \cup options /\ Ctx \notin options

-----------------------------------------------------------------------------
(* rustc (external), for names that mean the crate's own types: what the      *)
(* generated `Box::pin(function(ctx))` needs to be the boxed future of its     *)
(* alias, once the call is known to be that function's.                       *)

BoxesInto(signature, context, returned) ==
  /\ signature.async
  /\ signature.qualifiers \cap {"const", "unsafe", "generic", "variadic"} = {}
  /\ Len(signature.inputs) = 1
  /\ TakesContext(signature, context) /\ Len(signature.inputs[1].arguments) = 1
  /\ signature.output = Around("Result", returned)

HelperBoxes(helper) ==
  IF helper.macro = "check" THEN BoxesInto(helper.signature, "Context", Path("bool"))
  ELSE BoxesInto(helper.signature, "AutocompleteContext",
                 Around("Vec", Path("AutocompleteChoice")))
=============================================================================
