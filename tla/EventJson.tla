----------------------------- MODULE EventJson -----------------------------
(***************************************************************************)
(* The lines that the CLI prints for events and that parse_event_line      *)
(* reads back (json.rs). A JSON object is a function from its keys; which  *)
(* event it is shows only in the keys it has.                              *)
(*                                                                         *)
(* The events are those of the module Attributes; path is their attrPath.  *)
(*                                                                         *)
(* An operator named X_Y is X with a mistake in it, kept to show that the  *)
(* properties notice.                                                      *)
(***************************************************************************)
EXTENDS Naturals, Sequences, Functions

CONSTANTS None,  \* Option::None
          Null   \* the JSON value null

(* A key that is there only if there is something to say.                  *)
Key(key, value, there) == [k \in IF there THEN {key} ELSE {} |-> value]

Merged(f, g) == [k \in DOMAIN f \union DOMAIN g |-> IF k \in DOMAIN f THEN f[k] ELSE g[k]]

OrNull(x) == IF x = None THEN Null ELSE x

(* derivation_value.                                                       *)
DerivationValue(path, e) ==
  LET always ==
        [attr |-> path, attrPath |-> path, name |-> e.name, system |-> e.system,
         drvPath |-> e.drv, outputs |-> {<<o[1], OrNull(o[2])>> : o \in e.outputs}]
      meta         == Key("meta", e.meta, e.meta # None)
      inputDrvs    == Key("inputDrvs", e.inputDrvs, e.inputDrvs # {})
      constituents == Key("constituents", e.constituents, e.constituents # None)
      gcRootError  == Key("gcRootError", e.gcRootError, e.gcRootError # None)
  IN  Merged(always, Merged(meta, Merged(inputDrvs, Merged(constituents, gcRootError))))

(* event_value.                                                            *)
EventValue(path, e) ==
  CASE e.kind = "Derivation" -> DerivationValue(path, e)
    [] e.kind = "AttrSet"    -> [attr |-> path, attrPath |-> path, attrs |-> e.attrs]
    [] e.kind = "Error"      -> [attr |-> path, attrPath |-> path, error |-> e.error,
                                 fatal |-> e.fatal]

Field(value, key, default) == IF key \in DOMAIN value THEN value[key] ELSE default

(* parse_derivation.                                                       *)
ParseDerivation(value) ==
  [kind         |-> "Derivation",
   name         |-> value.name,
   drv          |-> value.drvPath,
   system       |-> value.system,
   outputs      |-> {<<o[1], IF o[2] = Null THEN None ELSE o[2]>> :
                       o \in Field(value, "outputs", {})},
   meta         |-> Field(value, "meta", None),
   inputDrvs    |-> Field(value, "inputDrvs", {}),
   constituents |-> Field(value, "constituents", None),
   gcRootError  |-> Field(value, "gcRootError", None)]

ParseEventValue_Meta(value) ==
  CASE "meta" \in DOMAIN value -> ParseDerivation(value)
    [] "meta" \notin DOMAIN value /\ "error" \in DOMAIN value ->
         [kind |-> "Error", error |-> value.error, fatal |-> Field(value, "fatal", FALSE)]
    [] OTHER -> [kind |-> "AttrSet", attrs |-> Field(value, "attrs", {})]

(* parse_event_value. What has neither a drvPath nor an error is an        *)
(* attribute set, whether it lists attributes or not.                      *)
ParseEventValue(value) ==
  CASE "drvPath" \in DOMAIN value -> ParseDerivation(value)
    [] "drvPath" \notin DOMAIN value /\ "error" \in DOMAIN value ->
         [kind |-> "Error", error |-> value.error, fatal |-> Field(value, "fatal", FALSE)]
    [] OTHER -> [kind |-> "AttrSet", attrs |-> Field(value, "attrs", {})]
=============================================================================
