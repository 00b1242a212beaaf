---------------------------- MODULE TenantSchema -----------------------------
(***************************************************************************)
(* The tenant schema: what the configuration may say of a tenant's tuple   *)
(* (internal/config/config.go), how the service enforces it and what it    *)
(* publishes of it to clients (internal/service/tenant_schema.go).         *)
(*                                                                         *)
(* A tuple is a function from some keys to values.  Of a key's pattern and *)
(* enum the set of values is kept that they admit, of descriptions and     *)
(* messages nothing.                                                       *)
(***************************************************************************)
EXTENDS Integers, Sequences, FiniteSets

CONSTANTS
    Key,   \* names that tuples and configurations may use
    Value

Tuple == UNION {[keys -> Value] : keys \in SUBSET Key}

(* TenantSchemaConfig; a key is required by a field of its own entry.      *)
SchemaConfig == {c \in [
    keys     : SUBSET Key,
    matched  : [Key -> SUBSET Value],  \* by the key's pattern; by none: Value
    enum     : [Key -> SUBSET Value],  \* the empty set: no enum
    required : SUBSET Key,
    one_of   : Seq(SUBSET Key)] : c.required \subseteq c.keys}

IsConfigured(cfg) == cfg.keys # {} \/ cfg.one_of # <<>>

(* TenantSchemaConfig.Validate: every pattern compiles, and               *)
ValidConfig(cfg) ==
    \A i \in DOMAIN cfg.one_of : cfg.one_of[i] # {} /\ cfg.one_of[i] \subseteq cfg.keys

-----------------------------------------------------------------------------
(* TenantSchema.Validate: the codes it may report first, maps being walked *)
(* in any order; none for a tuple it accepts.                              *)

Unknown(cfg, tuple) == DOMAIN tuple \ cfg.keys

EnumMiss(cfg, tuple) ==
    {k \in DOMAIN tuple : cfg.enum[k] # {} /\ tuple[k] \notin cfg.enum[k]}
PatternMiss(cfg, tuple) == {k \in DOMAIN tuple : tuple[k] \notin cfg.matched[k]}

Missing(cfg, tuple) == cfg.required \ DOMAIN tuple

Matching(cfg, tuple) == {i \in DOMAIN cfg.one_of : cfg.one_of[i] \subseteq DOMAIN tuple}

(* Fault: any number of the key sets may be present.                       *)
AnyOf(cfg, tuple) ==
    IF cfg.one_of # <<>> /\ Matching(cfg, tuple) = {} THEN {"one_of_no_match"} ELSE {}

OneOf(cfg, tuple) ==
    IF cfg.one_of = <<>> THEN {}
    ELSE CASE Cardinality(Matching(cfg, tuple)) = 0 -> {"one_of_no_match"}
           [] Cardinality(Matching(cfg, tuple)) = 1 -> {}
           [] OTHER -> {"one_of_multiple_match"}

ErrTenantInvalid(cfg, tuple) ==
    IF ~IsConfigured(cfg) THEN {}
    ELSE IF Unknown(cfg, tuple) # {} THEN {"unknown_key"}
    ELSE IF EnumMiss(cfg, tuple) \union PatternMiss(cfg, tuple) # {}
    THEN {c \in {"enum_mismatch", "pattern_mismatch"} :
            IF c = "enum_mismatch" THEN EnumMiss(cfg, tuple) # {}
            ELSE PatternMiss(cfg, tuple) \ EnumMiss(cfg, tuple) # {}}
    ELSE IF Missing(cfg, tuple) # {} THEN {"missing_required"}
    ELSE OneOf(cfg, tuple)

Valid(cfg, tuple) == ErrTenantInvalid(cfg, tuple) = {}

-----------------------------------------------------------------------------
(* JSONSchema, and the argument type's own schema where nothing is         *)
(* configured.                                                             *)
JSONSchema(cfg) == [
    properties |-> cfg.keys,
    pattern    |-> cfg.matched,
    enum       |-> cfg.enum,
    required   |-> cfg.required,
    additional |-> ~IsConfigured(cfg),
    oneOf      |-> cfg.one_of]

(* What the SDK's validator takes such a schema to mean (external).        *)
Accepts(schema, tuple) ==
    /\ schema.additional \/ DOMAIN tuple \subseteq schema.properties
    /\ \A k \in DOMAIN tuple \intersect schema.properties :
          /\ tuple[k] \in schema.pattern[k]
          /\ schema.enum[k] = {} \/ tuple[k] \in schema.enum[k]
    /\ schema.required \subseteq DOMAIN tuple
    /\ \/ schema.oneOf = <<>>
       \/ \E i \in DOMAIN schema.oneOf :
             \A j \in DOMAIN schema.oneOf :
                schema.oneOf[j] \subseteq DOMAIN tuple <=> j = i
=============================================================================
