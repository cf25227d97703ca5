---------------------------- MODULE MCPluginHost ----------------------------
(***************************************************************************)
(* One node with a lease and a resolved input.   The provider's plugin also   *)
(* exports an observer, so that calls meet in its session; the gate has a  *)
(* plugin of its own.                                                      *)
(***************************************************************************)
EXTENDS PluginHost, TLC

CONSTANTS n1, main, none

MCFeatureOrder == <<"gate", "look", "lease", "note">>
MCAlias == [gate |-> "policy", look |-> "policy", lease |-> "vault", note |-> "vault"]
MCKind == [gate |-> "gate", look |-> "input_resolver", lease |-> "credential_provider", note |-> "observer"]
MCEffect == [gate |-> "read_only", look |-> "pure", lease |-> "idempotent_external",
             note |-> "non_idempotent_external"]
MCEvents == [gate |-> {"node.plan.ready"}, look |-> {}, lease |-> {}, note |-> {"node.mutation.finished"}]
MCInputs == (n1 :> <<"look">>)
MCBindings == (n1 :> <<"lease">>)
============================================================================
