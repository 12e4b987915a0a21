------------------------- MODULE MCAnalysisSettings -------------------------
(* Instances of AnalysisSettings for TLC.                                  *)
EXTENDS AnalysisSettings

\* The values that the environment gives, and one that a request may give.
CONSTANTS Default, Other
SomeStrings == {Default, Other}

\* An environment as deployed for the cloud with or without its key, and one for a
\* local model.
Deployed(provider, key, model) ==
    [f \in Fields |->
        CASE f = "ai_provider" -> provider
          [] f = "openai_api_key" -> key
          [] f = "local_model" -> model
          [] OTHER -> Default]
DeployedEnvironments ==
    {Deployed("openai", key, None) : key \in {Default, None}}
        \cup {Deployed("local", None, Default)}

\* A request names a provider, one other field, or both.
SmallRequests ==
    {[f \in Fields |-> IF f = "ai_provider" THEN p ELSE IF f = g THEN Other ELSE None] :
        p \in Providers \cup {None}, g \in Fields}

\* One that chooses the cloud and has a local model ready, which it takes for two first
\* saves to meet with effect.
RequestsOfRun ==
    SmallRequests \cup
        {[f \in Fields |->
            CASE f = "ai_provider" -> "openai"
              [] f \in {"openai_api_key", "local_model"} -> Other
              [] OTHER -> None]}
=============================================================================
