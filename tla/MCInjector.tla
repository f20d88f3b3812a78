----------------------------- MODULE MCInjector -----------------------------
(* Injector for TLC. *)
EXTENDS Injector

UserSets(name) == [name |-> name, by |-> "user"]

\* Nothing, something unrelated, or one of the variables the agent would set.
Envs == {<<>>, <<UserSets("OTHER")>>, <<UserSets("AWS_ENDPOINT_URL_STS")>>,
         <<UserSets("OTHER"), UserSets("AWS_CONTAINER_AUTHORIZATION_TOKEN_FILE")>>}

\* Mounts and volumes that go together.
Mounting == {<<<<>>, <<>>>>, <<<<"data">>, <<"data">>>>, <<<<>>, <<"data">>>>,
             <<<<"token">>, <<"token">>>>, <<<<>>, <<"token">>>>}

\* Containers differ in their environment; those that mount do so alike.
Pods == {[env |-> e, mounts |-> [c \in All |-> IF c \in who THEN m[1] ELSE <<>>],
          volumes |-> m[2]] :
            e \in [All -> Envs], m \in Mounting, who \in SUBSET All}
=============================================================================
