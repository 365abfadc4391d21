----------------------------- MODULE Federation -----------------------------
(***************************************************************************)
(* Single sign-on as a whole: the client registry, the provider and a      *)
(* relying party.  An administrator disables a client or rotates its       *)
(* secret while the relying party exchanges a code with it.                *)
(***************************************************************************)
EXTENDS RelyingParty

vars == <<clientVars, now, begun, providerVars, partyVars>>

Init == ClientsInit /\ ProviderInit /\ PartyInit

Tick ==
    /\ now < MaxTime /\ now' = now + 1
    /\ UNCHANGED <<clientVars, begun, providerVars, partyVars>>

Next ==
    \/ ClientsNext /\ UNCHANGED <<providerVars, partyVars>>
    \/ ProviderNext /\ UNCHANGED partyVars
    \/ PartyNext
    \/ Tick

Spec == Init /\ [][Next]_vars

-----------------------------------------------------------------------------
(* Rotations of a client's secret, whatever their order, leave it exactly one *)
(* primary secret, and what a secret was left when it was demoted is final:   *)
(* it neither comes back nor gets a longer or shorter grace.                  *)
SecretsRetireOnce ==
    [][/\ \A c \in Clients : Registered(c)' => Cardinality(Primaries(c)') = 1
       /\ \A s \in Secrets : (secret[s].of # None /\ ~secret[s].primary)
                                => secret'[s] = secret[s]]_vars

(* A client that was disabled while no other update of it was under way stays *)
(* disabled, through any number of updates of its other fields, until one     *)
(* that asks for it to be enabled is committed.                               *)
DisableSticks == \A c \in Clients : shut[c] = "clean" => client[c].status = "disabled"

=============================================================================
