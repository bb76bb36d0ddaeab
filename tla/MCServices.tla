----------------------------- MODULE MCServices -----------------------------
(* Small instances of components that share no state: each is explored       *)
(* while the others rest in an initial state.                                *)
EXTENDS Throttle, Moderation, Session, Reactions, Listing, Server, LiveFeed, TLC

VARIABLE part  \* the component that is explored

Parts == {"throttle", "moderation", "session", "reactions", "listing", "server", "feed"}

Init == /\ ThrottleInit /\ ModerationInit /\ SessionInit
        /\ ReactionsInit /\ ListingInit /\ ServerInit /\ FeedInit
        /\ part \in Parts
        /\ part # "reactions" => \A e \in Emojis : owned[e] = 0 /\ popup[e].count = 0

Next ==
  \/ /\ part = "throttle" /\ ThrottleNext
     /\ UNCHANGED <<part, moderationVars, sessionVars, reactionVars, listingVars, serverVars, feedVars>>
  \/ /\ part = "moderation" /\ ModerationNext
     /\ UNCHANGED <<part, throttleVars, sessionVars, reactionVars, listingVars, serverVars, feedVars>>
  \/ /\ part = "session" /\ SessionNext
     /\ UNCHANGED <<part, throttleVars, moderationVars, reactionVars, listingVars, serverVars, feedVars>>
  \/ /\ part = "reactions" /\ ReactionsNext
     /\ UNCHANGED <<part, throttleVars, moderationVars, sessionVars, listingVars, serverVars, feedVars>>
  \/ /\ part = "listing" /\ ListingNext
     /\ UNCHANGED <<part, throttleVars, moderationVars, sessionVars, reactionVars, serverVars, feedVars>>
  \/ /\ part = "server" /\ ServerNext
     /\ UNCHANGED <<part, throttleVars, moderationVars, sessionVars, reactionVars, listingVars,
                      feedVars>>
  \/ /\ part = "feed" /\ FeedNext
     /\ UNCHANGED <<part, throttleVars, moderationVars, sessionVars, reactionVars, listingVars,
                    serverVars>>

Spec == Init /\ [][Next]_<<part, throttleVars, moderationVars, sessionVars, reactionVars,
                           listingVars, serverVars, feedVars>>

\* The sets of which no member is singled out.
Symmetry == Permutations(Conns) \union Permutations(Screens)

(* The types of all components. *)
TypeOK == /\ part \in Parts
          /\ ThrottleTypeOK /\ ModerationTypeOK /\ SessionTypeOK
          /\ ReactionsTypeOK /\ ListingTypeOK /\ ServerTypeOK /\ FeedTypeOK
=============================================================================
