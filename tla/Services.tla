------------------------------- MODULE Services -------------------------------
(***************************************************************************)
(* Three parts beside the booking core that share no state: a behaviour is *)
(* one of the replication of accounts, of an event consumer, or of the     *)
(* gateway's limiter.                                                      *)
(***************************************************************************)
EXTENDS UserReplication, EventDelivery, RateLimiter

VARIABLE part

servicesVars == <<part, userVars, deliveryVars, limiterVars>>

ServicesInit ==
    /\ part \in {"accounts", "events", "limiter"}
    /\ UsersInit /\ DeliveryInit /\ LimiterInit
    /\ part # "events" => service = CHOOSE c \in Consumers : TRUE
    /\ part # "accounts" => redis = CHOOSE d \in Deployments : TRUE

ServicesNext ==
    \/ /\ part = "accounts" /\ UsersNext
       /\ UNCHANGED <<part, deliveryVars, limiterVars>>
    \/ /\ part = "events" /\ DeliveryNext
       /\ UNCHANGED <<part, userVars, limiterVars>>
    \/ /\ part = "limiter" /\ LimiterNext
       /\ UNCHANGED <<part, userVars, deliveryVars>>

ServicesSpec == ServicesInit /\ [][ServicesNext]_servicesVars

\* The fair actions of a part are not enabled in a behaviour of another.
ServicesFair == ServicesSpec /\ DeliveryFairness /\ LimiterFairness
=============================================================================
