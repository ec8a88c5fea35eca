------------------------------ MODULE MCServices ------------------------------
(***************************************************************************)
(* The services that share no state with one another, on small instances:  *)
(* a behaviour exercises one of them while the others stay as they start.  *)
(***************************************************************************)
EXTENDS CartCache, RefreshSessions, RoleAdmin, ProfileSync,
        NotificationDelivery, ChatConversation, ChatHub, OrderReadModel, TLC

VARIABLE service    \* the component of this behaviour

Services == {"cart", "sessions", "roles", "profiles", "notices", "chat", "hub", "reports"}

servicesVars ==
    <<service, cartVars, sessionVars, roleVars, syncVars, noticeVars, chatVars, hubVars, readModelVars>>

ServicesInit ==
    /\ service \in Services
    /\ CartInit /\ SessionInit /\ RoleInit /\ SyncInit
    /\ NoticeInit /\ ChatInit /\ HubInit /\ ReadModelInit

Others ==
    /\ service # "cart" => UNCHANGED cartVars
    /\ service # "sessions" => UNCHANGED sessionVars
    /\ service # "roles" => UNCHANGED roleVars
    /\ service # "profiles" => UNCHANGED syncVars
    /\ service # "notices" => UNCHANGED noticeVars
    /\ service # "chat" => UNCHANGED chatVars
    /\ service # "hub" => UNCHANGED hubVars
    /\ service # "reports" => UNCHANGED readModelVars
    /\ UNCHANGED service

ServicesNext ==
    \/ service = "cart" /\ CartNext /\ Others
    \/ service = "sessions" /\ SessionNext /\ Others
    \/ service = "roles" /\ RoleNext /\ Others
    \/ service = "profiles" /\ SyncNext /\ Others
    \/ service = "notices" /\ NoticeNext /\ Others
    \/ service = "chat" /\ ChatNext /\ Others
    \/ service = "hub" /\ HubNext /\ Others
    \/ service = "reports" /\ ReadModelNext /\ Others

ServicesSpec == ServicesInit /\ [][ServicesNext]_servicesVars

OneReaderElsewhere == [r \in Readers |-> IF r = "r3" THEN "B" ELSE "A"]
OneAddress == [a \in Aggregates |-> "x"]
=============================================================================
