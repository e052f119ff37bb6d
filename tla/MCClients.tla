------------------------------- MODULE MCClients -------------------------------
(* Small instances of what clients send, of the pages they send it from,   *)
(* and of what the command line client builds.  They share no state: the   *)
(* first state says which one runs.                                        *)
EXTENDS Mutations, Dashboard, ConnectionsPage, Compile, TLC

CONSTANTS Clients,  \* the parts this instance checks
          s1, s2, k1, t1, x1, x2,
          a1, a2, a3, gmail, drive, get, list, send, read, c1, c2

VARIABLE client

ClientsInit ==
  /\ client \in Clients
  /\ MutationsInit /\ DashboardInit /\ ConnectionsPageInit /\ CompileInit

ClientsNext ==
  /\ UNCHANGED client
  /\ \/ /\ client = "mutations" /\ MutationsNext
        /\ UNCHANGED <<dashboardVars, connectionsPageVars, compileVars>>
     \/ /\ client = "dashboard" /\ DashboardNext
        /\ UNCHANGED <<mutationVars, connectionsPageVars, compileVars>>
     \/ /\ client = "connections page" /\ ConnectionsPageNext
        /\ UNCHANGED <<mutationVars, dashboardVars, compileVars>>
     \/ /\ client = "compile" /\ CompileNext
        /\ UNCHANGED <<mutationVars, dashboardVars, connectionsPageVars>>

ClientsSpec ==
  /\ ClientsInit
  /\ [][ClientsNext]_<<client, mutationVars, dashboardVars, connectionsPageVars, compileVars>>

(* Two providers, the first with three operations and three ranked scopes; *)
(* "full" is outside the ranking.  The second release has withdrawn one    *)
(* operation and derives another template and scopes for a second one.     *)
MCProviderOf == get :> gmail @@ list :> gmail @@ send :> gmail @@ read :> drive

MCFolded == [o \in {get, list, send, read} |-> o]

MCRegistry(scopes, revision) ==
  [scopes  |-> scopes,
   request |-> [o \in DOMAIN scopes |-> IF o = list THEN revision ELSE 1],
   ranking |-> gmail :> <<"narrow", "labels", "broad">> @@ drive :> <<"docs">>,
   pin     |-> gmail :> revision @@ drive :> 1]

MCRegistries ==
  <<MCRegistry(get  :> {"narrow", "broad", "full"} @@ list :> {"labels", "broad"}
               @@ send :> {"broad", "full"} @@ read :> {"docs", "full"}, 1),
    MCRegistry(get  :> {"narrow", "broad", "full"} @@ list :> {"narrow", "labels"}
               @@ read :> {"docs", "full"}, 2)>>

Entry(tool, fields) ==
  [tool |-> tool, guards |-> [i \in DOMAIN fields |-> [field |-> fields[i], pin |-> "x"]]]

MCTools ==
  {<<Entry(get, <<"to">>)>>, <<Entry(list, <<>>)>>, <<Entry(read, <<>>)>>,
   <<Entry(get, <<>>), Entry(list, <<"to">>)>>, <<Entry(get, <<>>), Entry(read, <<>>)>>,
   <<Entry(send, <<>>)>>,
   <<Entry(get, <<>>), Entry(get, <<"to">>)>>, <<Entry(get, <<"to", "to">>)>>}

MCAngels == {<<a1>>, <<a2>>, <<a1, a2>>, <<a2, a3>>, <<a2, a2>>}

(* A file usually declares the name of its folder, and either tools or     *)
(* angels.                                                                 *)
MCSources ==
  [n \in {a1, a2, a3} |->
     [name : {n}, tools : MCTools, angels : {<<>>}]
     \cup [name : {n}, tools : {<<>>}, angels : MCAngels]
     \cup [name : {a1}, tools : {<<Entry(read, <<>>)>>}, angels : {<<>>, <<a2>>}]]
===============================================================================
