---------------------------- MODULE MachineScope ----------------------------
(***************************************************************************)
(* What a create attempt reads from the Kubernetes API before it asks      *)
(* Prism Central for anything: newMachineScope takes the endpoint and the  *)
(* failure domain from the Infrastructure object and the credentials from  *)
(* a secret, and builds the client of this attempt; getUserData reads the  *)
(* user data.  Administrators change the three objects at any moment.      *)
(***************************************************************************)
EXTENDS Integers, Sequences

CONSTANTS
    Environments,  \* values the three objects may have together
    None,          \* a nil pointer, an empty string or a missing object
    MaxFails       \* bound on failing calls

VARIABLES
    spec,      \* the Machine: its providerSpec and the labels that count
    env,       \* the Infrastructure, the credentials and the user data secret
    pc,        \* where the attempt is
    fd,        \* scope.failureDomain
    client,    \* clientOptions, with which the client is built
    userData,  \* the user data for the VM
    calm,      \* nothing has failed or changed since the attempt began
    fails      \* failing calls so far

scopeVars == <<fd, client, userData>>

CallFails == fails < MaxFails /\ fails' = fails + 1 /\ calm' = FALSE

CallSucceeds == UNCHANGED <<fails, calm>>

\* The attempt ends with an error, and the work queue starts another one.
Retry == pc' = "idle"

-----------------------------------------------------------------------------
(* getNutanixClientOptions                                                 *)

MaxPort == 65535

\* The failure domain the providerSpec names is in the Infrastructure, and
\* the endpoint can be used.
InfrastructureOK ==
    /\ spec.failureDomain # None => spec.failureDomain \in DOMAIN env.domains
    /\ spec.credentialsSecret
    /\ env.address # None
    /\ env.port \in 1 .. MaxPort

\* The first half: the Infrastructure.
getInfrastructure ==
    /\ pc = "scope"
    /\ \/ /\ InfrastructureOK
          /\ fd' = IF spec.failureDomain = None THEN None ELSE env.domains[spec.failureDomain]
          /\ client' = [ address |-> env.address, port |-> env.port, url |-> None,
                         user |-> None, password |-> None ]
          /\ pc' = "credentials"
          /\ CallSucceeds
       \/ ~InfrastructureOK /\ Retry /\ CallSucceeds /\ UNCHANGED <<fd, client>>
       \/ Retry /\ CallFails /\ UNCHANGED <<fd, client>>
    /\ UNCHANGED userData

\* setClientCredentials: the first credential decides.
CredentialsOK(list) ==
    /\ list # <<>>
    /\ Head(list).type = "basic_auth"
    /\ Head(list).user # None /\ Head(list).password # None

\* clientpkg.Client: the URL is built from endpoint and port if it is not set
\* yet.  The credentials are never nil, so environment variables do not count.
resolveCredentials(options) ==
    IF options.url = None THEN [options EXCEPT !.url = <<options.address, options.port>>]
    ELSE options

\* The second half: the secret, then the client.
getCredentials ==
    /\ pc = "credentials"
    /\ LET ok == env.secret # None /\ CredentialsOK(env.secret)
       IN  \/ /\ ok
              /\ client' = resolveCredentials([client EXCEPT
                                !.user = Head(env.secret).user,
                                !.password = Head(env.secret).password])
              /\ pc' = "userData"
              /\ CallSucceeds
           \/ ~ok /\ Retry /\ CallSucceeds /\ UNCHANGED client
           \/ Retry /\ CallFails /\ UNCHANGED client
    /\ UNCHANGED <<fd, userData>>

-----------------------------------------------------------------------------
(* Reconciler.create before the validation of the VM's configuration.      *)

\* validateMachine: without the label with the cluster ID the Machine is
\* invalid (the machine controller checks it too, before it calls Create).
\* getUserData: a Windows Machine gets the secret as it is, any other the
\* file /etc/hostname in addition to the ignition in the secret.
getUserData ==
    /\ pc = "userData"
    /\ LET readable == env.userData # None /\ (spec.windows \/ env.userData.ignition)
       IN  \/ /\ ~spec.clusterID
              /\ pc' = "invalid" /\ CallSucceeds /\ UNCHANGED userData
           \/ /\ spec.clusterID /\ ~spec.userDataSecret
              /\ userData' = None
              /\ pc' = "cluster" /\ CallSucceeds
           \/ /\ spec.clusterID /\ spec.userDataSecret /\ readable
              /\ userData' = [content |-> env.userData.content, hostname |-> ~spec.windows]
              /\ pc' = "cluster" /\ CallSucceeds
           \/ /\ spec.clusterID /\ spec.userDataSecret /\ ~readable
              /\ Retry /\ CallSucceeds /\ UNCHANGED userData
           \/ /\ spec.clusterID /\ spec.userDataSecret
              /\ Retry /\ CallFails /\ UNCHANGED userData
    /\ UNCHANGED <<fd, client>>

Scope == getInfrastructure \/ getCredentials \/ getUserData

-----------------------------------------------------------------------------

\* newMachineScope and getUserData succeed with the objects as they are now.
ScopeOK ==
    /\ InfrastructureOK
    /\ env.secret # None /\ CredentialsOK(env.secret)
    /\ spec.userDataSecret =>
          env.userData # None /\ (spec.windows \/ env.userData.ignition)
=============================================================================
