------------------------------ MODULE MCClients ------------------------------
(***************************************************************************)
(* Two clients of services, one at a time: the CRM client, and the secrets  *)
(* behind memo and disk.  subject says which one a behaviour is about; the  *)
(* other stays in one of its initial states.                                *)
(*                                                                         *)
(* The CRM has one imported party, two leads at most and two jobs; two      *)
(* documents, one registered; a name the registry confirms and one it does  *)
(* not, neither of them the name in the registry.  Of two processes that    *)
(* ask for secrets, with an allowlist or without, one uses the disk, the    *)
(* other the same disk with the same or another key, or no disk.            *)
(***************************************************************************)
EXTENDS CrmParties, TLC

CONSTANTS ana, luz, rey, paz, d1, d2, k1, j1, j2,
          p1, p2,  \* of CrmParties, and for SecretCache:
          SecretProcess, SecretName, SecretKey, Narrowed, Full, Allow, Configs, Contents,
          Ttl, MaxTime

VARIABLES subject,
          now, config, memo, disk, call, served

MCName == {<<rey, paz, ana>>, <<ana, rey>>}
MCRegistry == d1 :> [nombres |-> <<ana, luz>>, apellido_paterno |-> <<rey>>,
                     apellido_materno |-> <<paz>>]

Configured(mode, key) == [mode |-> mode, key |-> key]
MCConfigs ==
    {p1 :> Configured("disk", "machine") @@ p2 :> c :
        c \in {Configured("disk", "machine"), Configured("disk", "operator"),
               Configured("memory", "machine")}}

Secrets == INSTANCE SecretCache
             WITH Process <- SecretProcess, Name <- SecretName, Key <- SecretKey

ASSUME SecretsAssumption ==
    /\ Secrets!SecretAssumption /\ Secrets!ConfigAssumption
    /\ Secrets!BoundAssumption /\ Secrets!NoneAssumption

secretVars == <<now, config, memo, disk, call, served>>
allVars == <<subject, vars, secretVars>>

InitAny ==
    /\ subject \in {"crm", "secrets"}
    /\ Init /\ (subject # "crm" => parties = <<>>)
    /\ Secrets!Init /\ (subject # "secrets" => config = CHOOSE c \in Configs : TRUE)

CrmStep(A) == subject = "crm" /\ A /\ UNCHANGED <<subject, secretVars>>
SecretsStep(A) == subject = "secrets" /\ A /\ UNCHANGED <<subject, vars>>

NextAny == CrmStep(Next) \/ SecretsStep(Secrets!Next)

\* CrmParties!Fairness; nothing is assumed of the processes with secrets.
FairAny ==
    /\ \A j \in Job : WF_allVars(CrmStep(JobStep(j)))
    /\ \A p \in Party :
         /\ WF_allVars(p \in Ids /\ CrmStep(LeaseExpires(p)))
         /\ SF_allVars(\E j \in Job : p \in Ids /\ CrmStep(ClaimUnvalidated(j, p)))

SpecAny == InitAny /\ [][NextAny]_allVars /\ FairAny

\* Cached secrets are as good as fetched ones (SecretCache!HitsHonest).
HitsHonest == Secrets!HitsHonest
=============================================================================
