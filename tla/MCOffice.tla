-------------------------------- MODULE MCOffice --------------------------------
(* Small instances of Documents and of Outreach, which share no rows: a          *)
(* behaviour follows one of them. In some, an invoice is issued and printed      *)
(* while the studio works, and the server does not stop; in others it stops,     *)
(* with certificates and the built-in templates only, whose first version        *)
(* alone may be saved anew. In others the server starts, and then there are      *)
(* campaigns only, or two runs of a reminder and an announcement; a stop of      *)
(* the process is Outreach's there.                                              *)
EXTENDS Documents, Outreach

VARIABLE focus

MCTypes == <<"invoice", "certificate">>
MCTypeOf == [d \in Docs |-> d]
MCWorkflowOf == [r \in Runs |-> IF r = 3 THEN "announcement" ELSE "reminder"]
MCAddressOf == [r \in Runs |-> IF r = 2 THEN "b" ELSE "a"]

\* One reader; the settings and the templates of the other type stay as they are.
StudioStep ==
  /\ Next
  /\ \A e \in Editors : editor'[e] # None => template'[editor'[e].id].type = Invoice
  /\ doc'["certificate"] = None /\ reader'[2] = None /\ crashes' = 0
  /\ \A type \in TypeNames \ {Invoice} : chosen'[type] = chosen[type]
StartStep ==
  /\ Next
  /\ doc'["invoice"] = None /\ chosen' = chosen
  /\ \A p \in Readers : reader'[p] # None => reader'[p].doc # "invoice"
  /\ \A e \in Editors : editor'[e] # None /\ editor'[e].pc = "save" => editor'[e].n = 1

\* A campaign goes to nobody, to the first address or to both.
CampaignStep ==
  /\ up /\ OutreachNext
  /\ \A c \in Campaigns : campaign'[c] # Null => campaign'[c].audience # {"b"}
  /\ UNCHANGED <<run, enabled, robot, announcing>>
\* The address of the first and the third run comes to be suppressed and released, the
\* reminder to be disabled and enabled.
AutomationStep ==
  /\ up /\ OutreachNext /\ suppressed' \subseteq {"a"} /\ "announcement" \in enabled'
  /\ UNCHANGED <<campaign, mailer>>

all == <<vars, outreachVars, focus>>
OfficeInit ==
  /\ Init /\ OutreachInit /\ focus \in {"studio", "start", "campaigns", "automation"}
  /\ focus \in {"studio", "start"} => suppressed = {}
  /\ focus = "automation" => suppressed \subseteq {"a"}
OfficeNext ==
  /\ UNCHANGED focus
  /\ \/ focus = "studio" /\ StudioStep /\ UNCHANGED outreachVars
     \/ focus = "start" /\ StartStep /\ UNCHANGED outreachVars
     \/ focus \in {"campaigns", "automation"} /\ SelectionStep(Boot) /\ UNCHANGED outreachVars
     \/ focus = "campaigns" /\ CampaignStep /\ UNCHANGED vars
     \/ focus = "automation" /\ AutomationStep /\ UNCHANGED vars

\* The fairness of Documents's and of Outreach's specification, each for its own work.
Starting(step) == step /\ UNCHANGED <<outreachVars, focus>>
Posting(work, step) == focus = work /\ step /\ UNCHANGED <<vars, focus>>
OfficeSpec ==
  /\ OfficeInit /\ [][OfficeNext]_all
  /\ WF_all(Starting(SelectionStep(Boot)))
  /\ WF_all(Posting("campaigns", Mailer)) /\ WF_all(Posting("automation", Robot))
=================================================================================
