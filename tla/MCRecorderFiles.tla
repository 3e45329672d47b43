-------------------------- MODULE MCRecorderFiles ---------------------------
(***************************************************************************)
(* The two files that the recorder reads: the list of contracts and the    *)
(* configuration. They share no variable, so a behaviour follows one.      *)
(***************************************************************************)
EXTENDS ContractList

CONSTANTS Keys, Texts, None, MaxLines, MaxMergedLines, MaxLoads  \* ConfigFile

ASSUME NoneAssumption == None \notin Keys \union Texts
ASSUME FilesAssumption == {MaxLines, MaxMergedLines, MaxLoads} \subseteq Nat

VARIABLES
    which,                      \* "contracts" or "config"
    pc, m_Contents, rest, newline, eof, fail, nextline, key, line, loads,
    source, before, saved, sent

Config == INSTANCE ConfigFile

configVars == <<pc, m_Contents, rest, newline, eof, fail, nextline, key, line,
                loads, source, before, saved, sent>>
allVars == <<which, vars, configVars>>

MCInit ==
    /\ Init /\ Config!Init
    /\ which \in {"contracts", "config"}
    /\ which = "config" => ~exists

Contract(A) == which = "contracts" /\ A /\ UNCHANGED <<which, configVars>>

MCNext ==
    \/ Contract(Next)
    \/ which = "config" /\ Config!Next /\ UNCHANGED <<which, vars>>

(* Of the contracts: main runs, the trader API connects again, and its server
   answers. *)
MCFairness ==
    /\ WF_allVars(Contract(MainQuery))
    /\ WF_allVars(Contract(Connect))
    /\ WF_allVars(Contract(Disconnect))
    /\ WF_allVars(Contract(LoginReply))
    /\ WF_allVars(Contract(\E c \in Contracts : Answer(c)))

MCSpec == MCInit /\ [][MCNext]_allVars /\ MCFairness

(* What Config loads is what the file says, over comments, blank lines and
   values of several lines (operator>>). *)
LoadedAsWritten == Config!LoadedAsWritten

(* What operator<< saves is loaded again as it was. *)
SavedIsLoaded == Config!SavedIsLoaded
=============================================================================
