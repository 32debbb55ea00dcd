------------------------------- MODULE MCSite -------------------------------
(***************************************************************************)
(* The pages of a site on small instances: the order of its menus, and the *)
(* mail of its contact page.  Neither reads what the other writes, so that *)
(* a behaviour is one of a single part.                                    *)
(***************************************************************************)
EXTENDS Menus, Mail, TLC

CONSTANTS s1, s2

VARIABLE part

TwoWriters == {s1, s2}
SomeOrders == {1, 3}
TwoHeaders == << "header", "header" >>

SiteInit ==
  /\ part \in {"menus", "mail"}
  /\ MenusInit /\ (part # "menus" => kind = "menu" /\ orderly)
  /\ MailInit /\ (part # "mail" => ~pipeKills /\ toPage = << "220" >>)

SiteNext ==
  /\ UNCHANGED part
  /\ \/ part = "menus" /\ MenusNext /\ UNCHANGED mailVars
     \/ part = "mail" /\ MailNext /\ UNCHANGED menuVars

\* The fairness of MailSpec: the page of the mail goes on.
SiteSpec ==
  /\ SiteInit
  /\ [][SiteNext]_<< part, menuVars, mailVars >>
  /\ WF_<< part, menuVars, mailVars >>(part = "mail" /\ PageStep /\ UNCHANGED << part, menuVars >>)

\* The types, and that a page that waits for a reply has one coming.
SiteTypeOK == MenuTypeOK /\ MailTypeOK
=============================================================================
