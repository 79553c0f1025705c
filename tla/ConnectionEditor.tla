-------------------------- MODULE ConnectionEditor ---------------------------
(***************************************************************************)
(* The form that creates and edits connections,                            *)
(* widgets/connection-editor/ui/ConnectionEditor.tsx, with the merge of    *)
(* handleEditorSave in AssetTree.  One antd form instance outlives every   *)
(* opening of the dialog: values stay in it when their fields are not on   *)
(* the page, and validateFields returns only those that are.  A value is   *)
(* told apart by the asset it was loaded from.                             *)
(***************************************************************************)
EXTENDS PageCalls

CONSTANTS
    Assets, Kind,       \* the connection type of each: ssh, rdp or local
    New, Blank, Typed,  \* no asset edited; an empty value; one typed by hand
    MaxTyped            \* bound: fields typed in one opening of the dialog

VARIABLES
    ui,
    back    \* the stored assets

vars == <<ui, calls, back>>

Fields == {"name", "env", "host", "password", "privateKey", "shell"}
Stored == Fields \ {"shell"}

\* What opening sets anyway is put back to one value on closing.
Closed(form) ==
    [open |-> FALSE, editing |-> New, kind |-> "ssh", tab |-> "basic", auth |-> "password",
     form |-> form, typed |-> {}]

Init ==
    /\ ui = Closed([f \in Fields |-> Blank])
    /\ calls = {}
    /\ back = [a \in Assets |-> [f \in Stored |-> a]]

\* typeFields and the conditions of the form: the fields on the page.
OfKind(kind) ==
    CASE kind = "ssh"   -> {"host", "password", "privateKey"}
      [] kind = "rdp"   -> {"host", "password"}
      [] kind = "local" -> {"shell"}

Mounted ==
    IF ui.tab # "basic" THEN {}
    ELSE {"name", "env"} \cup
         {f \in OfKind(ui.kind) : ui.kind = "ssh" =>
             /\ f = "password" => ui.auth = "password"
             /\ f = "privateKey" => ui.auth = "key"}

Opened(kind, a, form) ==
    ui' = [ui EXCEPT !.open = TRUE, !.kind = kind, !.editing = a, !.form = form,
                     !.tab = "basic", !.auth = "password", !.typed = {}]

\* Mutant: the effect leaves out a field, as it does the shell.
OpenToEditKeepsName(a) ==
    /\ ~ui.open
    /\ Opened(Kind[a], a, [f \in Fields |-> IF f \in Stored \ {"name"} THEN back[a][f] ELSE ui.form[f]])
    /\ UNCHANGED <<calls, back>>

\* The effect on an asset to edit: every field but the shell is set from it.
OpenToEdit(a) ==
    /\ ~ui.open
    /\ Opened(Kind[a], a, [f \in Fields |-> IF f \in Stored THEN back[a][f] ELSE ui.form[f]])
    /\ UNCHANGED <<calls, back>>

OpenToCreate(kind) ==
    /\ ~ui.open
    /\ Opened(kind, New, [f \in Fields |-> Blank])
    /\ UNCHANGED <<calls, back>>

\* Types and tabs that offer more than the basic tab.
SelectTab(tab) ==
    /\ ui.open /\ ui.kind = "ssh"
    /\ ui' = [ui EXCEPT !.tab = tab]
    /\ UNCHANGED <<calls, back>>

SelectAuth(auth) ==
    /\ ui.open /\ ui.kind = "ssh" /\ ui.tab = "basic"
    /\ ui' = [ui EXCEPT !.auth = auth]
    /\ UNCHANGED <<calls, back>>

TypeField(f) ==
    /\ ui.open /\ f \in Mounted /\ Cardinality(ui.typed \cup {f}) <= MaxTyped
    /\ ui' = [ui EXCEPT !.form[f] = Typed, !.typed = @ \cup {f}]
    /\ UNCHANGED <<calls, back>>

\* What onSave is given: a field not on the page is left out, but env and the
\* two secrets always are there, empty unless shown; a local shell is the host.
Given == (Mounted \cap Stored) \cup {"env", "password", "privateKey"}
         \cup (IF ui.kind = "local" THEN {"host"} ELSE {})
ValueOf(f) ==
    CASE f = "host" /\ ui.kind = "local" -> ui.form["shell"]
      [] f = "password" /\ ui.auth # "password" -> Blank
      [] f = "privateKey" /\ ui.auth # "key" -> Blank
      [] OTHER -> IF f \in Mounted THEN ui.form[f] ELSE Blank

\* Required fields are checked only while they are on the page.
Valid == \A f \in Mounted \cap {"name", "host"} : ui.form[f] # Blank

HandleSave ==
    /\ ui.open /\ Valid
    /\ ui' = Closed(ui.form)
    /\ back' = IF ui.editing = New THEN back
               ELSE [back EXCEPT ![ui.editing] =
                        [f \in Stored |-> IF f \in Given THEN ValueOf(f) ELSE @[f]]]
    /\ UNCHANGED calls

OnCancel ==
    /\ ui.open
    /\ ui' = Closed(ui.form)
    /\ UNCHANGED <<calls, back>>

\* What the dialog offers: its buttons and tabs, the way to authenticate, and the
\* fields on the page.
Dialog ==
    \/ HandleSave \/ OnCancel
    \/ \E tab \in {"basic", "advanced"} : SelectTab(tab)
    \/ \E auth \in {"password", "key", "mfa"} : SelectAuth(auth)
    \/ \E f \in Fields : TypeField(f)

Next ==
    \/ Dialog
    \/ \E a \in Assets : OpenToEdit(a)
    \/ \E kind \in {"ssh", "rdp", "local"} : OpenToCreate(kind)

-----------------------------------------------------------------------------
TypeOK ==
    /\ ui.typed \subseteq Fields
    /\ \A f \in ui.typed : ui.form[f] = Typed

\* No asset gets a value of another; a local terminal's shell aside, which the
\* form may still hold from the one created before.
ShownBelongs == \A a \in Assets : \A f \in Stored : back[a][f] \in {a, Typed, Blank}

\* A save changes a field only if it was typed since the dialog opened; except
\* that it empties env, password and key when they are not on the page, and that
\* a local terminal's shell is never shown as it is stored.
SavesOnlyTyped ==
    \A a \in Assets : \A f \in Stored :
        back'[a][f] # back[a][f] =>
            \/ f \in ui.typed
            \/ f \in {"env", "password", "privateKey"} \ Mounted
            \/ f = "host" /\ Kind[a] = "local"
=============================================================================
