---------------------------- MODULE MCDocsPages ----------------------------
(* An instance of DocsPages for TLC: the page of an enumeration, with its
   members and its entries as tabs, and a page that has filters only. *)
EXTENDS DocsPages

CONSTANTS member, enum, common, jvm, members, entries, aMember, anEntry

MCPages        == {member, enum}
MCButtons      == {common, jvm}
MCDependencies == [s \in MCButtons |-> IF s = common THEN {} ELSE {common}]
MCRow          == <<common, jvm>>
MCTabs         == [p \in MCPages |-> IF p = enum THEN {members, entries} ELSE {}]
MCFirstTab     == [p \in MCPages |-> IF p = enum THEN members ELSE NoTab]
MCAnchors      == [p \in MCPages |-> IF p = enum THEN {aMember, anEntry} ELSE {}]
MCTabOf        == [a \in {aMember, anEntry} |->
                       IF a = anEntry THEN entries ELSE members]
MCMarked       == {anEntry}
MCSourceSets   == [a \in {aMember, anEntry} |->
                       IF a = anEntry THEN MCButtons ELSE {common}]
=============================================================================
