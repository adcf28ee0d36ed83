---------------------------- MODULE MCFlatBuffers ----------------------------
(* Scripts for TLC. *)
EXTENDS FlatBuffers

Do(operation) == <<operation, "">>
Direct1(type) == <<"direct", type>>
Named(type) == <<"named", type>>
Created(type) == <<"create", type>>
End(type) == <<"finish", type>>

MCStrings == {<<1, 1, 1, 1>>, <<1, 1, 1, 1, 0>>, <<2, 3, 1>>}

\* A builder used again after each way of emptying it, with shared strings and
\* a table made field by field; a packet, a change of the root.
TestInfoScripts ==
  {<<Do("string"), <<"builder", "TestInfo">>, End("TestInfo"), <<"mutate", "root">>,
     <<"packet", "setters">>, Do("clear"), Do("shared"), Do("shared"), Named("TestInfo")>>,
   <<Do("shared"), <<"builder", "TestInfo">>, <<"force", "on">>,
     <<"builder", "TestInfo">>, End("TestInfo"), <<"packet", "assemble">>,
     <<"packet", "assemble">>, Do("release"), Do("clear"), Do("shared"), Do("shared")>>,
   <<Do("shared"), <<"dedup", "off">>, Named("TestInfo"), Do("move"), Named("TestInfo"),
     Do("reset"), Do("shared"), <<"builder", "TestInfo">>, End("TestInfo"), <<"mutate", "root">>>>}

SortedScripts ==
  {<<Direct1("KeyValue"), Direct1("KeyValue"), Direct1("KeyValue"), <<"sorted", "KeyValue">>>>,
   <<Do("string"), Do("string"), Created("KeyValue"), Created("KeyValue"),
     Created("KeyValue"), <<"sorted", "KeyValue">>>>,
   <<Named("EnumVal"), Named("EnumVal"), Named("EnumVal"), <<"sorted", "EnumVal">>>>}

SchemaScripts ==
  {<<Do("strings"), Do("string"), Named("KeyValue"), Named("Type"), Named("EnumVal"),
     Named("Enum"), End("Enum")>>,
   <<Named("Type"), Named("Field"), Named("Object"), Named("RPCCall"), Named("Service"),
     Named("Schema"), End("Schema")>>}

AlignmentScripts ==
  {<<Do("string"), Do("struct"), Do("move"), Do("scalars"), Named("EnumVal"), End("EnumVal")>>,
   <<Do("scalars"), Do("aligned"), Do("structs"), Named("Type"), Named("Field"), End("Field"),
     <<"mutate", "elements">>>>,
   <<<<"structs", "uninitialized">>, Do("scalars"), Named("EnumVal"), End("EnumVal")>>}

DamageScripts ==
  {<<Direct1("TestInfo"), Named("TestInfo"), End("TestInfo"), Do("receive")>>,
   <<Named("Type"), Named("EnumVal"), Named("Enum"), End("Enum"), Do("receive")>>}

MCScripts == TestInfoScripts \cup SortedScripts \cup SchemaScripts \cup AlignmentScripts
               \cup DamageScripts
=============================================================================
