------------------------------ MODULE FlatSchema ------------------------------
(***************************************************************************)
(* The tables of testinfo_generated.h and reflection_generated.h: their    *)
(* fields in the order of the vtable, which are required, and which is the *)
(* key.  A field is a scalar of so many bytes with a default, a string, a  *)
(* table, or a vector of strings or of tables.                             *)
(***************************************************************************)
EXTENDS Integers, Sequences

Num(name, width, default) ==
  [name |-> name, kind |-> "scalar", width |-> width, default |-> default, of |-> "-"]
Ref(name, kind, of) ==
  [name |-> name, kind |-> kind, width |-> 4, default |-> 0, of |-> of]
Str(name) == Ref(name, "string", "-")
Tab(name, of) == Ref(name, "table", of)
Vec(name, of) == Ref(name, "vector", of)

Table(fields, required, key) == [fields |-> fields, required |-> required, key |-> key]

Attributes == Vec("attributes", "KeyValue")
Documentation == Vec("documentation", "string")

----------------------------------------------------------------------------

TestInfo == Table(<<Str("name"), Num("level", 4, 0)>>, {}, "none")

Type ==
  Table(<<Num("base_type", 1, 0), Num("element", 1, 0), Num("index", 4, -1)>>, {}, "none")

KeyValue == Table(<<Str("key"), Str("value")>>, {"key"}, "key")

EnumVal ==
  Table(<<Str("name"), Num("value", 8, 0), Tab("object", "Object"),
          Tab("union_type", "Type"), Documentation>>,
        {"name"}, "value")

Enum ==
  Table(<<Str("name"), Vec("values", "EnumVal"), Num("is_union", 1, 0),
          Tab("underlying_type", "Type"), Attributes, Documentation>>,
        {"name", "values", "underlying_type"}, "name")

Field ==
  Table(<<Str("name"), Tab("type", "Type"), Num("id", 2, 0), Num("offset", 2, 0),
          Num("default_integer", 8, 0), Num("default_real", 8, 0), Num("deprecated", 1, 0),
          Num("required", 1, 0), Num("key", 1, 0), Attributes, Documentation>>,
        {"name", "type"}, "name")

Object ==
  Table(<<Str("name"), Vec("fields", "Field"), Num("is_struct", 1, 0),
          Num("minalign", 4, 0), Num("bytesize", 4, 0), Attributes, Documentation>>,
        {"name", "fields"}, "name")

RPCCall ==
  Table(<<Str("name"), Tab("request", "Object"), Tab("response", "Object"),
          Attributes, Documentation>>,
        {"name", "request", "response"}, "name")

Service ==
  Table(<<Str("name"), Vec("calls", "RPCCall"), Attributes, Documentation>>,
        {"name"}, "name")

Schema ==
  Table(<<Vec("objects", "Object"), Vec("enums", "Enum"), Str("file_ident"),
          Str("file_ext"), Tab("root_table", "Object"), Vec("services", "Service")>>,
        {"objects", "enums"}, "none")

Tables ==
  [TestInfo |-> TestInfo, Type |-> Type, KeyValue |-> KeyValue, EnumVal |-> EnumVal,
   Enum |-> Enum, Field |-> Field, Object |-> Object, RPCCall |-> RPCCall,
   Service |-> Service, Schema |-> Schema]

----------------------------------------------------------------------------

FieldsOf(type) == Tables[type].fields

NumberOf(type, name) == CHOOSE i \in DOMAIN FieldsOf(type) : FieldsOf(type)[i].name = name
=============================================================================
