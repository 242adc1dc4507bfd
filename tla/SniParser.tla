------------------------------ MODULE SniParser ------------------------------
(***************************************************************************)
(* src/tls_parser.rs: the server name in the bytes that handle_connection  *)
(* peeks at. One peek() returns whatever has arrived, so the parser meets  *)
(* every prefix of a ClientHello, and also what follows one.               *)
(* A cursor is the number of bytes read, or Fail once a read has answered  *)
(* None; a byte is a number, and a name the sequence of its bytes.         *)
(***************************************************************************)
EXTENDS Integers, Sequences, FiniteSetsExt, Bytes

Fail == -1

(* Not a name: a name of no bytes is one. *)
NoName == <<Fail>>

(* Parser::remaining is enough for n more bytes. *)
Has(buffer, pos, n) == pos # Fail /\ pos + n <= Len(buffer)

read_u8(buffer, pos) == buffer[pos + 1]

read_u16(buffer, pos) == 256 * buffer[pos + 1] + buffer[pos + 2]

skip(buffer, pos, n) == IF Has(buffer, pos, n) THEN pos + n ELSE Fail

read_slice(buffer, pos, n) == SubSeq(buffer, pos + 1, pos + n)

(* A read of a length of one or of two bytes, and a skip of that many. *)
skip_vector8(buffer, pos) ==
    IF Has(buffer, pos, 1) THEN skip(buffer, pos + 1, read_u8(buffer, pos)) ELSE Fail

skip_vector16(buffer, pos) ==
    IF Has(buffer, pos, 2) THEN skip(buffer, pos + 2, read_u16(buffer, pos)) ELSE Fail

from_utf8(name) == IF IsText(name) THEN name ELSE NoName

(* The first entry of type HostName from each place of the list of names,  *)
(* if every entry up to it is whole.                                       *)
first_host_name(list) ==
    LET entry[pos \in 0..Len(list)] ==
            LET len == read_u16(list, pos + 1) IN
            IF ~Has(list, pos, 3) \/ ~Has(list, pos + 3, len)
              THEN NoName
              ELSE IF read_u8(list, pos) = 0
                THEN from_utf8(read_slice(list, pos + 3, len))
                ELSE entry[pos + 3 + len]
    IN entry

(* The list has the length it says. *)
parse_sni_extension(data) ==
    LET list == SubSeq(data, 3, Len(data)) IN
    IF Len(data) >= 2 /\ read_u16(data, 0) = Len(list) THEN first_host_name(list)[0] ELSE NoName

(* The first extension of type 0 from each place of the extensions, within *)
(* their length.                                                           *)
find_server_name(ext_bytes) ==
    LET extension[pos \in 0..Len(ext_bytes)] ==
            LET len == read_u16(ext_bytes, pos + 2) IN
            IF ~Has(ext_bytes, pos, 4) \/ ~Has(ext_bytes, pos + 4, len)
              THEN NoName
              ELSE IF read_u16(ext_bytes, pos) = 0
                THEN parse_sni_extension(read_slice(ext_bytes, pos + 4, len))
                ELSE extension[pos + 4 + len]
    IN extension

(* The headers of record and handshake, the version and the random. *)
RecordHeader == 5

HandshakeHeader == 4

VersionAndRandom == 34

(* Mutant: the extensions are read as far as they have arrived. *)
parse_sni_of_part(buffer) ==
    LET fixed == skip(buffer, 0, RecordHeader + HandshakeHeader + VersionAndRandom)
        session == skip_vector8(buffer, fixed)
        ciphers == skip_vector16(buffer, session)
        compression == skip_vector8(buffer, ciphers)
    IN IF ~Has(buffer, compression, 2) \/ read_u8(buffer, 0) # 22
           \/ read_u8(buffer, RecordHeader) # 1
         THEN NoName
         ELSE find_server_name(SubSeq(buffer, compression + 3, Len(buffer)))[0]

parse_sni(buffer) ==
    LET fixed == skip(buffer, 0, RecordHeader + HandshakeHeader + VersionAndRandom)
        session == skip_vector8(buffer, fixed)
        ciphers == skip_vector16(buffer, session)
        compression == skip_vector8(buffer, ciphers)
        extensions_len == read_u16(buffer, compression)
    IN IF \/ ~Has(buffer, compression, 2)
          \/ read_u8(buffer, 0) # 22
          \/ read_u8(buffer, RecordHeader) # 1
          \/ ~Has(buffer, compression + 2, extensions_len)
         THEN NoName
         ELSE find_server_name(read_slice(buffer, compression + 2, extensions_len))[0]

-----------------------------------------------------------------------------
(* A ClientHello and its bytes, as RFC 8446 and RFC 6066 lay them out. *)

Number16(n) == <<n \div 256, n % 256>>

Vector8(s) == <<Len(s)>> \o s

Vector16(s) == Number16(Len(s)) \o s

Typed16(type, s) == Number16(type) \o Vector16(s)

NameBytes(n) == <<n.type>> \o Vector16(n.name)

NamesBytes(names) == Concat([i \in DOMAIN names |-> NameBytes(names[i])])

(* An extension is a server name list, or another one with opaque data. *)
ExtensionBytes(e) ==
    Typed16(e.type, IF e.type = 0 THEN Vector16(NamesBytes(e.names)) ELSE e.data)

ExtensionsBytes(extensions) ==
    Concat([i \in DOMAIN extensions |-> ExtensionBytes(extensions[i])])

HelloBody(h) ==
    [i \in 1..VersionAndRandom |-> 3] \o Vector8(h.session) \o Vector16(h.ciphers)
      \o Vector8(<<0>>) \o Vector16(ExtensionsBytes(h.extensions))

HelloBytes(h) == <<22, 3, 1>> \o Vector16(<<1, 0>> \o Vector16(HelloBody(h)))

(* The first record of type 0 in a sequence of extensions or of names. *)
FirstOfType0(s) == s[Min({i \in DOMAIN s : s[i].type = 0})]

HasType0(s) == \E i \in DOMAIN s : s[i].type = 0

(* The name a hello asks for: its first server name extension's first host *)
(* name, where it is text.                                                 *)
NameAskedFor(h) ==
    LET list == FirstOfType0(h.extensions).names
        name == FirstOfType0(list).name
    IN IF HasType0(h.extensions) /\ HasType0(list) /\ IsText(name)
         THEN name
         ELSE NoName
=============================================================================
