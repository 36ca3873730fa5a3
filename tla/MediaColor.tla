----------------------------- MODULE MediaColor -----------------------------
(***************************************************************************)
(* What a Windows host says of the colours it sends: the contract between  *)
(* the captured texture and the encoded unit (media_color.rs), the checks  *)
(* of the direct capture to NVENC path (windows_publisher.rs,              *)
(* windows_native.rs) and the probe of the codecs a host announces         *)
(* (windows_host_publisher.rs).                                            *)
(*                                                                         *)
(* The user may change the desktop at any time: its mode (width), its      *)
(* pixel format, HDR on or off, the depth of the panel.  The native layers *)
(* are external: a texture shows the desktop of the moment, and an encoder *)
(* exists for the codecs and depths of the graphics card.  An Option is a  *)
(* set of at most one member.                                              *)
(***************************************************************************)
EXTENDS Naturals, FiniteSets

CONSTANTS Desktops,    \* what a desktop may look like
          Cards,       \* encoders of a card: sets of <<codec, depth>>
          MaxSteps     \* bound: changes of the desktop and frames

ASSUME ColorConstants ==
    /\ MaxSteps \in Nat
    /\ \A d \in Desktops : DOMAIN d = {"width", "format", "space", "bits"}

VARIABLES desktop,    \* the desktop now
          options,    \* HostOptions: the width probed at startup, and the card
          announced,  \* codecs the host announced, none before the probe
          stream,     \* the open pipeline, at most one
          unit,       \* the last unit, with the desktop it shows, at most one
          steps

colorVars == <<desktop, options, announced, stream, unit, steps>>

Codecs == {"H264", "H265"}

-----------------------------------------------------------------------------
(* The contract.                                                           *)

(* DxgiFormat::component_bits and storage; FP16 is the only float.         *)
component_bits(format) ==
    CASE format \in {"BGRA8", "NV12"} -> 8
      [] format \in {"RGB10A2", "P010"} -> 10
      [] OTHER -> 16
storage(format) ==
    [depth |-> component_bits(format),
     chroma |-> IF format \in {"NV12", "P010"} THEN "420" ELSE "444",
     numeric |-> IF format = "FP16" THEN "float" ELSE "unorm"]

storage_is_explicit(s) == s.depth \in 8..16

colorimetry_is_explicit(c) ==
    \A field \in {"primaries", "transfer", "matrix", "range"} : c[field] # "unspecified"
is_explicit_bt2020(c) ==
    /\ colorimetry_is_explicit(c)
    /\ c.primaries = "bt2020"
    /\ c.matrix \in {"bt2020ncl", "bt2020cl"}

mastering_is_valid(m) ==
    /\ \A point \in m.points : point <= 50000
    /\ m.max > m.min /\ m.max # 0
light_is_valid(m) == m.cll # 0 /\ m.fall # 0 /\ m.fall <= m.cll
metadata_is_valid(m) == mastering_is_valid(m) /\ light_is_valid(m)

(* classify_negotiated.  A set of at most one class.                       *)
classify_negotiated(producer, consumer) ==
    LET c == producer.colorimetry
        ten == producer.storage = storage("P010")
        eight == producer.storage.depth = 8 /\ producer.storage.numeric = "unorm"
        hdr == ten /\ is_explicit_bt2020(c)
        sdr == c.transfer \notin {"pq", "hlg", "scrgb"} /\ producer.hdr = {}
        fp16 == /\ producer.storage = storage("FP16") /\ c.primaries = "bt709"
                /\ c.matrix = "identity" /\ c.range = "full"
    IN  IF \/ producer # consumer
           \/ ~storage_is_explicit(producer.storage)
           \/ ~colorimetry_is_explicit(c)
           \/ ~producer.preserved
        THEN {}
        ELSE {class \in {"hdr10", "hlg10", "scrgb", "sdr10", "sdr"} :
                CASE class = "hdr10" -> /\ c.transfer = "pq" /\ hdr
                                        /\ \E m \in producer.hdr : metadata_is_valid(m)
                  [] class = "hlg10" -> /\ c.transfer = "hlg" /\ hdr
                                        /\ \A m \in producer.hdr : metadata_is_valid(m)
                  [] class = "scrgb" -> c.transfer = "scrgb" /\ fp16 /\ producer.hdr = {}
                  [] class = "sdr10" -> sdr /\ ten
                  [] class = "sdr" -> sdr /\ eight}

-----------------------------------------------------------------------------
(* The capture.                                                            *)

(* native_format: the formats that capture hands out.                      *)
native_format(format) == format \in {"BGRA8", "RGB10A2"}

(* source_color: what a texture means, from the format of its pixels and   *)
(* the colour space of the output.  Never any mastering metadata.          *)
Colorimetry(primaries, transfer) ==
    [primaries |-> primaries, transfer |-> transfer, matrix |-> "identity", range |-> "full"]
KnownColor(d) ==
    \/ d.format = "BGRA8" /\ d.space = "G22_P709" /\ d.bits >= 8
    \/ d.format = "RGB10A2" /\ d.space \in {"G22_P709", "G2084_P2020"} /\ d.bits >= 10
source_color_of_format(d) ==  \* mutant
    [storage |-> storage(d.format), hdr |-> {}, preserved |-> TRUE,
     colorimetry |-> Colorimetry("bt709", "gamma22")]

source_color(d) ==
    [storage |-> storage(d.format), hdr |-> {}, preserved |-> TRUE,
     colorimetry |-> IF d.space = "G2084_P2020" THEN Colorimetry("bt2020", "pq")
                     ELSE Colorimetry("bt709", "gamma22")]

(* capture_info, at open: the descriptor every later frame must have.      *)
Captures(d) == native_format(d.format) /\ KnownColor(d)
capture_info(d) ==
    [width |-> d.width, format |-> d.format, source |-> source_color(d),
     space |-> d.space, bits |-> d.bits]

-----------------------------------------------------------------------------
(* The encoder.                                                            *)

(* encoded_color: what the unit will say, derived from the source.         *)
EncodedFormat(depth) == IF depth = 8 THEN "NV12" ELSE "P010"
MatrixOf(primaries) == IF primaries = "bt709" THEN "bt709" ELSE "bt2020ncl"
Encodable(source) ==
    /\ source.storage.depth \in {8, 10}
    /\ source.colorimetry.primaries \in {"bt709", "bt2020"}
encoded_color(source) ==
    [source EXCEPT !.storage = storage(EncodedFormat(source.storage.depth)),
                   !.colorimetry.range = "limited",
                   !.colorimetry.matrix = MatrixOf(source.colorimetry.primaries)]

(* native_config.                                                          *)
Configures(width, info) == width = info.width /\ Encodable(info.source)
native_config(codec, info) ==
    [codec |-> codec, width |-> info.width, source |-> info.source,
     encoded |-> encoded_color(info.source)]

(* validate_encoded_transport.                                             *)
validate_encoded_transport(color) ==
    /\ \/ color.colorimetry.primaries = "bt709" /\ color.colorimetry.matrix = "bt709"
       \/ /\ color.colorimetry.primaries = "bt2020"
          /\ color.colorimetry.matrix \in {"bt2020ncl", "bt2020cl"}
    /\ color.storage.chroma = "420" /\ color.storage.numeric = "unorm"
    /\ classify_negotiated(color, color) # {}

(* vui: the code points of H.273 the bit stream carries; hdr_static: the   *)
(* metadata it carries, refused when invalid.                              *)
vui(color) ==
    [primaries |-> CASE color.colorimetry.primaries = "bt709" -> 1
                     [] color.colorimetry.primaries = "bt2020" -> 9,
     transfer |-> CASE color.colorimetry.transfer = "bt709" -> 1
                    [] color.colorimetry.transfer = "gamma22" -> 4
                    [] color.colorimetry.transfer = "srgb" -> 13
                    [] color.colorimetry.transfer = "pq" -> 16
                    [] color.colorimetry.transfer = "hlg" -> 18,
     matrix |-> CASE color.colorimetry.matrix = "identity" -> 0
                  [] color.colorimetry.matrix = "bt709" -> 1
                  [] color.colorimetry.matrix = "bt2020ncl" -> 9
                  [] color.colorimetry.matrix = "bt2020cl" -> 10,
     full |-> color.colorimetry.range = "full"]
hdr_static(hdr) == \A m \in hdr : metadata_is_valid(m)

(* nv_input_format.                                                        *)
nv_input_format(format) == format # "FP16"

SameMeaning(source, encoded) ==
    /\ source.colorimetry.primaries = encoded.colorimetry.primaries
    /\ source.colorimetry.transfer = encoded.colorimetry.transfer
    /\ source.hdr = encoded.hdr
    /\ source.storage.depth = encoded.storage.depth

(* NativeNvenc::new, on the card.                                          *)
NewEncoder(config, info) ==
    /\ info.width = config.width /\ info.source = config.source
    /\ SameMeaning(config.source, config.encoded)
    /\ validate_encoded_transport(config.encoded)
    /\ nv_input_format(info.format) /\ hdr_static(config.encoded.hdr)
    /\ <<config.codec, config.encoded.storage.depth>> \in options.card

(* capability: what the encoder of this path says of itself.               *)
capability(config, info) ==
    [codec |-> config.codec, format |-> info.format, input |-> info.source,
     output |-> config.encoded, width |-> config.width,
     main10 |-> info.format \in {"P010", "RGB10A2"},
     metadata |-> config.codec = "H265" /\ info.format \in {"P010", "RGB10A2"}]

(* validate_format_color.                                                  *)
validate_format_color(format, color) ==
    IF format \in {"NV12", "P010"}
    THEN color.storage.chroma = "420" /\ color.colorimetry.matrix # "identity"
    ELSE /\ color.storage.chroma = "444"
         /\ color.colorimetry.matrix = "identity" /\ color.colorimetry.range = "full"

(* validate_capability.                                                    *)
validate_capability(config, able) ==
    /\ able.codec = config.codec
    /\ storage(able.format) = able.input.storage /\ able.input = config.source
    /\ able.width = config.width
    /\ validate_format_color(able.format, able.input)
    /\ config.source.preserved /\ colorimetry_is_explicit(config.source.colorimetry)
    /\ config.source.storage.depth \in {8, 10} /\ config.encoded.storage.depth \in {8, 10}
    /\ SameMeaning(config.source, config.encoded)
    /\ 10 \in {config.source.storage.depth, config.encoded.storage.depth} => able.main10
    /\ validate_encoded_transport(config.encoded)
    /\ classify_negotiated(config.encoded, able.output) # {}
    /\ IF config.encoded.colorimetry.transfer \in {"pq", "hlg"}
       THEN /\ classify_negotiated(config.encoded, able.output) \subseteq {"hdr10", "hlg10"}
            /\ config.encoded.hdr # {} => able.metadata
       ELSE config.encoded.hdr = {}

(* open_native: capture, configuration, encoder, publisher.                *)
OpensFor(codec, d) ==
    /\ Captures(d)
    /\ LET info == capture_info(d)
           config == native_config(codec, info)
       IN  /\ Configures(options.width, info)
           /\ NewEncoder(config, info)
           /\ validate_capability(config, capability(config, info))

-----------------------------------------------------------------------------
(* The host.                                                               *)

(* probe_display at startup fixes the size the host offers.                *)
ColorInit ==
    /\ desktop \in Desktops
    /\ \E card \in Cards : options = [width |-> desktop.width, card |-> card]
    /\ announced = {} /\ stream = {} /\ unit = {} /\ steps = 0

(* supported_codecs_for: a codec is announced when its pipeline opened and *)
(* closed again; none is an error and ends the session.                    *)
Probe ==
    /\ announced = {} /\ stream = {}
    /\ announced' = {codec \in Codecs : OpensFor(codec, desktop)}
    /\ UNCHANGED <<desktop, options, stream, unit, steps>>

(* The worker opens the codec that was negotiated.  When it fails, or the  *)
(* stream does, the session ends; the next one probes again.               *)
OpenStream(codec) ==
    /\ codec \in announced /\ stream = {}
    /\ IF OpensFor(codec, desktop)
       THEN /\ stream' = {[info |-> capture_info(desktop),
                           config |-> native_config(codec, capture_info(desktop))]}
            /\ UNCHANGED announced
       ELSE announced' = {} /\ UNCHANGED stream
    /\ UNCHANGED <<desktop, options, unit, steps>>

(* NativeFrame::from_raw: a frame that is not what capture_info said is    *)
(* refused.                                                                *)
from_raw(s, d) ==
    /\ native_format(d.format) /\ KnownColor(d)
    /\ capture_info(d) = s.info
(* validate_texture, against the encoder's own capability.                 *)
validate_texture(s, d) ==
    LET able == capability(s.config, s.info) IN
    /\ d.width = s.config.width
    /\ d.format = able.format
    /\ storage(d.format) = source_color(d).storage
    /\ source_color(d) = able.input /\ source_color(d) = s.config.source
(* validate_unit: NVENC's output keeps the configured contract.            *)
validate_unit(s) == classify_negotiated(s.config.encoded, s.config.encoded) # {}

NextUnit(s) ==
    /\ s \in stream /\ steps < MaxSteps
    /\ steps' = steps + 1
    /\ IF from_raw(s, desktop) /\ validate_texture(s, desktop) /\ validate_unit(s)
       THEN /\ unit' = {[shows |-> desktop, says |-> vui(s.config.encoded),
                         depth |-> s.config.encoded.storage.depth,
                         metadata |-> s.config.encoded.hdr, width |-> s.config.width]}
            /\ UNCHANGED <<announced, stream>>
       ELSE stream' = {} /\ announced' = {} /\ UNCHANGED unit
    /\ UNCHANGED <<desktop, options>>

(* The session ends: the pipeline is closed, the next peer probes again.   *)
EndSession ==
    /\ announced # {}
    /\ announced' = {} /\ stream' = {} /\ unit' = {}
    /\ UNCHANGED <<desktop, options, steps>>

(* External: the user changes the display settings.                        *)
ChangeDesktop(d) ==
    /\ d # desktop /\ steps < MaxSteps
    /\ desktop' = d /\ steps' = steps + 1
    /\ UNCHANGED <<options, announced, stream, unit>>

ColorNext ==
    \/ Probe \/ EndSession
    \/ \E codec \in Codecs : OpenStream(codec)
    \/ \E s \in stream : NextUnit(s)
    \/ \E d \in Desktops : ChangeDesktop(d)

ColorSpec == ColorInit /\ [][ColorNext]_colorVars

-----------------------------------------------------------------------------
ColorTypeOK ==
    /\ desktop \in Desktops
    /\ announced \subseteq Codecs
    /\ Cardinality(stream) <= 1 /\ Cardinality(unit) <= 1
    /\ steps \in 0..MaxSteps

(* A unit says of its picture what the desktop meant when the picture was  *)
(* taken: its gamut, its transfer function, its depth and its size         *)
(* (windows_publisher.rs: "Reject relabeling SDR as HDR (or vice versa)"), *)
(* whatever the user changed since the pipeline was opened, and a picture  *)
(* in PQ carries mastering metadata (media_color.rs: "PQ requires          *)
(* complete, valid mastering-display and MaxCLL/MaxFALL metadata").        *)
ColourIsKept ==
    \A u \in unit :
        /\ u.width = u.shows.width
        /\ u.depth = component_bits(u.shows.format)
        /\ u.shows.bits >= u.depth
        /\ u.says.primaries = IF u.shows.space = "G2084_P2020" THEN 9 ELSE 1
        /\ u.says.transfer = IF u.shows.space = "G2084_P2020" THEN 16 ELSE 4
        /\ u.says.transfer = 16 => u.metadata # {}

=============================================================================
