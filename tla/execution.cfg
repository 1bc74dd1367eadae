SPECIFICATION Spec
CONSTANTS
  I64_BITS = 6
  I128_BITS = 8
  Reg = {0, 1}
  Length <- LengthDef
  Constants <- ConstantsDef
  StringHash <- StringHashDef
  FunctionNames = {"f"}
  GlobalNames = {"g"}
  CAPACITY = 2
  Bitwise <- BitwiseDef
  MAX_OBJECTS = 5
  INITIAL_BUCKET_COUNT = 2
  Objects <- ObjectsDef
  DictKeys <- DictKeysDef
  DictValues <- DictValuesDef
  MAX_SIZE = 4
  Sizes = {8, 16, 300}
  Slots = {s1, s2}
  CLIENTS = "raii"
  POOL_CHUNK_SIZE = 2
  MIN_EXPANSION = 1
  MAX_REUSE_POOL_SIZE = 1
  MAX_BLOCKS = 5
  MAX_GENERATION = 2
  MAX_STEPS = 5
SYMMETRY Symmetry
CHECK_DEADLOCK FALSE
INVARIANTS
  NumbersExact
  ChannelFifo
  TupleKeeps
  BlocksOnce
PROPERTIES
  DictIsMap
