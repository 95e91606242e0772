CONSTANTS
    Slots = {a, b, c}
    Sizes <- LargeSizes
SPECIFICATION Spec
PROPERTIES
    SearchFindsBlank
